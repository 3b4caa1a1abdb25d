SPECIFICATION RecoverySpec
CONSTANTS
    r1 = r1
    r2 = r2
    install = install
    tracked = tracked
    drive = drive
    accept = accept
    None = None
    Source = Source
    Fresh = {f1, f2}
    Calls = {c1, c2}
    Tasks = {t}
    Slots = 1
    MaxEdits = 1
    MaxFaults = 2
    MaxEvents = 1
    Old = Old
    New = New
    q1 = q1
    q2 = q2
    b1 = b1
    b2 = b2
INVARIANTS
    TypeOK
    CreationHolds
PROPERTIES
    FencesHold
    LocaleHolds
    RuntimeHolds
    ManagedRuntimeHolds
    ChannelHolds
    ArtifactsHold
    WindowsHolds
CHECK_DEADLOCK FALSE
