SPECIFICATION ComponentsSpec
CONSTANTS
    None = None
    Kinds = {"install", "normalize", "clean", "reset", "wipe", "renew", "remove", "version", "load", "config", "domain", "run"}
    Edits = {e1}
    MaxEntries = 2
    MaxCrashes = 1
    EditsInUndo = FALSE
    Ops = {"create", "wake", "stop", "delete", "recreate", "restart", "port", "add", "bounce", "drop"}
    MaxOps = 4
    MaxFaults = 1
    Majors = {m20, m22}
    MaxVolumeGen = 2
    MaxChanges = 4
    MaxSweeps = 1
    LegacyGen = 0
    Volumes = {src}
    Recorded = {src}
    Engines = {e_1, e_2}
    MaxCalls = 3
    MaxMoves = 2
    Midway = FALSE
    SyncEdits = {h1, h2}
    MaxGen = 3
    MaxHost = 1
    MaxMishaps = 2
    Commands = {c1, c2}
    MaxRuns = 1
    MaxBytes = 1
    MaxSize = 1
    MaxAtOnce = 2
    Tenants = {r1, r2, r3}
    PoolSize = 2
    MaxWakes = 3
    MaxTrouble = 1
    MaxMutations = 2
    MaxLooks = 1
    MaxDeaths = 1
    MaxHiccups = 2
INVARIANTS
    TypeOK
    ChangesHold
PROPERTIES
    ContainersHold
    DisksAreKept
    HostSyncKeepsWork
    CommandsBehave
    EmulatorHolds
CHECK_DEADLOCK FALSE
