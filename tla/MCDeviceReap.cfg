SPECIFICATION FairSpec
CONSTANTS
    d1 = d1
    n1 = n1
    r1 = r1
    None = None
    Rooms = {r1}
    Devices = {d1}
    Reach <- MCReach
    Nicknames = {n1}
    Requests <- MCRequests
    Opaque = {r1}
    Retained = {}
    LeaseIds = {1, 2}
    Ttl = 1
    Grace = 1
    MaxDuration = 2
    MaxProbe = 1
    AgeCap = 4
    TimePasses = TRUE
    MaxCrashes = 0
PROPERTIES
    OnlyTheSilentLose
    DeadOwnerLosesPhone
CHECK_DEADLOCK FALSE
