SPECIFICATION Spec
CONSTANTS
    d1 = d1
    n1 = n1
    n2 = n2
    r1 = r1
    r2 = r2
    None = None
    Rooms = {r1, r2}
    Devices = {d1}
    Reach <- MCReach
    Nicknames = {n1, n2}
    Requests <- MCRequests
    Opaque = {r2}
    Retained = {r1}
    LeaseIds = {1, 2, 3}
    Ttl = 0
    Grace = 0
    MaxDuration = 0
    MaxProbe = 0
    AgeCap = 1
    TimePasses = FALSE
    MaxCrashes = 1
PROPERTIES
    GoneIsRevoked
CHECK_DEADLOCK FALSE
