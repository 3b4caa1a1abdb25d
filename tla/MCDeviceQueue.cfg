SPECIFICATION Spec
CONSTANTS
    d1 = d1
    d2 = d2
    n1 = n1
    r1 = r1
    r2 = r2
    None = None
    Rooms = {r1, r2}
    Devices = {d1, d2}
    Reach <- MCReach
    Nicknames = {n1}
    Requests <- MCRequests
    Opaque = {}
    Retained = {}
    LeaseIds = {1, 2, 3}
    Ttl = 0
    Grace = 0
    MaxDuration = 0
    MaxProbe = 0
    AgeCap = 1
    TimePasses = FALSE
    MaxCrashes = 0
INVARIANTS
    TypeOK
    OneLeasePerRoom
    NoIdlePhone
PROPERTIES
    ServedInOrder
    LeaseKeepsTransport
    OwnershipSpec
SYMMETRY Symmetry
CHECK_DEADLOCK FALSE
