SPECIFICATION Spec
CONSTANTS
    r1 = r1
    r2 = r2
    None = None
    Rooms = {r1, r2}
    Existing = {r1}
    Jobs = {1, 2, 3, 4}
    Kinds = {"start", "sleep", "clone", "delete"}
    Impatient = FALSE
    Removal = FALSE
    Quits = FALSE
    EngineFails = TRUE
    EngineHangs = FALSE
    MaxCrashes = 0
INVARIANTS
    QueueOrdered
    NoOrphanRecord
PROPERTIES
    DeleteKeepsReceipt
CHECK_DEADLOCK FALSE
