SPECIFICATION Spec
CONSTANTS
    r1 = r1
    r2 = r2
    None = None
    Rooms = {r1, r2}
    Existing = {r1}
    Jobs = {1, 2, 3}
    Kinds = {"start", "delete"}
    Impatient = TRUE
    Removal = FALSE
    Quits = TRUE
    EngineFails = TRUE
    EngineHangs = FALSE
    MaxCrashes = 0
INVARIANTS
    EngineExclusive
CHECK_DEADLOCK FALSE
