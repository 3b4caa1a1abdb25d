SPECIFICATION Spec
CONSTANTS
    r1 = r1
    r2 = r2
    None = None
    Rooms = {r1, r2}
    Existing = {r1}
    Jobs = {1, 2, 3}
    Kinds = {"start", "change", "sleep", "undo", "sweep", "clone", "delete"}
    Impatient = TRUE
    Removal = FALSE
    Quits = FALSE
    EngineFails = TRUE
    EngineHangs = FALSE
    MaxCrashes = 1
INVARIANTS
    TypeOK
    HoldersExclusive
    RunningIsDriven
CHECK_DEADLOCK FALSE
