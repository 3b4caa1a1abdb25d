SPECIFICATION Spec
CONSTANTS
    r1 = r1
    r2 = r2
    None = None
    Rooms = {r1, r2}
    Existing = {r1}
    Jobs = {1, 2, 3}
    Kinds = {"change", "matrix", "create", "delete"}
    Impatient = FALSE
    Removal = TRUE
    Quits = TRUE
    EngineFails = TRUE
    EngineHangs = TRUE
    MaxCrashes = 0
INVARIANTS
    EngineExclusive
    FencedRoomUntouched
    RemovalIsFinal
    CleanShutdownIsQuiet
CHECK_DEADLOCK FALSE
