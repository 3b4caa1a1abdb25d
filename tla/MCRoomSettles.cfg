SPECIFICATION FairSpec
CONSTANTS
    r1 = r1
    r2 = r2
    None = None
    Rooms = {r1, r2}
    Existing = {r1}
    Jobs = {1, 2, 3}
    Kinds = {"clone", "delete"}
    Impatient = FALSE
    Removal = TRUE
    Quits = TRUE
    EngineFails = TRUE
    EngineHangs = FALSE
    MaxCrashes = 0
PROPERTIES
    EveryCallSettles
CHECK_DEADLOCK FALSE
