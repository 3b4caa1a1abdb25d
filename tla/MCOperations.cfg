SPECIFICATION Spec
CONSTANTS
    r1 = r1
    r2 = r2
    r3 = r3
    k1 = k1
    c1 = c1
    c2 = c2
    c3 = c3
    None = None
    Rooms = {r1, r2, r3}
    Existing = {r1}
    Calls = {c1, c2, c3}
    Plans <- MCPlans
    Bodies = {"a", "b"}
    Keys = {k1}
    Minted = {1, 2}
    Window = 1
    SavesFail = TRUE
    Deletions = TRUE
    MaxBoots = 1
INVARIANTS
    TypeOK
    DoneOnce
PROPERTIES
    AnswerStays
    OperationsEnd
CHECK_DEADLOCK FALSE
