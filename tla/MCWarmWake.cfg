SPECIFICATION Spec
CONSTANTS
    Ops = {"create", "stop", "wake"}
    MaxOps = 3
    MaxFaults = 0
INVARIANTS
    WakesWarm
CHECK_DEADLOCK FALSE
