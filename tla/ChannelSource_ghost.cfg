SPECIFICATION Spec
CONSTANTS
    Group = {g1, g2}
    HasVerify = FALSE
    Capacity = 1
    MaxEvents = 1
    MaxFaults = 0
INVARIANTS NoGhost
CHECK_DEADLOCK FALSE
