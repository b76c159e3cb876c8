SPECIFICATION Spec
CONSTANTS
    s1 = s1
    s2 = s2
    Stream = {s1, s2}
    Limit = 1
    TTL = 3
    RenewInterval = 1
    RetryInterval = 1
    SafetyMargin = 1
    MaxOp = 2
    MaxFaults = 1
    MaxFaulty = 1
SYMMETRY Symmetry
INVARIANTS EmittersWithinCap
PROPERTIES LeasesSpec
CHECK_DEADLOCK FALSE
