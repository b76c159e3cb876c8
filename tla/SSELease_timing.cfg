SPECIFICATION FairSpec
CONSTANTS
    s1 = s1
    Stream = {s1}
    Limit = 1
    TTL = 9
    RenewInterval = 3
    RetryInterval = 1
    SafetyMargin = 1
    MaxOp = 6
    MaxFaults = 2
    MaxFaulty = 1
INVARIANTS NothingLeaks
PROPERTIES EmitOnlyWhileOwning SlotsReclaimed CancelledEnds
CHECK_DEADLOCK FALSE
