SPECIFICATION FairSpec
CONSTANTS
    Id = {i1, i2}
    Task = {t1, t2, t3}
    None = None
    Cap = 2
INVARIANTS RegistrySound HeldWithinCap ClosedMeansTornDown
PROPERTIES NoLateAck CompleteAfterCleanup ClosingEnds EndIsSignalled
CHECK_DEADLOCK FALSE
