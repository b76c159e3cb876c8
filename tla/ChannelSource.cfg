SPECIFICATION FairSpec
CONSTANTS
    Group = {g1, g2}
    HasVerify = TRUE
    Capacity = 2
    MaxEvents = 3
    MaxFaults = 2
INVARIANTS NoUnknownMembership ListensToAll
PROPERTIES CloseCompletes StreamSpec
CHECK_DEADLOCK FALSE
