SPECIFICATION Spec
CONSTANTS
    a = a
    b = b
    p = p
    Row = {p}
    Owner = {a, b}
    Writer = {w1, w2}
    Subscriber = {s}
    None = None
    Falsy = {}
    Modes <- MCModes
    Asked <- MCAsked
    MaxChanges = 2
    MaxFaults = 1
SYMMETRY MCSymmetry
INVARIANTS NothingMissed
PROPERTIES AnnouncementsSpec WithinFilters SuccessIsKept
CHECK_DEADLOCK FALSE
