SPECIFICATION Spec
CONSTANTS
    c = c
    Child = {c}
    Parent <- MCParent
    None = None
    Absent = Absent
    Orphan = Orphan
    Other = Other
    Requests <- MCRequests
INVARIANTS AllOrNothing KeptAsAnswered ErrorsAreTheirOwn DurableIsMarked RewritesOwnRows 
CHECK_DEADLOCK FALSE
