SPECIFICATION Spec
CONSTANTS
    Null = Null
    Absent = Absent
    None = None
    Blank = Blank
    Pk = {1, 2, 3}
    Value = {1, 2}
    Sizes <- MCSizes
    PageSize = 1
    MaxPageSize = 2
    MaxChanges = 0
INVARIANT WindowsAreOrdered
CHECK_DEADLOCK FALSE
