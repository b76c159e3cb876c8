SPECIFICATION Spec
CONSTANTS
    Request = {r1, r2, r3}
    Identity = {u1}
    NamespaceOf <- GlobalNamespace
    Absent = Absent
    MaxWrites = 1
    MaxVersion = 2
    MaxEra = 0
SYMMETRY Symmetry
INVARIANTS NothingStale
CHECK_DEADLOCK FALSE
