SPECIFICATION Spec
CONSTANTS
    Request = {r1, r2}
    Identity = {u1, u2}
    NamespaceOf <- GlobalNamespace
    Absent = Absent
    MaxWrites = 1
    MaxVersion = 2
    MaxEra = 1
SYMMETRY Symmetry
INVARIANTS AnswersFresh OwnAnswers CommitsInvalidate
CHECK_DEADLOCK FALSE
