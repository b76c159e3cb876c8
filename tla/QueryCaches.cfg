SPECIFICATION Spec
CONSTANTS
    q1 = q1
    q2 = q2
    Meta = Meta
    Variable = Variable
    Thread = {t1, t2}
    Signature = {x, y}
    Everything = Everything
    Query = {q1, q2}
    TokensOf <- MCTokensOf
    Address = {a1, a2}
    None = None
    MaxSchemas = 2
    MaxBuilds = 2
    MaxSettings = 1
    MaxRequests = 3
    SchemaBound = 1
    EntryBound = 2
    TokenBudget = 2
    EntryShare = 1
SYMMETRY MCSymmetry
INVARIANTS LimitsAreExact PruningIsSound OwnSchema OneBuild OwnVerdict WithinBounds
CHECK_DEADLOCK FALSE
