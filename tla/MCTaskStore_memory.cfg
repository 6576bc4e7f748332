SPECIFICATION Spec
CONSTANTS
    c1 = c1
    c2 = c2
    k1 = k1
    k2 = k2
    x = x
    y = y
    Clients = {c1, c2}
    Keys = {k1, k2}
    Contents = {x, y}
    WithPublic = {y}
    Outcomes <- FlakyTasks
    InPlace = FALSE
    Cleaning = FALSE
    ExistsFails = FALSE
    MaxWrites = 2
SYMMETRY Symmetry
INVARIANTS
    VerdictIsBacked
    CacheHitRestoresOutputs
    RerunsOnOwnOutputs
