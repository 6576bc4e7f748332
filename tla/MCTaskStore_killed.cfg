SPECIFICATION Spec
CONSTANTS
    c1 = c1
    c2 = c2
    k1 = k1
    k2 = k2
    x = x
    y = y
    Clients = {c1, c2}
    Keys = {k1, k2}
    Contents = {x, y}
    WithPublic = {x}
    Outcomes <- TwoTasks
    InPlace = TRUE
    Cleaning = FALSE
    ExistsFails = FALSE
    MaxWrites = 1
SYMMETRY Symmetry
INVARIANTS
    CacheEntriesVerified
