SPECIFICATION Spec
CONSTANTS
    t1 = t1
    t2 = t2
    t3 = t3
    ghost = ghost
    Vertices = {t1, t2, t3, ghost}
    Names <- MCNames
    LongerNames <- MCLonger
    DotNames <- MCDot
    Catalogs <- MCCatalogs
    Selectors <- MCSelectors
CHECK_DEADLOCK FALSE
INVARIANTS
    ListsAgree
    CyclesAreFound
    PlanIsScope
    InputsComeFirst
