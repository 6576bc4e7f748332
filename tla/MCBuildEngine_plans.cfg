SPECIFICATION FairEngineSpec
CONSTANTS
    a = a
    b = b
    c = c
    d = d
    Vertices = {a, b, c, d}
    Graphs <- Plans
    BatchGraphs <- NoBatching
    Concurrency = 2
INVARIANTS
    RunsOnlyOnPassedDependencies
    DependencyFingerprintsSet
    FailurePropagated
    ReportedVerdictStands
PROPERTIES
    EngineImplementsContract
    BuildEnds
