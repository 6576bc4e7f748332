SPECIFICATION FairSpec
CONSTANTS
    a = a
    b = b
    c = c
    d = d
    Vertices = {a, b, c, d}
    Graphs <- SomeGraphs
    BatchGraphs <- SomeBatching
    Concurrency = 2
INVARIANTS
    CountsExact
    ScheduledOnce
    DependenciesSettleFirst
    FailureStopsDependents
    OutcomeMatchesWork
PROPERTIES
    FirstErrorKept
    ExecutionSettles
