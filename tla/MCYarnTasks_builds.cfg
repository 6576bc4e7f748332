SPECIFICATION Spec
CONSTANTS
    a = a
    b = b
    c = c
    NoFile = NoFile
    Units = {a, b, c}
    Repos <- MCRepos
    Sources <- MCSources
    FirstSource <- MCFirst
    Bad <- MCBad
    Specs <- MCSpecs
    Outcomes = {"passed", "failed"}
    Assets = {"zip"}
    MaxBuilds = 2
CHECK_DEADLOCK FALSE
INVARIANTS
    OneCompiler
    DistMatchesSources
    TestsPassedOnThisCode
    PublishedIsMade
    PackIsComplete
    PackIsClosed
PROPERTIES
    DistStaysPut
    BuildEnds
