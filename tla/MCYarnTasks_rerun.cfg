SPECIFICATION Spec
CONSTANTS
    a = a
    b = b
    c = c
    NoFile = NoFile
    Units = {a, b, c}
    Repos <- MCRerunRepos
    Sources <- MCSources
    FirstSource <- MCFirst
    Bad <- MCBad
    Specs <- MCSpecs
    Outcomes = {"passed", "failed", "broken"}
    Assets = {"zip"}
    MaxBuilds = 2
CHECK_DEADLOCK FALSE
INVARIANT RerunsWhatDidNotPass
