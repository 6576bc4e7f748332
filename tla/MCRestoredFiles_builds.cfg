SPECIFICATION Spec
CONSTANTS
    Ignored <- MCIgnored
    Inputs <- MCInputs
    Output <- OUT
    Public <- PUB
    Sources <- MCSources
    Leftovers <- MCLeftovers
    Products <- MCProducts
    MaxBuilds = 2
    MaxEdits = 2
CHECK_DEADLOCK FALSE
INVARIANTS
    CheckoutsAgree
    ContentsAreSeen
    RestoredIsRecorded
    OutputsAreMade
    HitsAreRestored
