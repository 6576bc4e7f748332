SPECIFICATION Spec
CONSTANTS
    r1 = r1
    r2 = r2
    t1 = t1
    t2 = t2
    t3 = t3
    Runs = {r1, r2}
    Commands <- MCCommands
    LabelsOf <- MCLabels
    Program = t1
    Retried = {t3}
    Needs <- MCNeeds
    TestTasks = {t3}
    AssetTasks = {t2}
    Moods <- MCMoods
    Configs = {{".build-raptor.json"}}
    MaxTogether = 1
    Killable = {r1}
    Ledger = TRUE
    Limit = 6
    Torn = Torn
CHECK_DEADLOCK FALSE
INVARIANTS
    StepsTellTheRun
    ExitCodeTruthful
    SummaryAddsUp
    LedgerKeepsRuns
    OutputsAreThisBuilds
PROPERTY RunsEnd
