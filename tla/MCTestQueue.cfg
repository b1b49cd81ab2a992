SPECIFICATION FairSpec
CONSTANTS
    NScenarios = 4
    Deps <- MCDeps
    Worker = {w1, w2}
    Filters <- MCFilters
    MaxCrashes = 1
    MaxRestarts = 1
INVARIANTS
    ExclusiveRun
    DepsStayCompleted
    FailuresSpreadExactly
PROPERTY EverythingElseSettles
CHECK_DEADLOCK FALSE
