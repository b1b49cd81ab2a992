\* Both ways of a task, with and without a command on another host.
SPECIFICATION FairSpec
CONSTANTS
    NSteps = 2
    EndpointStep = 1
    ReplaceStep = 2
    MaxOthers = 1
    MaxRetries = 1
    MaxLosses = 1
    MaxBehind = 1
    NestedChoices <- MCNested
    Ways <- MCWays
    Moves = {TRUE, FALSE}
    FirstIndexes <- MCCounters
INVARIANTS
    VerdictIsTheTasks
    RecordHasItsEnds
PROPERTIES
    NothingMissed
    VerdictArrives
CHECK_DEADLOCK FALSE
