SPECIFICATION Spec
CONSTANTS
    Scenarios <- MCScenarios
    Containers = {"a", "b"}
    MaxRetries = 2
INVARIANTS HookIsWhole DoneByTheLastRun
PROPERTY EveryTaskEnds
CHECK_DEADLOCK FALSE
