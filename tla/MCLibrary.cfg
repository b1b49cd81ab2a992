SPECIFICATION LibrarySpec
CONSTANTS
    Initial <- MCInitial
    Versions <- MCVersions
    Written = {"web"}
    Tasks = {"installation", "reconfigure"}
    Requests <- MCRequests
    HasHub = TRUE
    Budgets <- MCBudgets
INVARIANTS CommandsInStageOrder VariablesHaveASource
PROPERTY CatchesUp
CHECK_DEADLOCK FALSE
