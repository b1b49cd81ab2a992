SPECIFICATION BoundedSpec
CONSTANTS
    MaxUpgrades = 2
    MaxRestarts = 1
INVARIANT SuccessorAlone
INVARIANT ClonesRemembered
PROPERTY TakesOver
CHECK_DEADLOCK FALSE
