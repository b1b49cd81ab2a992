SPECIFICATION Spec
CONSTANTS
    Allowed <- Disturbed
    MaxRestarts = 2
    MaxReboots = 2
INVARIANTS LiveInstance ServesWithItsData OneServes BootsLikeBefore
PROPERTY KeepsPromise
CHECK_DEADLOCK FALSE
