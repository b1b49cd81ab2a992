SPECIFICATION DialogSpec
CONSTANTS
    a = a
    b = b
    Deployer <- TwoContainers
    MaxTurns = 2
    MaxCalls = 2
    MaxClicks = 1
SYMMETRY Alike
CONSTRAINT OneOrTheOther
INVARIANT ChainNotNewer
INVARIANT FreshSignatureHeals
CHECK_DEADLOCK FALSE
