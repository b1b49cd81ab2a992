SPECIFICATION Spec
CONSTANTS
    skip = skip
    props = props
    create = create
    addon = addon
    boot = boot
    remote1 = remote1
    remote2 = remote2
    swap = swap
    nored = "nored"
    NoHost = "nohost"
    Command <- MCCommand
    Kind <- MCKind
    Host <- MCHost
    Gives <- MCGives
    Planned <- AllCommands
    Reloaded <- AppCommands
    Replaces = TRUE
    MaxAttempts = 3
INVARIANTS VerdictIsEarned ProgressKept
PROPERTIES KeepsPromise RunEnds
CHECK_DEADLOCK FALSE
