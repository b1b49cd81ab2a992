SPECIFICATION MCSpec
CONSTANTS
    r1 = r1
    r2 = r2
    r3 = r3
    deployer = deployer
    application = application
    Request  <- MCRequest
    Hostname <- MCHostname
    Hub = deployer
    Nobody = Nobody
    Kinds = {"configuration", "self_upgrade", "restart"}
    MaxReboots = 1
    Name = {"memory", "cert", "port", "vm_id", "password"}
    Given <- MCGiven
    Blank <- MCBlank
    Transient = {"vm_id"}
    Upload = {"cert"}
    Computed = {"vm_id"}
    Entry = {"password"}
    Provided = {}
    Defined = {"memory", "cert"}
    Projected = {"port"}
INVARIANT OneAtATime
PROPERTY KeepsWhatWasGiven
PROPERTY NeverWronglyRejected
PROPERTY HostnameIsFreed
CHECK_DEADLOCK FALSE
