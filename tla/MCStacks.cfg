SPECIFICATION CommandLineSpec
CONSTANTS
    Ids = {"t_default", "t_other"}
    Default = "t_default"
    Vars = {"password", "token"}
    Types <- SecretsOnlyOrOptional
    Pages = {"p1"}
    Clients = {"cli"}
    Files <- TwoFiles
    Defs <- Parameters
    Pinned = {"application_id"}
    Compatible <- Addon
    Available = {"hostname"}
    Containers = {"db", "app"}
    HostOf <- HostOfEach
    BoundTo <- OneStack
    Places = {"dbLxc", "dbCompose", "dbToken", "appStart", "appToken"}
    Place <- FivePlaces
    MaxValues = 2
    MaxMoves = 3
CONSTRAINT Narrowed
INVARIANTS StoredAsWritten RestoredFits
CHECK_DEADLOCK FALSE
