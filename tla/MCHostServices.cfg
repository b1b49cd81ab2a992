SPECIFICATION FairSpec
CONSTANTS
    Services = {"cleanup", "rotation"}
    Hosts = {"h1"}
    HostOf <- OneHost
    Graces = {0, 1, 2}
    DefaultGrace = 2
    RollbackWithin = 1
    MaxSettings = 2
    MaxReplaced = 1
    MaxRestarts = 1
INVARIANT SettingHolds
INVARIANT GraceCoversRollback
PROPERTY PastGraceGoes
CHECK_DEADLOCK FALSE
