SPECIFICATION FairSpec
CONSTANTS
    Keys = {k1}
    Values = {v1, v2}
    NoKey = NoKey
    NoValue = NoValue
    NoTables = NoTables
    Capacity = 1
    Clients = {c1, c2}
    None = None
    MaxServed = 2
    MaxCrashes = 1
    SplitBrain = FALSE
PROPERTIES
    IsReplicatedMap
    ReplicationEnds
    StartupEnds
    BackupDeathNoticed
    NoRequestStarves
CHECK_DEADLOCK FALSE
