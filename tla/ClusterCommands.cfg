SPECIFICATION Spec
CONSTANTS
    Nodes = {1, 2}
    Keys = {1}
    NoNode = NoNode
    Routings = {0, 1, 2}
    Automatic = {0, 1}
    Ring = {0, 1}
    OwnerOf <- OwnerByRank
    Undialable = {2}
    MaxCommands = 2
INVARIANTS
    TypeOK
    PeersFollowConfig
    NoMoveOntoItself
    OverlapLosesNothing
    LastMigrationPlaces
PROPERTY
    DeletedDataHandedOver
CHECK_DEADLOCK FALSE
