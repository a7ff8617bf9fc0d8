SPECIFICATION Spec
CONSTANTS
    Nodes = {1, 2, 3}
    Keys = {2, 3}
    OwnerOf <- OwnerByRank
    MaxCommands = 2
    MaxWrites = 1
    Missing = Missing
    Old = Old
    New = New
    NoNode = NoNode
INVARIANT WritesSurvive
CHECK_DEADLOCK FALSE
