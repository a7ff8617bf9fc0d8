SPECIFICATION Spec
CONSTANTS
    Nodes = {1, 2, 3}
    Keys = {1, 2}
    KeyHash <- KeyHashOf
    PointHash <- PointHashOf
    MaxPoints = 4
    Bounds = {1, 2}
    MaxWrites = 2
    MaxWeight = 2
    MaxVNodes = 2
    DefaultVNodes = 1
    Weighted = {2}
INVARIANT RouterStaysUp
CHECK_DEADLOCK FALSE
