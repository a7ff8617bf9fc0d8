SPECIFICATION FairSpec
CONSTANTS
    Nodes = {1, 2}
    Keys = {0}
    KeyHash <- AnyHash
    PointHash <- AnyPoint
    MaxPoints = 1
    Cluster <- TwoNodes
    Values = {a}
    Missing = Missing
    Nil = Nil
    NoNode = NoNode
    Bounds = {0, 1}
    MaxSends <- FirstRetried
    MaxWrites = 2
INVARIANTS
    TypeOK
    ReadsNoNil
    AnswersWhatWas
    FindsWhatStays
PROPERTY
    CallEnds
CHECK_DEADLOCK FALSE
