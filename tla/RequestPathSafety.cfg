SPECIFICATION Spec
CONSTANTS
    Calls <- MixCalls
    Ids <- MixIds
    IdOf <- MixIdOf
    OpOf <- MixOpOf
    KeyOf <- MixKeyOf
    MaxSends <- AllOnce
    MaxCrashes = 1
    p = p
    d = d
    g = g
    p2 = p2
    rp = rp
    rd = rd
    rg = rg
    ka = ka
    s = s
    Keys = {ka}
    Shards = {s}
    ShardOf <- ShardOfKeys
    Undialed = {}
    NoCall = NoCall
    Missing = Missing
    Ack = Ack
    Nil = Nil
    Timeout = Timeout
CHECK_DEADLOCK FALSE
SYMMETRY MixSymmetry
INVARIANTS
    TypeOK
    AtMostOnce
    AckedIsClaimed
PROPERTY
    KeepsPromise
