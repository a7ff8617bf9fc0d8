SPECIFICATION Spec
CONSTANTS
    Calls <- WriteReadCalls
    Ids <- WriteReadIds
    IdOf <- WriteReadIdOf
    OpOf <- WriteReadOpOf
    KeyOf <- WriteReadKeyOf
    MaxSends <- PutTwice
    MaxCrashes = 0
    p = p
    d = d
    g = g
    p2 = p2
    rp = rp
    rd = rd
    rg = rg
    ka = ka
    s = s
    Keys = {ka}
    Shards = {s}
    ShardOf <- ShardOfKeys
    Undialed = {}
    NoCall = NoCall
    Missing = Missing
    Ack = Ack
    Nil = Nil
    Timeout = Timeout
CHECK_DEADLOCK FALSE
INVARIANT AckedIsApplied
