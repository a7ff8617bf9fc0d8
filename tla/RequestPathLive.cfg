SPECIFICATION FairSpec
CONSTANTS
    Calls <- UndialedCalls
    Ids <- UndialedIds
    IdOf <- UndialedIdOf
    OpOf <- UndialedOpOf
    KeyOf <- UndialedKeyOf
    MaxSends <- GetTwice
    MaxCrashes = 1
    p = p
    d = d
    g = g
    p2 = p2
    rp = rp
    rd = rd
    rg = rg
    ka = ka
    s = s
    Keys = {ka}
    Shards = {s}
    ShardOf <- ShardOfKeys
    Undialed = {s}
    NoCall = NoCall
    Missing = Missing
    Ack = Ack
    Nil = Nil
    Timeout = Timeout
CHECK_DEADLOCK FALSE
INVARIANTS
    GetReadsDuringCall
    RouterStaysUp
    TableKeepsOnlyTimeouts
PROPERTIES
    EveryCallAnswered
    RetryingStops
    KeepsLivePromise
