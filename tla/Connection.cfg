SPECIFICATION FairSpec
CONSTANTS
    Sockets = {s1, s2, s3}
    None = None
    WriterBuffer = 1
    MaxAttempts = 2
    MaxSends = 3
    MaxFaults = 2
    MaxStale = 1
INVARIANTS
    TypeOK
    WritesKeepOrder
    NoSocketLeaks
    ClosedHoldsNone
PROPERTIES
    SendsComplete
    Reconnects
    LoopsEnd
CHECK_DEADLOCK FALSE
