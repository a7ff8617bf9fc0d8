SPECIFICATION Spec
CONSTANTS
    Timeout = 2
    ReadTimeout = 5
    TTL = 3
    Period = 2
    Delay = 1
    MaxRequests = 3
    MaxRounds = 3
    MaxTime = 8
CHECK_DEADLOCK FALSE
INVARIANTS
    TypeOK
    ForgottenInTime
    GivesUpWhenHeldUp
PROPERTY
    RepeatsAreOld
