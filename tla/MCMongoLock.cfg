SPECIFICATION FairSpec
CONSTANTS
    a = a
    b = b
    Id = {a, b}
    NoKey = NoKey
    Expiration = 2
    RefreshInterval = 1
    PollDelay = 1
    Timeout <- MCTimeout
    TTLDelay = 1
    MaxTime = 4
CHECK_DEADLOCK FALSE
INVARIANTS
    DocumentFollowsCall
PROPERTIES
    TakerNeverExtends
    ImplementsLease
    TasksEnd
