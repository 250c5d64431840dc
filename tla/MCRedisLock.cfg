SPECIFICATION FairSpec
CONSTANTS
    a = a
    b = b
    Id = {a, b}
    NoId = NoId
    LockDuration = 2
    RetryDelay = 1
    AcquireTimeout = 1
    Skew <- MCSkew
    MaxTime = 3
CHECK_DEADLOCK FALSE
INVARIANTS
    HoldersAreBacked
PROPERTIES
    NoExtensionAfterRelease
    ImplementsLease
    CallsReturn
