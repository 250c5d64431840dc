SPECIFICATION Spec
CONSTANTS
    a = a
    b = b
    Id = {a, b}
    NoId = NoId
    LockDuration = 3
    RetryDelay = 1
    AcquireTimeout = 2
    Skew <- MCSkew
    MaxTime = 5
CHECK_DEADLOCK FALSE
PROPERTIES
    GrantedIsOwned
