SPECIFICATION FairMongoSpec
CHECK_DEADLOCK FALSE
CONSTANTS
    j1 = j1
    j2 = j2
    tag1 = tag1
    JobId = {j1, j2}
    Consumer = {c1, c2}
    Batch = {b1}
    NoBatch = NoBatch
    Tag <- MCTag
    Priority <- MCPriority
    ProcessTimeout = 1
    MaxTries = 1
    BatchSize = 1
    MaxLatency = 0
    MaxTime = 1
    Retrier = {r1}
    RetryAfter = 2
    RetryBatch = 2
    EnqueueSize = 2
PROPERTIES EveryJobTried
