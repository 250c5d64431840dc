SPECIFICATION RedisSpec
CONSTANTS
    j1 = j1
    j2 = j2
    tag1 = tag1
    Batch = {b1}
    NoBatch = NoBatch
    Tag <- MCTag
    Priority <- MCPriority
    ProcessTimeout = 1
    MaxTries = 1
    MaxTime = 1
    JobId = {j1, j2}
    Consumer = {c1}
    Retrier = {r1}
    RetryAfter = 2
    RetryBatch = 2
    BatchSize = 2
    EnqueueSize = 2
    MaxLatency = 1
INVARIANTS KeysAgree
PROPERTIES RequeueSpacing EveryJobDelivered
