SPECIFICATION FairSpec
CONSTANTS
    Limit = 1
    Size = 1
    Concurrency = 2
    MaxItems = 3
CHECK_DEADLOCK FALSE
INVARIANTS ConsumersAreServed BackPressure ErrorReaches
PROPERTIES AllEnd
