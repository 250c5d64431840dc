SPECIFICATION MCSpec
CHECK_DEADLOCK FALSE
CONSTANTS
    Key = {1, 2, 3}
    Copy = {"a", "b"}
    NoEntry = NoEntry
    MaxLength = 4
    MaxMany = 2
    i1 = i1
    i2 = i2
    i3 = i3
    i4 = i4
    Value = {v1, v2}
    MaxSize = 3
    MaxDepth = 2
    MaxAtOnce = 2
    Default = Default
    Undefined_ = Undefined
INVARIANTS SearchesFind SubscribersAgree WaiterHasReadAll ChainsAreSound
PROPERTIES RemovesExactly PassesShrink
