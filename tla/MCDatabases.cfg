SPECIFICATION MCSpec
CHECK_DEADLOCK FALSE
CONSTANTS
    Client = {c1, c2}
    Name <- MCNames
    Amount = {0, 1, 2, 3}
    Calls <- MCCalls
    BatchCalls <- MCBatchCalls
    MaxBatch = 3
    Item = {item1, item2}
    MaxId = 2
    Channel = {channel1, channel2}
    Observer = {observer1, observer2, observer3}
    ChannelOf <- MCChannelOf
    MaxMessages = 2
    MaxCommands = 2
    MaxPosts = 3
    channel1 = channel1
    channel2 = channel2
    observer1 = observer1
    observer2 = observer2
    observer3 = observer3
    Id = {1, 2, 3}
    BulkSize = 2
    UniqueField = "key"
    ValueField = "w"
    Mapping <- MCMapping
    Wanted <- MCWanted
    Existing <- MCExisting
    Entities <- MCEntities
    Patches <- MCPatches
    Queries <- MCQueries
    StepQueries <- MCStepQueries
    BadQueries <- MCBadQueries
    Options <- MCOptions
SYMMETRY MCSymmetry
INVARIANTS ReadyIsUnique BulkAccounted CallsAsPromised RepliesFindPromises CallsAreKept StreamIsKept MessagesArrive
