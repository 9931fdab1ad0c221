CONSTANTS
    Names = {"a", "b"}
    Shards <- MCShards
    ShardOrder <- MCShardOrder
    DocOrder <- MCDocOrder
    Draw <- MCDraw
    SeqLen = 2
    MicroBatch = 2
    MicroTokens = 4
    WarmupBatch = 7
    MainBatch = 24
    LateBatch = 24
    WarmupTo = 9
    MainTo = 100
    WorldSizes = {1, 2, 3}
    MaxSteps = 3
SPECIFICATION Spec
INVARIANTS
    TrainedIsTheStream
PROPERTIES
    ImplementsGlobalStream
CHECK_DEADLOCK FALSE
