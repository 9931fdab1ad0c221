CONSTANTS
    Names = {"a", "b"}
    Shards <- MCShards
    ShardOrder <- MCShardOrder
    DocOrder <- MCDocOrder
    Draw <- MCDraw
    SeqLen = 2
    MicroBatch = 2
    MicroTokens = 4
    WarmupBatch = 4
    MainBatch = 7
    LateBatch = 7
    WarmupTo = 4
    MainTo = 100
    ChunkSteps = 2
    MaxSteps = 3
    CkptEvery = 1
    CkptEveryTokens = 5
    WorldSizes = {2}
    Fetches = 2
    Faults = 1
SPECIFICATION Spec
INVARIANTS
    AuditFetchTypeOK
    FetchTouchesWhatTheRunDrew
    ReplayReadsWhatTheRunTrained
    EveryTokenAttributed
CHECK_DEADLOCK FALSE
