CONSTANTS
    HaltCount = 2
    HaltWindow = 3
    SkipStepsOnSpike = 1
    StartStep = 0
    WarmupBatch = 4
    MainBatch = 4
    LateBatch = 8
    WarmupTo = 4
    MainTo = 8
    MicroTokens = 1
    Auditable = TRUE
    World = 4
    TotalTokens = 24
    HashEvery = 2
    RewarmTokens = 0
    RewarmOnResume = FALSE
    ResetOptimizer = FALSE
    Fork = FALSE
    ForkStep = 0
    ForkTokens = 0
    ForkPos = 0
    Shards = 2
    Views <- Sights
    LossSurfaces <- Losses
    CkptEverySteps = 3
    CkptEveryTokens = 1
    MaxSignals = 1
    MaxDeaths = 1
SPECIFICATION FairSpec
INVARIANTS
    RanksStayInStep
    SealedMeansWhole
PROPERTIES
    EveryRankLeaves
CHECK_DEADLOCK FALSE
