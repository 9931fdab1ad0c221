CONSTANTS
    HaltCount = 2
    HaltWindow = 3
    SkipStepsOnSpike = 2
    StartStep = 1
    WarmupBatch = 4
    MainBatch = 8
    LateBatch = 5
    WarmupTo = 14
    MainTo = 26
    MicroTokens = 2
    Auditable = TRUE
    World = 2
    TotalTokens = 40
    HashEvery = 3
    RewarmTokens = 6
    RewarmOnResume = TRUE
    ResetOptimizer = FALSE
    Fork = TRUE
    ForkStep = 3
    ForkTokens = 10
    ForkPos = 5
    Surfaces <- ForkSurfaces
    CkptEverySteps = 0
    CkptEveryTokens = 8
    MaxLaunches = 3
SPECIFICATION FairSpec
INVARIANTS
    ResumeIsExact
PROPERTIES
    SigtermIsServed
    RunSettles
CHECK_DEADLOCK FALSE
