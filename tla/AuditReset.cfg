CONSTANTS
    HaltCount = 2
    HaltWindow = 3
    SkipStepsOnSpike = 2
    StartStep = 1
    WarmupBatch = 6
    MainBatch = 12
    LateBatch = 12
    WarmupTo = 6
    MainTo = 100
    MicroTokens = 1
    Auditable = TRUE
    World = 6
    TotalTokens = 42
    HashEvery = 2
    RewarmTokens = 12
    RewarmOnResume = FALSE
    ResetOptimizer = FALSE
    Fork = FALSE
    ForkStep = 0
    ForkTokens = 0
    ForkPos = 0
    Surfaces <- AuditSurfaces
    ForkKinds = {"reset"}
    MaxForks = 1
    DpShard = 2
    CkptEverySteps = 2
    SpillVerify = TRUE
    SpillChoices <- AllOrNothing
    MaxAudits = 2
    MaxFaults = 1
SPECIFICATION Spec
INVARIANTS
    LaterIntervalsNeedNoFlag
CHECK_DEADLOCK FALSE
