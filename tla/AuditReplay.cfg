CONSTANTS
    HaltCount = 2
    HaltWindow = 3
    SkipStepsOnSpike = 2
    StartStep = 1
    WarmupBatch = 6
    MainBatch = 12
    LateBatch = 7
    WarmupTo = 6
    MainTo = 42
    MicroTokens = 1
    Auditable = TRUE
    World = 6
    TotalTokens = 49
    HashEvery = 2
    RewarmTokens = 12
    RewarmOnResume = FALSE
    ResetOptimizer = FALSE
    Fork = FALSE
    ForkStep = 0
    ForkTokens = 0
    ForkPos = 0
    Surfaces <- AuditSurfaces
    ForkKinds = {"rewarm"}
    MaxForks = 1
    DpShard = 2
    CkptEverySteps = 2
    SpillVerify = TRUE
    SpillChoices <- AllOrNothing
    MaxAudits = 2
    MaxFaults = 1
SPECIFICATION Spec
INVARIANTS
    AuditTypeOK
    HonestIntervalMatches
    MatchIsEarned
    MatchedHandoffIsTheCheckpoint
    HandoffVerifies
CHECK_DEADLOCK FALSE
