CONSTANTS
    HaltCount = 2
    HaltWindow = 3
    SkipStepsOnSpike = 2
    StartStep = 1
    WarmupBatch = 1
    MainBatch = 4
    LateBatch = 4
    WarmupTo = 4
    MainTo = 100
    MicroTokens = 2
    Auditable = TRUE
    World = 1
    TotalTokens = 16
    HashEvery = 2
    RewarmTokens = 0
    RewarmOnResume = FALSE
    ResetOptimizer = FALSE
    Fork = FALSE
    ForkStep = 0
    ForkTokens = 0
    ForkPos = 0
    Surfaces <- SpikySurfaces
    CkptEverySteps = 3
    CkptEveryTokens = 1
    MaxLaunches = 3
SPECIFICATION FairSpec
INVARIANTS
    TypeOK
    ResumeIsExact
    JournalAgrees
    SideLinksHangOffTheChain
    DepartureIsSaved
    HaltIsFinal
    ConversionResumesExactly
PROPERTIES
    SavedFilesAreStable
    ImplementsUninterrupted
    RunSettles
CHECK_DEADLOCK FALSE
