CONSTANTS
    Size <- MCSize
    Bucket <- MCBucket
    Buckets = 2
    ShardDocs = 2
    Sources <- AlignedSources
    Chunk = 2
    Concurrency = 2
    MaxLaunches = 3
SPECIFICATION FairSpec
INVARIANTS
    CorpusTypeOK
    NothingSkippedOver
    DuplicatesBounded
    WindowKeepsOrder
    ManifestIsWhole
PROPERTIES
    BuildFinishes
CHECK_DEADLOCK FALSE
