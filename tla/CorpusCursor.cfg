CONSTANTS
    Size <- MCSize
    Bucket <- MCBucket
    Buckets = 2
    ShardDocs = 2
    Sources <- UnevenSources
    Chunk = 2
    Concurrency = 2
    MaxLaunches = 3
SPECIFICATION Spec
INVARIANTS
    NothingSkippedOver
CHECK_DEADLOCK FALSE
