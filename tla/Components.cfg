\* The queue as the server uses it, with one consumer; two stages for a pool of
\* one thread, or of two that wait when the first task is added; one client
\* whose headers and bodies are cut up in every way.
CONSTANTS
    dataThread = dataThread
    r1 = r1
    r2 = r2
    Consumers = {dataThread}
    Values = {r1, r2}
    MaxPushes = 5
    Workers = {w1, w2}
    Stages = 2
    TasksPerStage = 2
    MinAlloc = 1
    Settled = TRUE
    MaxSpurious = 2
    HeaderSize = 2
    Capacity = 3
    MaxMessages = 4
    MaxFrame = 3
    MaxDropped = 1
    MaxRays = 2
    Keys = {0, 1, 2, 4}
    Hash <- SmallHash
    InitialBuckets = 1
    BucketSize = 2
    MaxLoad = 2
    MaxBuckets = 4
    RehashRatio = 1
    Elements = {1, 2, 3}
    MaxSize = 4
SPECIFICATION MCSpec
INVARIANTS
    SleepsOnlyWhenEmpty
    QueueIsTheRest
    RunWaits
    TasksInStages
    InStep
    RaysInOrder
    ContainersAreExact
PROPERTIES
    FifoRefinement
    PoolEnds
    MessageChannel
    ThreadFollowsClient
    WriteReturns
    ContainersRefine
