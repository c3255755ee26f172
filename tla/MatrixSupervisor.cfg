SPECIFICATION FairSpec
CONSTANTS
    shardS1 = shardS1
    shardS2 = shardS2
    shardFull = shardFull
    shardNo = shardNo
    Shards = {shardS1, shardS2, shardFull, shardNo}
    Plan <- MCPlan
    Batches <- MCBatches
    Config <- MCConfig
    Controls <- MCControls
    WorkerCount = 2
    Cap = 6
    MaxAttempts = 2
    MaxRestarts = 2
    Matrices = {m1, m2}
    NoFile = NoFile
    MaxStops = 2
INVARIANTS
    TypeOK
    OneWorkerPerShard
    FullFindsRoute
PROPERTIES
    CompletedStays
    MonitorEnds
CHECK_DEADLOCK FALSE
