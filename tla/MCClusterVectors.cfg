CONSTANTS
    Files = {1, 2, 3}
    Contents = {"a", "b"}
    Coupled = {"a", "b"}
    Dims <- MCDims
    Cap = 4
    BatchSize = 2
    Concurrency = 3
    Modes = {"incremental", "refresh"}
    MaxRuns = 2
    MaxEdits = 1
    MaxFaults = 1
SPECIFICATION EmbeddingSpec
INVARIANT ClusterVectorCurrent
CHECK_DEADLOCK FALSE
