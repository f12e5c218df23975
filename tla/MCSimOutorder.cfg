SPECIFICATION Spec
CONSTANTS
    Parts = {"pipeline", "wrong path", "trace", "memory", "prediction", "events"}
    Target = "pisa"
    bugcompat_mode = FALSE
    STORE_HASH_SIZE = 2
    Values = {1, 2}
    Sizes = {1, 2}
    Valid = {0, 2, 4}
    MaxAddr = 5
    MaxWrites = 5
    Far = 99
    Symbols <- TraceSymbols
    Range1 <- TraceRange
    TextAddrs = {2, 4}
    IfqSize = 2
    RuuSize = 2
    MaxSeq = 4
    MaxCycle = 4
    MaxEvents = 0
    Acts <- QueuedActs
    MaxTime = 2
    MaxId = 3
INVARIANTS PipelineSound OperandsExact WrongPathExact TraceExact LatenciesSound PredictorRecovers QueueConserved
PROPERTIES NoEarlyData NothingDueLeft
CHECK_DEADLOCK FALSE
