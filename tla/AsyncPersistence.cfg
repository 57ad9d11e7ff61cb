SPECIFICATION OptimizedFairSpec
CONSTANTS
    t1 = t1
    t2 = t2
    NoItem = NoItem
    Producers <- EngineThreads
    MaxItems = 3
    Capacity = 2
    BATCH_SIZE = 2
    MaxRetries = 2
    MaxStarts = 2
    Clients = {"direct", "engine"}
    Main = t2
    TRADE_BATCH_SIZE = 2
    MaxTrades = 2
    MaxBatches = 1
INVARIANTS
    RecordsReachLog
    TradesHandedOver
PROPERTIES
    QueueMoves
CHECK_DEADLOCK FALSE
