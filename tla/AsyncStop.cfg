SPECIFICATION FairSpec
CONSTANTS
    t1 = t1
    t2 = t2
    NoItem = NoItem
    Producers <- EngineThreads
    MaxItems = 3
    Capacity = 2
    BATCH_SIZE = 2
    MaxRetries = 2
    MaxStarts = 2
PROPERTIES
    StopReturns
CHECK_DEADLOCK FALSE
