SPECIFICATION FairSpec
CONSTANTS
    QueueCap = 2
    UiCap = 1
    Batch = 1
    PerFrame = 1
    MaxInputs = 3
    MaxFailures = 1
CHECK_DEADLOCK FALSE
INVARIANTS
    TypeOK
    QueuesLoseOldestOnly
PROPERTIES
    ImplementsStore
    CatchesUp
