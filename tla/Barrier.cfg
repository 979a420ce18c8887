SPECIFICATION FairSpec
CONSTANTS
    BufferSize = 2
    BatchSize = 2
    Instances = 1
    MaxPending = 2
    RestartThreshold = 1
    MaxRetry = 2
    WorkSizes = {1, 3}
    MaxCalls = 2
    MaxFailures = 1
    MaxRestarts = 1
    Faults = {"alloc", "submit", "retry", "response"}
    NULL = NULL
INVARIANTS
    BarrierTypeOK
    BarrierCovers
    CursorsMeet
    RequestAlive
    
PROPERTIES
    SlotCollected
    BarrierReturns
CHECK_DEADLOCK FALSE
