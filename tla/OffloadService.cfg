SPECIFICATION FairSpec
CONSTANTS
    Clients = {c1, c2}
    BufferCount = 1
    BufferSize = 2
    Instances = 2
    MaxPending = 2
    RestartThreshold = 2
    CounterModulus = 4
    MaxBatch = 2
    MaxCalls = 2
    Endless = {}
    Faults = {}
    NULL = NULL
PROPERTIES
    WorkIsOffloaded
    ImplementsService
    ImplementsServiceProgress
    CallReturns
CHECK_DEADLOCK FALSE
