SPECIFICATION FairSpec
CONSTANTS
    Clients = {c1}
    BufferCount = 1
    BufferSize = 2
    Instances = 1
    MaxPending = 2
    RestartThreshold = 2
    CounterModulus = 4
    MaxBatch = 2
    MaxCalls = 1
    Endless = {}
    Faults = {"submit"}
    NULL = NULL
PROPERTIES
    ReleaseReturns
CHECK_DEADLOCK FALSE
