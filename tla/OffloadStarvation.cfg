SPECIFICATION FairSpec
CONSTANTS
    Clients = {c1, c2}
    BufferCount = 2
    BufferSize = 1
    Instances = 1
    MaxPending = 2
    RestartThreshold = 2
    CounterModulus = 4
    MaxBatch = 1
    MaxCalls = 1
    Endless = {c1}
    Faults = {}
    NULL = NULL
PROPERTIES
    EveryBufferServed
CHECK_DEADLOCK FALSE
