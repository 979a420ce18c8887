SPECIFICATION Spec
CONSTANTS
    Clients = {c1, c2}
    BufferCount = 1
    BufferSize = 2
    Instances = 2
    MaxPending = 2
    RestartThreshold = 1
    CounterModulus = 4
    MaxBatch = 3
    MaxCalls = 1
    Endless = {}
    Faults = {"alloc", "submit", "retry", "response", "spurious"}
    NULL = NULL
INVARIANTS
    IInv
    RequestInOnePlace
CHECK_DEADLOCK FALSE
