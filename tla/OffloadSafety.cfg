SPECIFICATION Spec
CONSTANTS
    Clients = {c1, c2, c3}
    BufferCount = 2
    BufferSize = 2
    Instances = 2
    MaxPending = 2
    RestartThreshold = 1
    CounterModulus = 4
    MaxBatch = 2
    MaxCalls = 1
    Endless = {}
    Faults = {}
    NULL = NULL
SYMMETRY Symmetry
INVARIANTS
    TypeOK
    BufferExclusive
    FreeBufferClean
    NoLostFreeBuffer
    InFlightBounded
    ChosenBufferHasData
    RequestInOnePlace
    OffloadInOrder
PROPERTY SlotNotOverwritten
CHECK_DEADLOCK FALSE
