SPECIFICATION FairSpec
CONSTANTS
    Client = {c1, c2}
    Sizes = {1, 4}
    Ratios = {75}
    Modes = {95, 100}
    Threshold = 2
    EncryptRatio = 25
    DecryptRatio = 12
    MultiplyRatio = 18
    ChunkSizes = {2}
    BatchSize = 2
    ThreadCounts = {0, 2}
    MaxSettings = 1
    MaxCalls = 2
    MaxContexts = 2
    Faults = {"qat", "ipp", "acquire"}
INVARIANTS
    HybridTypeOK
    ResultsInPlace
    NothingLeftRunning
    OwnChoiceHolds
PROPERTIES
    
    ModExpReturns
CHECK_DEADLOCK FALSE
