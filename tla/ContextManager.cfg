SPECIFICATION FairSpec
CONSTANTS
    Instances = 2
    MaxAcquires = 2
    Reacquires = FALSE
    Faults = {}
PROPERTY
    BufferManagerTerminates
CHECK_DEADLOCK FALSE
