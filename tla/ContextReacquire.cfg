SPECIFICATION FairSpec
CONSTANTS
    Instances = 2
    MaxAcquires = 2
    Reacquires = TRUE
    Faults = {}
PROPERTY
    AcquiresInactiveOnly
CHECK_DEADLOCK FALSE
