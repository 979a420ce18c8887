SPECIFICATION FairSpec
CONSTANTS
    Instances = 2
    MaxAcquires = 2
    Reacquires = FALSE
    Faults = {}
PROPERTY
    ReleaseEnds
CHECK_DEADLOCK FALSE
