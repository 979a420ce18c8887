SPECIFICATION FairSpec
CONSTANTS
    Instances = 2
    MaxAcquires = 2
    Reacquires = FALSE
    Faults = {"start", "create"}
INVARIANTS
    ContextTypeOK
    
    ActiveMeansStarted
    RunningHasManager
PROPERTIES
    
    FirstContextServes
CHECK_DEADLOCK FALSE
