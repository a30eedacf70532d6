\* One credit, nothing fails.
SPECIFICATION FairSpec
CONSTANTS
    Instance = {i1}
    Free = Free
    Dead = Dead
    MaxTick = 1
    MaxFault = 0
    MaxRestart = 0
    MaxCredit = 1
    BatchLimit = 3
    MaxError = 0
PROPERTIES
    TopReachesStream
CHECK_DEADLOCK FALSE
