\* One instance that may be restarted once, two credits in either order, one
\* error, and a SELECT that cannot return all four rows.
SPECIFICATION FairSpec
CONSTANTS
    Instance = {i1}
    Free = Free
    Dead = Dead
    MaxTick = 1
    MaxFault = 0
    MaxRestart = 1
    MaxCredit = 2
    BatchLimit = 3
    MaxError = 1
PROPERTIES
    EveryCreditAnnounced
CHECK_DEADLOCK FALSE
