\* Two instances that lead in turn, two credits in either order, one error.
SPECIFICATION Spec
CONSTANTS
    Instance = {i1, i2}
    Free = Free
    Dead = Dead
    MaxTick = 1
    MaxFault = 0
    MaxRestart = 0
    MaxCredit = 2
    BatchLimit = 3
    MaxError = 1
SYMMETRY InstanceSymmetry
INVARIANTS
    PubTypeOK
    MarkedIsDelivered
PROPERTIES
    TopNeverRegresses
CHECK_DEADLOCK FALSE
