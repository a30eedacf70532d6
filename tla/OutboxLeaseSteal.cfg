\* Two instances, no restart, one lapse of the lease.
SPECIFICATION LeaseSpec
CONSTANTS
    Instance = {i1, i2}
    Free = Free
    Dead = Dead
    MaxTick = 1
    MaxFault = 1
    MaxRestart = 0
PROPERTIES
    HeartbeatExtendsOwnLock
CHECK_DEADLOCK FALSE
