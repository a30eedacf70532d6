\* Two instances, each restarted once, two faults, ticks that overlap.
SPECIFICATION LeaseFairSpec
CONSTANTS
    Instance = {i1, i2}
    Free = Free
    Dead = Dead
    MaxTick = 2
    MaxFault = 2
    MaxRestart = 1
INVARIANTS
    LeaseTypeOK
    ExclusiveUnlessLapsed
PROPERTIES
    LossEndsBatches
    SplitBrainHeals
    SomeoneLeads
CHECK_DEADLOCK FALSE
