\* One user whose two requests compete for the row, every fault.
SPECIFICATION FairSpec
CONSTANTS
    User = {u1}
    Action = {a1, a2}
    Request = {r1, r2}
    BodyDelta <- Deltas
    TokenCap <- Caps
    MaxDelta = 2
    ScoreMax = 2
    MaxSafe = 1
    Faults <- AllFaults
    MaxFlush = 1
PROPERTIES
    LedgerSpec
    EveryRequestAnswered
CHECK_DEADLOCK FALSE
