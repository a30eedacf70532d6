\* Nothing fails and Redis keeps its data: two credits of one user.
SPECIFICATION Spec
CONSTANTS
    User = {u1}
    Action = {a1, a2}
    Request = {r1, r2}
    BodyDelta = {1}
    TokenCap <- Caps
    MaxDelta = 2
    ScoreMax = 4
    MaxSafe = 4
    Faults <- NoFaults
    MaxFlush = 0
INVARIANTS
    OutboxCarriesNewScore
CHECK_DEADLOCK FALSE
