\* Two users, two actions, three requests, every fault, one loss of Redis.
\* A second credit of one user exceeds ScoreMax, a third could exceed MaxSafe.
SPECIFICATION Spec
CONSTANTS
    User = {u1, u2}
    Action = {a1, a2}
    Request = {r1, r2, r3}
    BodyDelta <- SmallDeltas
    TokenCap <- Caps
    MaxDelta = 2
    ScoreMax = 1
    MaxSafe = 2
    Faults <- AllFaults
    MaxFlush = 1
SYMMETRY Symmetry
INVARIANTS
    TypeOK
    ScoreIsSumOfEvents
    OutboxMatchesEvents
    CacheNeverAhead
    AnswersAreDurable
    CreditsAuthorised
    OneRequestPerToken
CHECK_DEADLOCK FALSE
