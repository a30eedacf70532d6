--------------------------- MODULE IncrementScore ---------------------------
(***************************************************************************)
(* POST /v1/scores:increment, from the action-token guard to the response. *)
(*                                                                         *)
(* A Request is one HTTP request that has passed the JWT guard; a client's *)
(* retry is another Request with the same body.  Requests run              *)
(* concurrently, on one API instance or on several: they share only        *)
(* Postgres and Redis, so each of them is a process here and a crash of    *)
(* one of them over-approximates a crash of the instance that serves it.   *)
(*                                                                         *)
(* Postgres: scoreEvents (unique on action_id), userScores, outbox.        *)
(* Redis:    idemKey (idempotency:action:<id>), zset (leaderboard:global). *)
(* Each action below is the code between two awaits; an await on Postgres  *)
(* or Redis takes effect atomically at the server.                         *)
(***************************************************************************)
EXTENDS Integers, FiniteSetsExt

CONSTANTS User, Action, Request,
          BodyDelta,  \* values of body.delta a caller may send
          TokenCap,   \* the mxd claims the issuer hands out
          MaxDelta,   \* DELTA_MAX of the request schema
          ScoreMax,   \* SCORE_MAX of the Score value object
          MaxSafe,    \* Number.MAX_SAFE_INTEGER
          Faults,     \* which failures happen: see the guards that name them
          MaxFlush    \* bound: how often Redis loses its data

ASSUME ConstantsAssumption ==
    /\ BodyDelta \subseteq Int
    /\ TokenCap \subseteq Nat
    /\ MaxDelta \in Nat /\ ScoreMax \in Nat /\ MaxSafe \in Nat
    /\ MaxFlush \in Nat

VARIABLES scoreEvents, \* table score_events: set of [action, user, delta]
          userScores,  \* table user_scores: total per user, 0 = no row
          outbox,      \* table outbox_events: [action, user, type, newTotal]
          idemKey,     \* action ids whose idempotency key exists
          zset,        \* score per member, 0 = not a member
          token,       \* action token per action id, as issued
          flushes,     \* losses of the Redis data set so far
          pc,          \* where each request is
          cmd,         \* the request's user, action id and delta: fixed
          total,       \* aggregate.totalScore of the request
          reply,       \* the HTTP answer
          creditTotal  \* history: user_scores.total_score just after a credit

dbVars      == <<scoreEvents, userScores, outbox, creditTotal>>
redisVars   == <<idemKey, zset, flushes>>
requestVars == <<pc, cmd, total, reply>>
vars        == <<dbVars, redisVars, requestVars, token>>

CreditDelta == 1 .. MaxDelta
Event       == [action : Action, user : User, delta : CreditDelta]
RowType     == {"score.credited", "leaderboard.updated"}
OutboxRow   == [action : Action, user : User, type : RowType, newTotal : Nat]
Token       == [sub : User, mxd : TokenCap, live : BOOLEAN]
NoToken     == [live |-> FALSE]
Step        == {"idle", "verify", "consume", "limit", "find", "begin",
                "commit", "replay", "upsert", "answer", "done"}
ReplyKind   == {"none", "committed", "replay", "invalid_token", "consumed",
                "limited", "bad_request", "unavailable", "lost"}

Command     == [action : Action, user : User, delta : BodyDelta]

Recorded(a) == \E e \in scoreEvents : e.action = a

Init == /\ scoreEvents = {}
        /\ userScores = [u \in User |-> 0]
        /\ outbox = {}
        /\ creditTotal = [a \in Action |-> 0]
        /\ idemKey = {}
        /\ zset = [u \in User |-> 0]
        /\ flushes = 0
        /\ token = [a \in Action |-> NoToken]
        /\ pc = [r \in Request |-> "idle"]
        /\ cmd \in [Request -> Command]
        /\ total = [r \in Request |-> 0]
        /\ reply = [r \in Request |-> [kind |-> "none", score |-> 0]]

Goto(r, step) == pc' = [pc EXCEPT ![r] = step]

Respond(r, kind, score) == /\ Goto(r, "done")
                           /\ reply' = [reply EXCEPT ![r] =
                                           [kind |-> kind, score |-> score]]

-----------------------------------------------------------------------------
(* The issuer, time and Redis itself.                                      *)

\* POST /v1/actions:issue-token: a random action id bound to its subject.
IssueToken(a, u, m) ==
    /\ token[a] = NoToken
    /\ token' = [token EXCEPT ![a] = [sub |-> u, mxd |-> m, live |-> TRUE]]
    /\ UNCHANGED <<dbVars, redisVars, requestVars>>

\* The token's exp passes.
ExpireToken(a) ==
    /\ token[a].live
    /\ token' = [token EXCEPT ![a].live = FALSE]
    /\ UNCHANGED <<dbVars, redisVars, requestVars>>

\* The key is written after the token is issued, with the same TTL, so it
\* goes after the token has expired.
ExpireKey(a) ==
    /\ a \in idemKey /\ ~token[a].live
    /\ idemKey' = idemKey \ {a}
    /\ UNCHANGED <<dbVars, zset, flushes, requestVars, token>>

\* FLUSHALL, a restart without persistence, or a failover that lost writes.
RedisLoss ==
    /\ flushes < MaxFlush
    /\ flushes' = flushes + 1
    /\ idemKey' = {}
    /\ zset' = [u \in User |-> 0]
    /\ UNCHANGED <<dbVars, requestVars, token>>

-----------------------------------------------------------------------------
(* The guards.                                                             *)

\* The JWT guard has set the user; any user may send any body.
Arrive(r) ==
    /\ pc[r] = "idle"
    /\ Goto(r, "verify")
    /\ UNCHANGED <<dbVars, redisVars, cmd, total, reply, token>>

\* Mutant: the sub claim is not compared with the authenticated user.
TokenAdmitsAnyUser(c) == token[c.action].live /\ token[c.action].mxd >= c.delta

\* HmacActionTokenVerifier.verify: signature and exp, then sub, aid and mxd.
TokenAdmits(c) ==
    /\ token[c.action].live
    /\ token[c.action].sub = c.user
    /\ token[c.action].mxd >= c.delta

VerifyToken(r) ==
    /\ pc[r] = "verify"
    /\ IF TokenAdmits(cmd[r])
       THEN Goto(r, "consume") /\ UNCHANGED reply
       ELSE Respond(r, "invalid_token", 0)
    /\ UNCHANGED <<dbVars, redisVars, cmd, total, token>>

\* Mutant: the guard asks whether the action was credited, not consumed.
KeyRecorded(a) == Recorded(a)

KeyExists(a) == a \in idemKey

\* SET idempotency:action:<id> 1 EX ttl NX
ConsumeKey(r) ==
    /\ pc[r] = "consume"
    /\ IF KeyExists(cmd[r].action)
       THEN Respond(r, "consumed", 0) /\ UNCHANGED idemKey
       ELSE /\ idemKey' = idemKey \cup {cmd[r].action}
            /\ Goto(r, "limit")
            /\ UNCHANGED reply
    /\ UNCHANGED <<dbVars, zset, flushes, cmd, total, token>>

\* The SET fails; Redis may have applied it all the same.
ConsumeKeyFails(r) ==
    /\ pc[r] = "consume" /\ "redis" \in Faults
    /\ idemKey' \in {idemKey, idemKey \cup {cmd[r].action}}
    /\ Respond(r, "unavailable", 0)
    /\ UNCHANGED <<dbVars, zset, flushes, cmd, total, token>>

\* Mutant: the schema accepts any number.
AnyBody(c) == c.delta \in Int

\* IncrementScoreSchema.parse, which runs after the guards.
ValidBody(c) == c.delta \in CreditDelta

\* RateLimitGuard lets the request through; then the controller parses the
\* body.  The bucket itself is not modelled here: either outcome may occur.
Admit(r) ==
    /\ pc[r] = "limit"
    /\ IF ValidBody(cmd[r])
       THEN Goto(r, "find") /\ UNCHANGED reply
       ELSE Respond(r, "bad_request", 0)
    /\ UNCHANGED <<dbVars, redisVars, cmd, total, token>>

\* 429, or 503 when the circuit is open or the bucket cannot be read.
Limit(r) ==
    /\ pc[r] = "limit"
    /\ Respond(r, "limited", 0)
    /\ UNCHANGED <<dbVars, redisVars, cmd, total, token>>

-----------------------------------------------------------------------------
(* IncrementScoreHandler.execute.                                          *)

\* repo.findByUserId, then aggregate.credit: the total is computed from a
\* read made outside the transaction.
FindUser(r) ==
    /\ pc[r] = "find"
    /\ LET newTotal == userScores[cmd[r].user] + cmd[r].delta
       IN  IF newTotal > MaxSafe
           THEN Respond(r, "bad_request", 0) /\ UNCHANGED total
           ELSE /\ total' = [total EXCEPT ![r] = newTotal]
                /\ Goto(r, "begin")
                /\ UNCHANGED reply
    /\ UNCHANGED <<dbVars, redisVars, cmd, token>>

\* Mutant: the row lock of a crashed request is never released.
OpenTxLeaks(r) == pc[r] = "commit" \/ reply[r].kind = "lost"

\* A transaction that has run its statements and not ended holds the user's
\* row and the index entry of its action id.
OpenTx(r) == pc[r] = "commit"

Conflict(r, s) == \/ cmd[r].user = cmd[s].user
                  \/ cmd[r].action = cmd[s].action

Waits(r) == \E s \in Request \ {r} : OpenTx(s) /\ Conflict(r, s)

\* Mutants: no unique index; the violation is swallowed and the handler goes
\* on; repo.credit is not awaited.
AfterInsertNoIndex(r) == "commit"
AfterInsertSwallowed(r) == IF Recorded(cmd[r].action) THEN "upsert" ELSE "commit"
AfterInsertNotAwaited(r) == IF Recorded(cmd[r].action) THEN "replay" ELSE "upsert"

\* uq_score_events_action rejects an action id that is already recorded.
AfterInsert(r) == IF Recorded(cmd[r].action) THEN "replay" ELSE "commit"

\* repo.credit up to COMMIT: SELECT ... FOR UPDATE, the insert into
\* score_events, the upsert of user_scores and the outbox rows, which wait
\* for any open transaction they conflict with.
TxWrite(r) ==
    /\ pc[r] = "begin"
    /\ ~Waits(r)
    /\ Goto(r, AfterInsert(r))
    /\ UNCHANGED <<dbVars, redisVars, cmd, total, reply, token>>

\* Mutant: only the domain event is written to the outbox.
OutboxCreditedOnly(r) ==
    {[action |-> cmd[r].action, user |-> cmd[r].user,
      type |-> "score.credited", newTotal |-> total[r]]}

OutboxRows(r) ==
    {[action |-> cmd[r].action, user |-> cmd[r].user,
      type |-> t, newTotal |-> total[r]] : t \in RowType}

\* Mutant: total_score is set to the total the handler computed.
NewTotalAbsolute(r) == total[r]

\* total_score is incremented in place by the delta.
NewTotal(r) == userScores[cmd[r].user] + cmd[r].delta

\* COMMIT makes the writes visible together.
ApplyTx(r) ==
    /\ scoreEvents' = scoreEvents \cup {cmd[r]}
    /\ userScores' = [userScores EXCEPT ![cmd[r].user] = NewTotal(r)]
    /\ outbox' = outbox \cup OutboxRows(r)
    /\ creditTotal' = [creditTotal EXCEPT ![cmd[r].action] = NewTotal(r)]

TxCommit(r) ==
    /\ pc[r] = "commit"
    /\ ApplyTx(r)
    /\ Goto(r, "upsert")
    /\ UNCHANGED <<redisVars, cmd, total, reply, token>>

\* The commit is durable but the connection breaks before its answer: the
\* driver's error is rethrown and answered with a 5xx.
TxCommitAckLost(r) ==
    /\ pc[r] = "commit" /\ "ack" \in Faults
    /\ ApplyTx(r)
    /\ Respond(r, "unavailable", 0)
    /\ UNCHANGED <<redisVars, cmd, total, token>>

\* Any database error before the commit, in the handler or in the driver.
DbFails(r) ==
    /\ pc[r] \in {"find", "begin", "commit", "replay"} /\ "db" \in Faults
    /\ Respond(r, "unavailable", 0)
    /\ UNCHANGED <<dbVars, redisVars, cmd, total, token>>

\* IdempotencyViolationError: answer with the prior event's owner and that
\* owner's total as it is now (findScoreEventByActionId joins user_scores).
Replay(r) ==
    /\ pc[r] = "replay"
    /\ LET prior == CHOOSE e \in scoreEvents : e.action = cmd[r].action
       IN  Respond(r, "replay", userScores[prior.user])
    /\ UNCHANGED <<dbVars, redisVars, cmd, total, token>>

\* cache.upsert: a plain ZADD of the aggregate's total.  Score.of rejects a
\* total above SCORE_MAX; that error, like a Redis error, is swallowed.
CacheUpsert(r) ==
    /\ pc[r] = "upsert"
    /\ zset' = IF total[r] <= ScoreMax
               THEN [zset EXCEPT ![cmd[r].user] = total[r]] ELSE zset
    /\ Goto(r, "answer")
    /\ UNCHANGED <<dbVars, idemKey, flushes, cmd, total, reply, token>>

CacheUpsertFails(r) ==
    /\ pc[r] = "upsert" /\ "redis" \in Faults
    /\ Goto(r, "answer")
    /\ UNCHANGED <<dbVars, redisVars, cmd, total, reply, token>>

\* getRank and getTop (reads whose failure only nulls rank and topChanged),
\* then the committed result.
Answer(r) ==
    /\ pc[r] = "answer"
    /\ Respond(r, "committed", total[r])
    /\ UNCHANGED <<dbVars, redisVars, cmd, total, token>>

\* The instance that serves the request dies; Postgres aborts its open
\* transaction.
Crash(r) ==
    /\ pc[r] \notin {"idle", "done"} /\ "crash" \in Faults
    /\ Respond(r, "lost", 0)
    /\ UNCHANGED <<dbVars, redisVars, cmd, total, token>>

-----------------------------------------------------------------------------

\* One step of the code that serves request r, without faults.
Serve(r) == \/ VerifyToken(r) \/ ConsumeKey(r) \/ Admit(r) \/ Limit(r)
            \/ FindUser(r) \/ TxWrite(r) \/ TxCommit(r) \/ Replay(r)
            \/ CacheUpsert(r) \/ Answer(r)

Fail(r) == \/ ConsumeKeyFails(r) \/ TxCommitAckLost(r) \/ DbFails(r)
           \/ CacheUpsertFails(r) \/ Crash(r)

Environment == \/ \E a \in Action, u \in User, m \in TokenCap : IssueToken(a, u, m)
               \/ \E a \in Action : ExpireToken(a) \/ ExpireKey(a)
               \/ RedisLoss

Next == Environment \/ \E r \in Request : Arrive(r) \/ Serve(r) \/ Fail(r)

Spec == Init /\ [][Next]_vars

\* The event loop runs a request's continuations, and the servers answer.
Fairness == \A r \in Request : WF_vars(Serve(r))

FairSpec == Spec /\ Fairness
-----------------------------------------------------------------------------
(* Properties.                                                             *)

\* Every variable keeps the shape its table, key or field has in the code.
TypeOK ==
    /\ scoreEvents \subseteq Event
    /\ userScores \in [User -> Nat]
    /\ outbox \subseteq OutboxRow
    /\ creditTotal \in [Action -> Nat]
    /\ idemKey \subseteq Action
    /\ zset \in [User -> Nat]
    /\ token \in [Action -> Token \cup {NoToken}]
    /\ flushes \in 0 .. MaxFlush
    /\ pc \in [Request -> Step]
    /\ cmd \in [Request -> Command]
    /\ total \in [Request -> Nat]
    /\ reply \in [Request -> [kind : ReplyKind, score : Nat]]

\* The user_scores row and the audit table agree whatever requests
\* interleave: a total is the sum of the user's events (problem6/README.md 6.3).
ScoreIsSumOfEvents ==
    \A u \in User :
        userScores[u] = MapThenSumSet(LAMBDA e : e.delta,
                                      {e \in scoreEvents : e.user = u})

\* Each credit left exactly one outbox row of each type, for its own user,
\* and no row stands for a credit that did not happen (NFR-06).
OutboxMatchesEvents ==
    /\ \A e \in scoreEvents, t \in RowType :
           Cardinality({w \in outbox : w.action = e.action /\ w.type = t}) = 1
    /\ \A w \in outbox : \E e \in scoreEvents :
           e.action = w.action /\ e.user = w.user /\ e.delta <= w.newTotal

\* The leaderboard never shows a user more than Postgres has: whatever a
\* handler read before its transaction, the commit has made it true before
\* the ZADD, and totals never go down.
CacheNeverAhead == \A u \in User : zset[u] <= userScores[u]

\* A 200 is durable: the action is recorded for the caller, and the total
\* told to the caller is one the user's row has reached.
AnswersAreDurable ==
    \A r \in Request : reply[r].kind \in {"committed", "replay"} =>
        /\ \E e \in scoreEvents : /\ e.action = cmd[r].action
                                  /\ e.user = cmd[r].user
        /\ reply[r].score <= userScores[cmd[r].user]

\* Every credit was authorised by a token issued for that action, to that
\* user, with a cap of at least that delta.
CreditsAuthorised ==
    \A e \in scoreEvents : /\ token[e.action] # NoToken
                           /\ token[e.action].sub = e.user
                           /\ token[e.action].mxd >= e.delta

\* The request went through the action-token guard.
PassedGuard(r) ==
    \/ pc[r] \in {"limit", "find", "begin", "commit", "replay", "upsert", "answer"}
    \/ reply[r].kind \in {"committed", "replay", "limited", "bad_request"}

\* While Redis keeps its data and the token lives, the guard lets one
\* request per action id through, whatever became of that request.
OneRequestPerToken ==
    \A r, s \in Request :
        /\ r # s /\ PassedGuard(r) /\ PassedGuard(s)
        /\ cmd[r].action = cmd[s].action
        => flushes > 0 \/ ~token[cmd[r].action].live

\* The write path implements the ledger of CreditLedger: a step of any
\* request is one credit, one acknowledgement or nothing.
Ledger == INSTANCE CreditLedger WITH
    Delta     <- CreditDelta,
    ledger    <- scoreEvents,
    balance   <- userScores,
    announced <- {w.action : w \in outbox},
    acked     <- {cmd[r].action : r \in {s \in Request : reply[s].kind = "committed"}}

LedgerSpec == Ledger!Spec

\* A request that arrives is answered, or its instance died: no lock wait
\* and no error path leaves it hanging.
EveryRequestAnswered ==
    \A r \in Request : (pc[r] = "verify") ~> (pc[r] = "done")

-----------------------------------------------------------------------------
(* What the documentation says and the code does not do.                   *)

\* problem6/README.md:282, consistency model: the ZSET catches up with Postgres.
CacheCatchesUp == []<>(\A u \in User : zset[u] = userScores[u])

\* problem6/README.md:160: the outbox row carries the new score of its credit.
OutboxCarriesNewScore == \A w \in outbox : w.newTotal = creditTotal[w.action]
=============================================================================
