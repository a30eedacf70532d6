------------------------ MODULE IncrementScoreProofs ------------------------
(***************************************************************************)
(* Proofs about IncrementScore, for any users, actions, requests, faults   *)
(* and limits.                                                             *)
(***************************************************************************)
EXTENDS IncrementScore, SumTheorems, TLAPS

\* The steps after the body was parsed.
Parsed == {"find", "begin", "commit", "replay", "upsert", "answer"}

CmdValid == \A r \in Request : pc[r] \in Parsed => cmd[r].delta \in CreditDelta

ReplayKnown == \A r \in Request : pc[r] = "replay" => Recorded(cmd[r].action)

TypeInv == TypeOK /\ CmdValid /\ ReplayKnown

LEMMA TypeInvInit == Init => TypeInv
<1> SUFFICES ASSUME Init PROVE TypeInv
    OBVIOUS
<1>1. TypeOK
    BY ConstantsAssumption DEF Init, TypeOK, Step, ReplyKind
<1>2. CmdValid
    BY DEF Init, CmdValid, Parsed
<1>3. ReplayKnown
    BY DEF Init, ReplayKnown
<1> QED BY <1>1, <1>2, <1>3 DEF TypeInv

\* Answering a request disturbs nothing but that request.
LEMMA RespondKeepsTypeInv ==
    ASSUME TypeInv,
           NEW r \in Request, NEW kind \in ReplyKind, NEW score \in Nat,
           Respond(r, kind, score),
           idemKey' \subseteq Action,
           UNCHANGED <<dbVars, zset, flushes, cmd, total, token>>
    PROVE  TypeInv'
<1> USE DEF TypeInv, TypeOK, Respond, Goto, dbVars
<1>1. pc' \in [Request -> Step] /\ pc' = [pc EXCEPT ![r] = "done"]
    BY DEF Step
<1>2. reply' \in [Request -> [kind : ReplyKind, score : Nat]]
    OBVIOUS
<1>3. TypeOK'
    BY <1>1, <1>2
<1>4. CmdValid' /\ ReplayKnown'
    BY <1>1 DEF CmdValid, ReplayKnown, Recorded, Parsed
<1> QED BY <1>3, <1>4

LEMMA TypeInvStep == TypeInv /\ [Next]_vars => TypeInv'
<1> SUFFICES ASSUME TypeInv, [Next]_vars PROVE TypeInv'
    OBVIOUS
<1> USE ConstantsAssumption DEF TypeInv, TypeOK, CmdValid, ReplayKnown, Recorded, Parsed,
        Step, ReplyKind, Goto, Respond, dbVars, redisVars, requestVars
<1>1. ASSUME NEW a \in Action, NEW u \in User, NEW m \in TokenCap, IssueToken(a, u, m)
      PROVE  TypeInv'
    BY <1>1 DEF IssueToken, Token
<1>2. ASSUME NEW a \in Action, ExpireToken(a) PROVE TypeInv'
  <2>1. token[a] \in Token
    BY <1>2 DEF ExpireToken, NoToken
  <2>2. [token[a] EXCEPT !.live = FALSE] \in Token
    BY <2>1 DEF Token
  <2>3. token' = [token EXCEPT ![a] = [token[a] EXCEPT !.live = FALSE]]
    BY <1>2 DEF ExpireToken
  <2>4. token' \in [Action -> Token \cup {NoToken}]
    BY <2>2, <2>3
  <2> QED BY <1>2, <2>4 DEF ExpireToken
<1>3. ASSUME NEW a \in Action, ExpireKey(a) PROVE TypeInv'
    BY <1>3 DEF ExpireKey
<1>4. CASE RedisLoss
    BY <1>4 DEF RedisLoss
<1>5. ASSUME NEW r \in Request, Arrive(r) PROVE TypeInv'
    BY <1>5 DEF Arrive
<1>6. ASSUME NEW r \in Request, VerifyToken(r) PROVE TypeInv'
  <2>1. CASE TokenAdmits(cmd[r])
    BY <1>6, <2>1 DEF VerifyToken
  <2>2. CASE ~TokenAdmits(cmd[r])
    BY <1>6, <2>2, RespondKeepsTypeInv DEF VerifyToken
  <2> QED BY <2>1, <2>2
<1>7. ASSUME NEW r \in Request, ConsumeKey(r) PROVE TypeInv'
  <2>1. CASE KeyExists(cmd[r].action)
    BY <1>7, <2>1, RespondKeepsTypeInv DEF ConsumeKey
  <2>2. CASE ~KeyExists(cmd[r].action)
    BY <1>7, <2>2 DEF ConsumeKey, Command
  <2> QED BY <2>1, <2>2
<1>8. ASSUME NEW r \in Request, ConsumeKeyFails(r) PROVE TypeInv'
    BY <1>8 DEF ConsumeKeyFails, Command
<1>9. ASSUME NEW r \in Request, Admit(r) PROVE TypeInv'
  <2>1. CASE ValidBody(cmd[r])
    BY <1>9, <2>1 DEF Admit, ValidBody
  <2>2. CASE ~ValidBody(cmd[r])
    BY <1>9, <2>2, RespondKeepsTypeInv DEF Admit
  <2> QED BY <2>1, <2>2
<1>10. ASSUME NEW r \in Request, Limit(r) PROVE TypeInv'
    BY <1>10 DEF Limit
<1>11. ASSUME NEW r \in Request, FindUser(r) PROVE TypeInv'
  <2> DEFINE newTotal == userScores[cmd[r].user] + cmd[r].delta
  <2>1. newTotal \in Nat
    BY <1>11 DEF FindUser, Command, CreditDelta
  <2> HIDE DEF newTotal
  <2>2. CASE newTotal > MaxSafe
    BY <1>11, <2>2, RespondKeepsTypeInv DEF FindUser, newTotal
  <2>3. CASE ~(newTotal > MaxSafe)
    <3>1. total' = [total EXCEPT ![r] = newTotal] /\ Goto(r, "begin")
          /\ UNCHANGED <<dbVars, redisVars, cmd, token, reply>>
      BY <1>11, <2>3 DEF FindUser, newTotal
    <3> QED BY <1>11, <2>1, <3>1 DEF FindUser
  <2> QED BY <2>2, <2>3
<1>12. ASSUME NEW r \in Request, TxWrite(r) PROVE TypeInv'
    BY <1>12 DEF TxWrite, AfterInsert
<1>13. ASSUME NEW r \in Request, ApplyTx(r), pc[r] = "commit"
       PROVE  /\ scoreEvents' \subseteq Event
              /\ userScores' \in [User -> Nat]
              /\ outbox' \subseteq OutboxRow
              /\ creditTotal' \in [Action -> Nat]
              /\ scoreEvents \subseteq scoreEvents'
  <2>1. cmd[r] \in Event /\ cmd[r].delta \in Nat
    BY <1>13 DEF Command, Event, CreditDelta
  <2>2. NewTotal(r) \in Nat
    BY <2>1 DEF NewTotal, Event
  <2>3. OutboxRows(r) \subseteq OutboxRow
    BY <2>1 DEF OutboxRows, OutboxRow, Event
  <2> QED BY <1>13, <2>1, <2>2, <2>3 DEF ApplyTx
<1>14. ASSUME NEW r \in Request, TxCommit(r) PROVE TypeInv'
  <2>1. /\ scoreEvents \subseteq scoreEvents' /\ scoreEvents' \subseteq Event
        /\ userScores' \in [User -> Nat] /\ outbox' \subseteq OutboxRow
        /\ creditTotal' \in [Action -> Nat]
    BY <1>13, <1>14 DEF TxCommit
  <2>2. TypeOK'
    BY <1>14, <2>1 DEF TxCommit
  <2>3. CmdValid' /\ ReplayKnown'
    BY <1>14, <2>1 DEF TxCommit
  <2> QED BY <2>2, <2>3
<1>15. ASSUME NEW r \in Request, TxCommitAckLost(r) PROVE TypeInv'
  <2>1. /\ scoreEvents \subseteq scoreEvents' /\ scoreEvents' \subseteq Event
        /\ userScores' \in [User -> Nat] /\ outbox' \subseteq OutboxRow
        /\ creditTotal' \in [Action -> Nat]
    BY <1>13, <1>15 DEF TxCommitAckLost
  <2>2. TypeOK'
    BY <1>15, <2>1 DEF TxCommitAckLost
  <2>3. CmdValid' /\ ReplayKnown'
    BY <1>15, <2>1 DEF TxCommitAckLost
  <2> QED BY <2>2, <2>3
<1>16. ASSUME NEW r \in Request, DbFails(r) PROVE TypeInv'
    BY <1>16 DEF DbFails
<1>17. ASSUME NEW r \in Request, Replay(r) PROVE TypeInv'
    BY <1>17 DEF Replay, Event
<1>18. ASSUME NEW r \in Request, CacheUpsert(r) PROVE TypeInv'
    BY <1>18 DEF CacheUpsert
<1>19. ASSUME NEW r \in Request, CacheUpsertFails(r) PROVE TypeInv'
    BY <1>19 DEF CacheUpsertFails
<1>20. ASSUME NEW r \in Request, Answer(r) PROVE TypeInv'
    BY <1>20 DEF Answer
<1>21. ASSUME NEW r \in Request, Crash(r) PROVE TypeInv'
    BY <1>21 DEF Crash
<1>22. CASE UNCHANGED vars
    BY <1>22 DEF vars
<1> QED
    BY <1>1, <1>2, <1>3, <1>4, <1>5, <1>6, <1>7, <1>8, <1>9, <1>10, <1>11, <1>12,
       <1>14, <1>15, <1>16, <1>17, <1>18, <1>19, <1>20, <1>21, <1>22
    DEF Next, Environment, Serve, Fail

\* Every table, key and field keeps its shape, for any constants.
THEOREM TypeCorrect == Spec => []TypeOK
<1>1. Init => TypeInv
    BY TypeInvInit
<1>2. TypeInv /\ [Next]_vars => TypeInv'
    BY TypeInvStep
<1>3. TypeInv => TypeOK
    BY DEF TypeInv
<1> QED BY <1>1, <1>2, <1>3, PTL DEF Spec

-----------------------------------------------------------------------------
(* Authorisation: an issued token keeps its claims, so what the guard      *)
(* checked still holds when the transaction commits.                       *)

Admitted == {"consume", "limit"} \cup Parsed

Covers(a, u, d) == token[a] # NoToken /\ token[a].sub = u /\ token[a].mxd >= d

RequestsAuthorised ==
    \A r \in Request : pc[r] \in Admitted =>
        Covers(cmd[r].action, cmd[r].user, cmd[r].delta)

AuthInv == RequestsAuthorised /\ CreditsAuthorised

LEMMA AuthInit == Init => AuthInv
BY DEF Init, AuthInv, RequestsAuthorised, CreditsAuthorised, Admitted, Parsed

\* No step takes a claim back: it is why a check made in the guard is good
\* for the rest of the request.
LEMMA TokenKeepsClaims ==
    ASSUME TypeInv, [Next]_vars,
           NEW a \in Action, NEW u \in User, NEW d \in Int, Covers(a, u, d)
    PROVE  Covers(a, u, d)'
<1> USE DEF Covers, TypeInv, TypeOK
<1>1. token[a] \in Token
    OBVIOUS
<1>2. ASSUME NEW b \in Action, NEW v \in User, NEW m \in TokenCap, IssueToken(b, v, m)
      PROVE  Covers(a, u, d)'
    BY <1>2 DEF IssueToken
<1>3. ASSUME NEW b \in Action, ExpireToken(b) PROVE Covers(a, u, d)'
  <2>1. CASE b = a
    <3>1. token'[a] = [token[a] EXCEPT !.live = FALSE]
      BY <1>3, <2>1 DEF ExpireToken
    <3>2. token'[a] = [sub |-> token[a].sub, mxd |-> token[a].mxd, live |-> FALSE]
      BY <1>1, <3>1 DEF Token
    <3>3. DOMAIN token'[a] # DOMAIN NoToken
      <4>1. DOMAIN token'[a] = {"sub", "mxd", "live"}
        BY <3>2
      <4>2. DOMAIN NoToken = {"live"}
        BY DEF NoToken
      <4> QED BY <4>1, <4>2, "sub" # "live", Zenon
    <3> QED BY <3>2, <3>3
  <2>2. CASE b # a
    BY <1>3, <2>2 DEF ExpireToken
  <2> QED BY <2>1, <2>2
<1>4. CASE UNCHANGED token
    BY <1>4
<1> QED
    BY <1>2, <1>3, <1>4
    DEF Next, Environment, Serve, Fail, vars, ExpireKey, RedisLoss, Arrive,
        VerifyToken, ConsumeKey, ConsumeKeyFails, Admit, Limit, FindUser, TxWrite,
        TxCommit, TxCommitAckLost, DbFails, Replay, CacheUpsert, CacheUpsertFails,
        Answer, Crash

\* The command of a request is fixed, and only a commit writes to Postgres.
LEMMA WritesAreCommits ==
    ASSUME [Next]_vars
    PROVE  /\ cmd' = cmd
           /\ \/ UNCHANGED dbVars
              \/ \E r \in Request : TxCommit(r) \/ TxCommitAckLost(r)
BY DEF Next, Environment, Serve, Fail, vars, requestVars, IssueToken, ExpireToken,
       ExpireKey, RedisLoss, Arrive, VerifyToken, ConsumeKey, ConsumeKeyFails,
       Admit, Limit, FindUser, TxWrite, TxCommit, TxCommitAckLost, DbFails, Replay,
       CacheUpsert, CacheUpsertFails, Answer, Crash

\* A request enters the guarded part of the code by passing the token check.
LEMMA AdmissionChecked ==
    ASSUME TypeInv, [Next]_vars, NEW r \in Request, pc'[r] \in Admitted
    PROVE  \/ pc[r] \in Admitted
           \/ TokenAdmits(cmd[r]) /\ UNCHANGED token
<1> USE DEF TypeInv, TypeOK, Admitted, Parsed
<1>1. ASSUME NEW s \in Request, VerifyToken(s)
      PROVE  pc[r] \in Admitted \/ (TokenAdmits(cmd[r]) /\ UNCHANGED token)
    BY <1>1 DEF VerifyToken, Goto, Respond
<1>2. ASSUME NEW s \in Request,
             \/ ConsumeKey(s) \/ ConsumeKeyFails(s) \/ Admit(s) \/ Limit(s)
             \/ FindUser(s) \/ TxWrite(s) \/ TxCommit(s) \/ TxCommitAckLost(s)
             \/ DbFails(s) \/ Replay(s)
      PROVE  pc[r] \in Admitted
    BY <1>2 DEF ConsumeKey, ConsumeKeyFails, Admit, Limit, FindUser, TxWrite,
                TxCommit, TxCommitAckLost, DbFails, Replay, Goto, Respond
<1>3. ASSUME NEW s \in Request,
             \/ Arrive(s) \/ CacheUpsert(s) \/ CacheUpsertFails(s)
             \/ Answer(s) \/ Crash(s)
      PROVE  pc[r] \in Admitted
    BY <1>3 DEF Arrive, CacheUpsert, CacheUpsertFails, Answer, Crash, Goto, Respond
<1>4. CASE UNCHANGED pc
    BY <1>4
<1> QED
    BY <1>1, <1>2, <1>3, <1>4
    DEF Next, Environment, Serve, Fail, vars, requestVars, IssueToken, ExpireToken,
        ExpireKey, RedisLoss

LEMMA AuthStep == TypeInv /\ AuthInv /\ [Next]_vars => AuthInv'
<1> SUFFICES ASSUME TypeInv, AuthInv, [Next]_vars PROVE AuthInv'
    OBVIOUS
<1>0. \A r \in Request : cmd[r] \in Command
    BY DEF TypeInv, TypeOK
<1>1. ASSUME NEW r \in Request, pc'[r] \in Admitted
      PROVE  Covers(cmd[r].action, cmd[r].user, cmd[r].delta)'
  <2>1. cmd'[r] = cmd[r]
    BY WritesAreCommits
  <2>2. CASE pc[r] \in Admitted
    <3>1. PICK c \in Command : c = cmd[r]
      BY <1>0
    <3>2. Covers(c.action, c.user, c.delta)
      BY <2>2, <3>1 DEF AuthInv, RequestsAuthorised
    <3>3. Covers(c.action, c.user, c.delta)'
      BY <3>2, TokenKeepsClaims, ConstantsAssumption DEF Command
    <3> QED BY <2>1, <3>1, <3>3 DEF Covers
  <2>3. CASE TokenAdmits(cmd[r]) /\ UNCHANGED token
    <3>1. token[cmd[r].action] # NoToken
      BY <2>3 DEF TokenAdmits, NoToken
    <3> QED BY <2>1, <2>3, <3>1 DEF TokenAdmits, Covers
  <2> QED BY <1>1, <2>2, <2>3, AdmissionChecked
<1>2. ASSUME NEW e \in scoreEvents' PROVE Covers(e.action, e.user, e.delta)'
  <2>1. CASE e \in scoreEvents
    <3>1. Covers(e.action, e.user, e.delta)
      BY <2>1 DEF AuthInv, CreditsAuthorised, Covers
    <3>2. e \in Event /\ e.delta \in Int
      BY <2>1, ConstantsAssumption DEF TypeInv, TypeOK, Event, CreditDelta
    <3> QED BY <3>1, <3>2, TokenKeepsClaims DEF Event, Covers
  <2>2. CASE e \notin scoreEvents
    <3>1. PICK r \in Request : TxCommit(r) \/ TxCommitAckLost(r)
      BY <1>2, <2>2, WritesAreCommits DEF dbVars
    <3>2. e = cmd[r] /\ pc[r] = "commit" /\ UNCHANGED token
      BY <1>2, <2>2, <3>1 DEF TxCommit, TxCommitAckLost, ApplyTx
    <3> QED BY <3>2 DEF AuthInv, RequestsAuthorised, Admitted, Parsed, Covers
  <2> QED BY <2>1, <2>2
<1> QED BY <1>1, <1>2 DEF AuthInv, RequestsAuthorised, CreditsAuthorised, Covers

\* No credit without a token issued to that user for that action and amount.
THEOREM CreditsAreAuthorised == Spec => []CreditsAuthorised
<1>1. Init => TypeInv /\ AuthInv
    BY TypeInvInit, AuthInit
<1>2. TypeInv /\ AuthInv /\ [Next]_vars => (TypeInv /\ AuthInv)'
    BY TypeInvStep, AuthStep
<1>3. AuthInv => CreditsAuthorised
    BY DEF AuthInv
<1> QED BY <1>1, <1>2, <1>3, PTL DEF Spec

-----------------------------------------------------------------------------
(* A token is good for one request: whoever is past the guard has left the *)
(* action's key in Redis, where it stays while the token lives.            *)

Spent(a) == /\ token[a] # NoToken
            /\ flushes > 0 \/ ~token[a].live \/ a \in idemKey

GuardInv == /\ \A r \in Request : PassedGuard(r) => Spent(cmd[r].action)
            /\ OneRequestPerToken

LEMMA GuardInit == Init => GuardInv
BY DEF Init, GuardInv, PassedGuard, OneRequestPerToken

\* An expired token does not come back to life.
LEMMA TokensStayDead ==
    ASSUME TypeInv, [Next]_vars, NEW a \in Action, token[a] # NoToken
    PROVE  token'[a] # NoToken /\ (token'[a].live => token[a].live)
<1> USE DEF TypeInv, TypeOK
<1>1. token[a] \in Token
    OBVIOUS
<1>2. token'[a] # NoToken
  <2> HIDE DEF TypeInv, TypeOK
  <2>1. token[a].sub \in User /\ token[a].mxd \in TokenCap
    BY <1>1 DEF Token
  <2>2. token[a].mxd \in Int
    <3>1. \A m \in TokenCap : m \in Int
      BY ConstantsAssumption
    <3> QED BY <2>1, <3>1, Zenon
  <2>3. Covers(a, token[a].sub, token[a].mxd)
    <3>1. ASSUME NEW n \in Int PROVE n >= n
      OBVIOUS
    <3> QED BY <2>2, <3>1, Zenon DEF Covers
  <2>4. ASSUME NEW u \in User, NEW d \in Int, Covers(a, u, d)
        PROVE  token'[a] # NoToken
    BY <2>4, TokenKeepsClaims DEF Covers
  <2> QED BY <2>1, <2>2, <2>3, <2>4
<1>3. ASSUME NEW b \in Action, NEW v \in User, NEW m \in TokenCap, IssueToken(b, v, m)
      PROVE  token'[a].live => token[a].live
    BY <1>3 DEF IssueToken
<1>4. ASSUME NEW b \in Action, ExpireToken(b) PROVE token'[a].live => token[a].live
  <2>1. CASE b = a
    BY <1>1, <1>4, <2>1 DEF ExpireToken, Token
  <2>2. CASE b # a
    BY <1>4, <2>2 DEF ExpireToken
  <2> QED BY <2>1, <2>2
<1>5. CASE UNCHANGED token
    BY <1>5
<1> QED
    BY <1>2, <1>3, <1>4, <1>5
    DEF Next, Environment, Serve, Fail, vars, ExpireKey, RedisLoss, Arrive,
        VerifyToken, ConsumeKey, ConsumeKeyFails, Admit, Limit, FindUser, TxWrite,
        TxCommit, TxCommitAckLost, DbFails, Replay, CacheUpsert, CacheUpsertFails,
        Answer, Crash

\* The key of a live token goes only with all of Redis.
LEMMA KeysStay ==
    ASSUME TypeInv, [Next]_vars, NEW a \in Action, a \in idemKey, token[a].live
    PROVE  a \in idemKey' \/ flushes' > 0
<1> USE DEF TypeInv, TypeOK
<1>1. ASSUME NEW b \in Action, ExpireKey(b) PROVE a \in idemKey'
    BY <1>1 DEF ExpireKey
<1>2. CASE RedisLoss
    BY <1>2, ConstantsAssumption DEF RedisLoss
<1>3. ASSUME NEW s \in Request, ConsumeKey(s) \/ ConsumeKeyFails(s) PROVE a \in idemKey'
    BY <1>3 DEF ConsumeKey, ConsumeKeyFails
<1>4. CASE UNCHANGED idemKey
    BY <1>4
<1> QED
    BY <1>1, <1>2, <1>3, <1>4
    DEF Next, Environment, Serve, Fail, vars, redisVars, IssueToken, ExpireToken,
        Arrive, VerifyToken, Admit, Limit, FindUser, TxWrite, TxCommit,
        TxCommitAckLost, DbFails, Replay, CacheUpsert, CacheUpsertFails, Answer, Crash

LEMMA LossesStay == TypeInv /\ [Next]_vars /\ flushes > 0 => flushes' > 0
<1> SUFFICES ASSUME TypeInv, [Next]_vars, flushes > 0 PROVE flushes' > 0
    OBVIOUS
<1> USE ConstantsAssumption DEF TypeInv, TypeOK
<1>1. CASE RedisLoss
    BY <1>1 DEF RedisLoss
<1>2. CASE UNCHANGED flushes
    BY <1>2
<1> QED
    BY <1>1, <1>2
    DEF Next, Environment, Serve, Fail, vars, redisVars, IssueToken, ExpireToken,
        ExpireKey, Arrive, VerifyToken, ConsumeKey, ConsumeKeyFails, Admit, Limit,
        FindUser, TxWrite, TxCommit, TxCommitAckLost, DbFails, Replay, CacheUpsert,
        CacheUpsertFails, Answer, Crash

\* What was spent stays spent.
LEMMA SpentStays ==
    ASSUME TypeInv, [Next]_vars, NEW a \in Action, Spent(a)
    PROVE  Spent(a)'
<1>1. token'[a] # NoToken /\ (token'[a].live => token[a].live)
    BY TokensStayDead DEF Spent
<1>2. flushes > 0 => flushes' > 0
    BY LossesStay
<1>3. a \in idemKey /\ token[a].live => a \in idemKey' \/ flushes' > 0
    BY KeysStay
<1> QED BY <1>1, <1>2, <1>3 DEF Spent

\* The only way past the guard is to write a key that was not there.
LEMMA PastTheGuard ==
    ASSUME TypeInv, [Next]_vars, NEW r \in Request, PassedGuard(r)'
    PROVE  \/ PassedGuard(r)
           \/ ConsumeKey(r) /\ cmd[r].action \notin idemKey
<1> USE DEF TypeInv, TypeOK, PassedGuard, Goto, Respond
<1>1. ASSUME NEW s \in Request, Arrive(s) \/ VerifyToken(s) PROVE PassedGuard(r)
    BY <1>1 DEF Arrive, VerifyToken
<1>2. ASSUME NEW s \in Request, ConsumeKey(s)
      PROVE  PassedGuard(r) \/ (ConsumeKey(r) /\ cmd[r].action \notin idemKey)
    BY <1>2 DEF ConsumeKey, KeyExists
<1>3. ASSUME NEW s \in Request,
             ConsumeKeyFails(s) \/ Crash(s) \/ DbFails(s) \/ TxCommitAckLost(s)
      PROVE  PassedGuard(r)
    BY <1>3 DEF ConsumeKeyFails, Crash, DbFails, TxCommitAckLost
<1>4. ASSUME NEW s \in Request, Admit(s) \/ Limit(s) \/ FindUser(s) \/ Replay(s)
      PROVE  PassedGuard(r)
    BY <1>4 DEF Admit, Limit, FindUser, Replay
<1>5. ASSUME NEW s \in Request,
             TxWrite(s) \/ TxCommit(s) \/ CacheUpsert(s) \/ CacheUpsertFails(s) \/ Answer(s)
      PROVE  PassedGuard(r)
    BY <1>5 DEF TxWrite, TxCommit, CacheUpsert, CacheUpsertFails, Answer, AfterInsert
<1>6. CASE UNCHANGED <<pc, reply>>
    BY <1>6
<1> QED
    BY <1>1, <1>2, <1>3, <1>4, <1>5, <1>6
    DEF Next, Environment, Serve, Fail, vars, requestVars, IssueToken, ExpireToken,
        ExpireKey, RedisLoss

LEMMA GuardStep == TypeInv /\ AuthInv /\ GuardInv /\ [Next]_vars => GuardInv'
<1> SUFFICES ASSUME TypeInv, AuthInv, GuardInv, [Next]_vars PROVE GuardInv'
    OBVIOUS
<1>1. cmd' = cmd /\ \A r \in Request : cmd[r].action \in Action
    BY WritesAreCommits DEF TypeInv, TypeOK, Command
<1>2. ASSUME NEW r \in Request, PassedGuard(r)' PROVE Spent(cmd[r].action)'
  <2>1. CASE PassedGuard(r)
    BY <1>1, <2>1, SpentStays DEF GuardInv
  <2>2. CASE ConsumeKey(r) /\ cmd[r].action \notin idemKey
    <3>1. token[cmd[r].action] # NoToken
      BY <2>2 DEF AuthInv, RequestsAuthorised, Covers, Admitted, ConsumeKey
    <3> QED BY <2>2, <3>1 DEF Spent, ConsumeKey, KeyExists
  <2> QED BY <1>2, <2>1, <2>2, PastTheGuard
<1>3. ASSUME NEW r \in Request, NEW s \in Request, r # s,
             ConsumeKey(r), cmd[r].action \notin idemKey,
             PassedGuard(s)', cmd[s].action = cmd[r].action
      PROVE  (flushes > 0 \/ ~token[cmd[r].action].live)'
  <2>1. PassedGuard(s)
    BY <1>3, PastTheGuard DEF ConsumeKey, Goto, KeyExists, TypeInv, TypeOK
  <2>2. flushes > 0 \/ ~token[cmd[r].action].live
    BY <1>3, <2>1 DEF GuardInv, Spent
  <2> QED BY <1>3, <2>2 DEF ConsumeKey
<1>4. ASSUME NEW r \in Request, NEW s \in Request, r # s,
             PassedGuard(r)', PassedGuard(s)', cmd[r].action = cmd[s].action
      PROVE  (flushes > 0 \/ ~token[cmd[r].action].live)'
  <2>1. CASE PassedGuard(r) /\ PassedGuard(s)
    <3>1. flushes > 0 \/ ~token[cmd[r].action].live
      BY <1>4, <2>1 DEF GuardInv, OneRequestPerToken
    <3>2. token[cmd[r].action] # NoToken
      BY <2>1 DEF GuardInv, Spent
    <3>3. token'[cmd[r].action].live => token[cmd[r].action].live
      BY <1>1, <3>2, TokensStayDead
    <3>4. flushes > 0 => flushes' > 0
      BY LossesStay
    <3> QED BY <1>1, <3>1, <3>3, <3>4
  <2>2. CASE ConsumeKey(r) /\ cmd[r].action \notin idemKey
    BY <1>3, <1>4, <2>2
  <2>3. CASE ConsumeKey(s) /\ cmd[s].action \notin idemKey
    <3>1. (flushes > 0 \/ ~token[cmd[s].action].live)'
      BY <1>3, <1>4, <2>3
    <3> QED BY <1>1, <1>4, <3>1
  <2> QED BY <1>4, <2>1, <2>2, <2>3, PastTheGuard
<1> QED BY <1>1, <1>2, <1>4 DEF GuardInv, OneRequestPerToken

\* While Redis keeps its data, a token that is alive has let one request
\* through at most, whatever crashed, failed or was retried.
THEOREM TokensAreSpentOnce == Spec => []OneRequestPerToken
<1>1. Init => TypeInv /\ AuthInv /\ GuardInv
    BY TypeInvInit, AuthInit, GuardInit
<1>2. TypeInv /\ AuthInv /\ GuardInv /\ [Next]_vars => (TypeInv /\ AuthInv /\ GuardInv)'
    BY TypeInvStep, AuthStep, GuardStep
<1>3. GuardInv => OneRequestPerToken
    BY DEF GuardInv
<1> QED BY <1>1, <1>2, <1>3, PTL DEF Spec

-----------------------------------------------------------------------------
(* Durability: what a handler computed before its transaction is true of   *)
(* Postgres by the time it is cached or answered, because totals only grow.*)

TotalsInv ==
    \A r \in Request :
        /\ pc[r] \in {"begin", "commit"} =>
              /\ cmd[r].delta <= total[r]
              /\ total[r] <= userScores[cmd[r].user] + cmd[r].delta
        /\ pc[r] \in {"upsert", "answer"} =>
              /\ cmd[r] \in scoreEvents
              /\ total[r] <= userScores[cmd[r].user]

DurableInv == TotalsInv /\ CacheNeverAhead /\ AnswersAreDurable

LEMMA DurableInit == Init => DurableInv
BY DEF Init, DurableInv, TotalsInv, CacheNeverAhead, AnswersAreDurable

\* What a commit does to Postgres: one event, one total raised by its delta.
LEMMA CommitEffect ==
    ASSUME TypeInv, NEW r \in Request, TxCommit(r) \/ TxCommitAckLost(r)
    PROVE  /\ pc[r] = "commit" /\ cmd[r] \in Event
           /\ scoreEvents' = scoreEvents \cup {cmd[r]}
           /\ userScores' = [userScores EXCEPT ![cmd[r].user] = @ + cmd[r].delta]
           /\ outbox' = outbox \cup OutboxRows(r)
           /\ UNCHANGED <<redisVars, cmd, total, token>>
<1>1. pc[r] = "commit" /\ ApplyTx(r) /\ UNCHANGED <<redisVars, cmd, total, token>>
    BY DEF TxCommit, TxCommitAckLost
<1>2. cmd[r] \in Event
    BY <1>1 DEF TypeInv, TypeOK, CmdValid, Parsed, Command, Event
<1> QED BY <1>1, <1>2 DEF ApplyTx, NewTotal

LEMMA TotalsGrow ==
    ASSUME TypeInv, [Next]_vars
    PROVE  /\ scoreEvents \subseteq scoreEvents'
           /\ \A u \in User : userScores[u] <= userScores'[u]
<1>1. userScores \in [User -> Nat]
    BY DEF TypeInv, TypeOK
<1>2. CASE UNCHANGED dbVars
    BY <1>1, <1>2 DEF dbVars
<1>3. ASSUME NEW r \in Request, TxCommit(r) \/ TxCommitAckLost(r)
      PROVE  /\ scoreEvents \subseteq scoreEvents'
             /\ \A u \in User : userScores[u] <= userScores'[u]
    BY <1>1, <1>3, CommitEffect, ConstantsAssumption DEF Event, CreditDelta
<1> QED BY <1>2, <1>3, WritesAreCommits

\* How a step can move a request, its total and its answer: the actions that
\* matter to DurableInv are named, every other one is a plain move.
Move(r) == /\ pc[r] # "done"
           /\ UNCHANGED <<dbVars, total>>
           /\ \E step \in Step \ {"begin", "commit", "upsert", "answer"} :
                  pc' = [pc EXCEPT ![r] = step]
           /\ \/ UNCHANGED reply
              \/ \E kind \in ReplyKind \ {"committed", "replay"} :
                     reply' = [reply EXCEPT ![r] = [kind |-> kind, score |-> 0]]

LEMMA StepShape ==
    ASSUME [Next]_vars
    PROVE  \/ UNCHANGED <<dbVars, requestVars>>
           \/ \E r \in Request :
                 \/ FindUser(r) \/ TxWrite(r) \/ TxCommit(r) \/ TxCommitAckLost(r)
                 \/ Replay(r) \/ CacheUpsert(r) \/ CacheUpsertFails(r)
                 \/ Answer(r) \/ Move(r)
<1> USE DEF Move, Step, ReplyKind, Goto, Respond, dbVars, requestVars
<1>1. Environment => UNCHANGED <<dbVars, requestVars>>
    BY DEF Environment, IssueToken, ExpireToken, ExpireKey, RedisLoss
<1>2. ASSUME NEW r \in Request,
             \/ Arrive(r) \/ VerifyToken(r) \/ ConsumeKey(r) \/ ConsumeKeyFails(r)
             \/ Limit(r) \/ DbFails(r) \/ Crash(r)
      PROVE  Move(r)
    BY <1>2 DEF Arrive, VerifyToken, ConsumeKey, ConsumeKeyFails, Limit, DbFails, Crash
<1>3. ASSUME NEW r \in Request, Admit(r) PROVE Move(r)
    BY <1>3 DEF Admit
<1> QED BY <1>1, <1>2, <1>3 DEF Next, Serve, Fail, vars

LEMMA TotalsStep == TypeInv /\ TotalsInv /\ [Next]_vars => TotalsInv'
<1> SUFFICES ASSUME TypeInv, TotalsInv, [Next]_vars PROVE TotalsInv'
    OBVIOUS
<1> USE DEF TotalsInv, Goto, Respond
<1>1. /\ pc \in [Request -> Step] /\ total \in [Request -> Nat]
      /\ userScores \in [User -> Nat] /\ cmd' = cmd
      /\ \A r \in Request : cmd[r].user \in User /\ cmd[r].delta \in Int
    BY WritesAreCommits, ConstantsAssumption DEF TypeInv, TypeOK, Command
<1>2. /\ scoreEvents \subseteq scoreEvents'
      /\ \A u \in User : userScores[u] <= userScores'[u] /\ userScores'[u] \in Nat
    BY TotalsGrow, TypeInvStep DEF TypeInv, TypeOK
<1>3. CASE UNCHANGED <<dbVars, requestVars>>
    BY <1>3 DEF dbVars, requestVars
<1>4. ASSUME NEW s \in Request, FindUser(s) PROVE TotalsInv'
    BY <1>1, <1>2, <1>4 DEF FindUser, dbVars
<1>5. ASSUME NEW s \in Request, TxWrite(s) PROVE TotalsInv'
    BY <1>1, <1>2, <1>5 DEF TxWrite, AfterInsert, dbVars
<1>6. ASSUME NEW s \in Request, TxCommit(s) PROVE TotalsInv'
  <2>1. /\ cmd[s] \in scoreEvents'
        /\ userScores'[cmd[s].user] = userScores[cmd[s].user] + cmd[s].delta
    BY <1>1, <1>6, CommitEffect
  <2>2. pc[s] = "commit" /\ pc' = [pc EXCEPT ![s] = "upsert"] /\ total' = total
    BY <1>6 DEF TxCommit
  <2> QED BY <1>1, <1>2, <2>1, <2>2
<1>7. ASSUME NEW s \in Request, TxCommitAckLost(s) PROVE TotalsInv'
  <2>1. pc' = [pc EXCEPT ![s] = "done"] /\ total' = total
    BY <1>7 DEF TxCommitAckLost
  <2> QED BY <1>1, <1>2, <2>1
<1>8. ASSUME NEW s \in Request, Replay(s) \/ Answer(s) \/ Move(s) PROVE TotalsInv'
  <2>1. /\ total' = total
        /\ \E step \in Step \ {"begin", "commit", "upsert", "answer"} :
               pc' = [pc EXCEPT ![s] = step]
    BY <1>8 DEF Replay, Answer, Move, Step
  <2> QED BY <1>1, <1>2, <2>1
<1>9. ASSUME NEW s \in Request, CacheUpsert(s) \/ CacheUpsertFails(s) PROVE TotalsInv'
  <2>1. pc[s] = "upsert" /\ total' = total /\ pc' = [pc EXCEPT ![s] = "answer"]
    BY <1>9 DEF CacheUpsert, CacheUpsertFails
  <2> QED BY <1>1, <1>2, <2>1
<1> QED BY <1>3, <1>4, <1>5, <1>6, <1>7, <1>8, <1>9, StepShape

LEMMA CacheStep == TypeInv /\ TotalsInv /\ CacheNeverAhead /\ [Next]_vars => CacheNeverAhead'
<1> SUFFICES ASSUME TypeInv, TotalsInv, CacheNeverAhead, [Next]_vars,
                    NEW u \in User
             PROVE  zset'[u] <= userScores'[u]
    BY DEF CacheNeverAhead
<1>1. /\ userScores[u] \in Nat /\ userScores'[u] \in Nat
      /\ zset \in [User -> Nat] /\ total \in [Request -> Nat]
      /\ userScores[u] <= userScores'[u] /\ zset[u] <= userScores[u]
    BY TotalsGrow, TypeInvStep DEF TypeInv, TypeOK, CacheNeverAhead
<1>2. CASE RedisLoss
    BY <1>1, <1>2 DEF RedisLoss
<1>3. ASSUME NEW r \in Request, CacheUpsert(r) PROVE zset'[u] <= userScores'[u]
  <2>1. total[r] <= userScores[cmd[r].user]
    BY <1>3 DEF CacheUpsert, TotalsInv
  <2>2. zset'[u] = zset[u] \/ (u = cmd[r].user /\ zset'[u] = total[r])
    BY <1>1, <1>3 DEF CacheUpsert
  <2> QED BY <1>1, <2>1, <2>2
<1>4. CASE UNCHANGED zset
    BY <1>1, <1>4
<1> QED
    BY <1>2, <1>3, <1>4
    DEF Next, Environment, Serve, Fail, vars, redisVars, IssueToken, ExpireToken,
        ExpireKey, Arrive, VerifyToken, ConsumeKey, ConsumeKeyFails, Admit, Limit,
        FindUser, TxWrite, TxCommit, TxCommitAckLost, DbFails, Replay,
        CacheUpsertFails, Answer, Crash

LEMMA AnswersStep ==
    TypeInv /\ AuthInv /\ TotalsInv /\ AnswersAreDurable /\ [Next]_vars
        => AnswersAreDurable'
<1> SUFFICES ASSUME TypeInv, AuthInv, TotalsInv, AnswersAreDurable, [Next]_vars,
                    NEW r \in Request, reply'[r].kind \in {"committed", "replay"}
             PROVE  /\ \E e \in scoreEvents' : /\ e.action = cmd'[r].action
                                               /\ e.user = cmd'[r].user
                    /\ reply'[r].score <= userScores'[cmd'[r].user]
    BY DEF AnswersAreDurable
<1>1. /\ cmd' = cmd /\ cmd[r] \in Command
      /\ userScores \in [User -> Nat] /\ userScores' \in [User -> Nat]
      /\ reply \in [Request -> [kind : ReplyKind, score : Nat]]
      /\ reply'[r].score \in Nat
    BY WritesAreCommits, TypeInvStep DEF TypeInv, TypeOK
<1>2. /\ scoreEvents \subseteq scoreEvents'
      /\ userScores[cmd[r].user] <= userScores'[cmd[r].user]
    BY <1>1, TotalsGrow DEF Command
<1>3. SUFFICES /\ \E e \in scoreEvents : /\ e.action = cmd[r].action
                                         /\ e.user = cmd[r].user
               /\ reply'[r].score <= userScores[cmd[r].user]
  <2>1. userScores[cmd[r].user] \in Nat /\ userScores'[cmd[r].user] \in Nat
    BY <1>1 DEF Command
  <2> QED BY <1>1, <1>2, <2>1
<1>4. CASE reply'[r] = reply[r]
    BY <1>4 DEF AnswersAreDurable
<1>5. CASE Answer(r)
    BY <1>1, <1>5 DEF Answer, Respond, TotalsInv
<1>6. CASE Replay(r)
  <2> DEFINE prior == CHOOSE e \in scoreEvents : e.action = cmd[r].action
  <2>1. prior \in scoreEvents /\ prior.action = cmd[r].action
    BY <1>6 DEF Replay, TypeInv, ReplayKnown, Recorded
  <2>2. prior.user = token[prior.action].sub /\ cmd[r].user = token[cmd[r].action].sub
    BY <1>6, <2>1 DEF Replay, AuthInv, CreditsAuthorised, RequestsAuthorised,
                      Covers, Admitted, Parsed
  <2>3. reply'[r].score = userScores[prior.user]
    BY <1>1, <1>6 DEF Replay, Respond
  <2> HIDE DEF prior
  <2>4. userScores[cmd[r].user] \in Nat
    BY <1>1 DEF Command
  <2> QED BY <2>1, <2>2, <2>3, <2>4
<1>7. reply'[r] = reply[r] \/ Answer(r) \/ Replay(r)
  <2>1. ASSUME NEW s \in Request, Move(s) PROVE reply'[r] = reply[r]
    BY <1>1, <2>1 DEF Move
  <2>2. ASSUME NEW s \in Request,
               \/ TxWrite(s) \/ TxCommit(s) \/ TxCommitAckLost(s)
               \/ CacheUpsert(s) \/ CacheUpsertFails(s)
        PROVE  reply'[r] = reply[r]
    BY <1>1, <2>2 DEF TxWrite, TxCommit, TxCommitAckLost, CacheUpsert,
                      CacheUpsertFails, Respond
  <2>3. ASSUME NEW s \in Request, FindUser(s) PROVE reply'[r] = reply[r]
    BY <1>1, <2>3 DEF FindUser, Respond
  <2>4. ASSUME NEW s \in Request, Answer(s) \/ Replay(s), s # r
        PROVE  reply'[r] = reply[r]
    BY <1>1, <2>4 DEF Answer, Replay, Respond
  <2> QED BY <2>1, <2>2, <2>3, <2>4, StepShape DEF requestVars
<1> QED BY <1>4, <1>5, <1>6, <1>7

\* The leaderboard is never ahead of Postgres, and a 200 is never taken back.
THEOREM CacheAndAnswersFollowPostgres == Spec => [](CacheNeverAhead /\ AnswersAreDurable)
<1> DEFINE I == TypeInv /\ AuthInv /\ DurableInv
<1>1. Init => I
    BY TypeInvInit, AuthInit, DurableInit
<1>2. I /\ [Next]_vars => I'
    BY TypeInvStep, AuthStep, TotalsStep, CacheStep, AnswersStep DEF DurableInv
<1>3. I => CacheNeverAhead /\ AnswersAreDurable
    BY DEF DurableInv
<1> QED BY <1>1, <1>2, <1>3, PTL DEF Spec

\* A 200 names a recorded event and a total the user's row has reached.
THEOREM AnswersAreKept == Spec => []AnswersAreDurable
BY CacheAndAnswersFollowPostgres, PTL

-----------------------------------------------------------------------------
(* Exactly once: at most one request at a time is between the insert and   *)
(* the commit for an action or a user, and once it has committed the       *)
(* unique index keeps every other request of that action out.              *)

\* The request is the one whose insert of its action id succeeded.
Winner(r) == pc[r] \in {"commit", "upsert", "answer"} \/ reply[r].kind = "committed"

RowsOf(a, t) == {w \in outbox : w.action = a /\ w.type = t}

OnceInv ==
    /\ \A r, s \in Request : Winner(r) /\ Winner(s) /\ r # s
           => cmd[r].action # cmd[s].action
    /\ \A r, s \in Request : pc[r] = "commit" /\ pc[s] = "commit" /\ r # s
           => cmd[r].user # cmd[s].user
    /\ \A r \in Request : pc[r] = "commit" => ~Recorded(cmd[r].action)
    /\ \A r \in Request : reply[r].kind = "committed" => pc[r] = "done"
    /\ \A r \in Request : Winner(r) /\ pc[r] # "commit" => Recorded(cmd[r].action)

OutboxInv ==
    /\ \A w \in outbox : Recorded(w.action)
    /\ \A e \in scoreEvents, t \in RowType : \E w : RowsOf(e.action, t) = {w}
    /\ \A w \in outbox : \E e \in scoreEvents :
           e.action = w.action /\ e.user = w.user /\ e.delta <= w.newTotal

LEMMA OnceInit == Init => OnceInv /\ OutboxInv
BY DEF Init, OnceInv, OutboxInv, Winner

LEMMA OnceStep == TypeInv /\ OnceInv /\ [Next]_vars => OnceInv'
<1> SUFFICES ASSUME TypeInv, OnceInv, [Next]_vars PROVE OnceInv'
    OBVIOUS
<1> USE DEF OnceInv, Winner, Goto, Respond
<1>1. /\ pc \in [Request -> Step] /\ cmd' = cmd
      /\ reply \in [Request -> [kind : ReplyKind, score : Nat]]
      /\ scoreEvents \subseteq scoreEvents'
    BY WritesAreCommits, TotalsGrow DEF TypeInv, TypeOK
<1>2. CASE UNCHANGED <<dbVars, requestVars>>
    BY <1>2 DEF dbVars, requestVars, Recorded
<1>3. ASSUME NEW s \in Request, FindUser(s) PROVE OnceInv'
  <2>1. /\ UNCHANGED dbVars /\ pc[s] = "find"
        /\ \/ pc' = [pc EXCEPT ![s] = "begin"] /\ reply' = reply
           \/ /\ pc' = [pc EXCEPT ![s] = "done"]
              /\ reply' = [reply EXCEPT ![s] = [kind |-> "bad_request", score |-> 0]]
    BY <1>3 DEF FindUser
  <2> QED BY <1>1, <2>1, SMTT(30) DEF dbVars, Recorded
<1>4. ASSUME NEW s \in Request, TxWrite(s) PROVE OnceInv'
  <2>1. /\ UNCHANGED dbVars /\ pc[s] = "begin" /\ ~Waits(s) /\ reply' = reply
        /\ \/ Recorded(cmd[s].action) /\ pc' = [pc EXCEPT ![s] = "replay"]
           \/ ~Recorded(cmd[s].action) /\ pc' = [pc EXCEPT ![s] = "commit"]
    BY <1>4 DEF TxWrite, AfterInsert
  <2>2. \A r \in Request \ {s} : pc[r] = "commit" =>
            cmd[r].user # cmd[s].user /\ cmd[r].action # cmd[s].action
    BY <2>1 DEF Waits, OpenTx, Conflict
  <2> QED BY <1>1, <2>1, <2>2, SMTT(30) DEF dbVars, Recorded
<1>5. ASSUME NEW s \in Request, TxCommit(s) \/ TxCommitAckLost(s) PROVE OnceInv'
  <2>1. /\ pc[s] = "commit" /\ scoreEvents' = scoreEvents \cup {cmd[s]}
        /\ \/ pc' = [pc EXCEPT ![s] = "upsert"] /\ reply' = reply
           \/ /\ pc' = [pc EXCEPT ![s] = "done"]
              /\ reply' = [reply EXCEPT ![s] = [kind |-> "unavailable", score |-> 0]]
    BY <1>5, CommitEffect DEF TxCommit, TxCommitAckLost
  <2>2. \A a \in Action : Recorded(a)' <=> Recorded(a) \/ a = cmd[s].action
    BY <2>1 DEF Recorded
  <2>3. \A r \in Request : cmd[r].action \in Action
    BY DEF TypeInv, TypeOK, Command
  <2>4. \A r \in Request \ {s} : pc'[r] = pc[r] /\ reply'[r] = reply[r]
    BY <1>1, <2>1
  <2>5. Winner(s) /\ pc'[s] # "commit"
    BY <1>1, <2>1
  <2>6. \A r \in Request : Winner(r)' => Winner(r)
    BY <1>1, <2>1, <2>4
  <2>7. \A r \in Request \ {s} : pc'[r] = "commit" => ~Recorded(cmd[r].action)'
    BY <1>1, <2>2, <2>3, <2>4, <2>5
  <2>8. \A r \in Request : reply'[r].kind = "committed" => pc'[r] = "done"
    BY <1>1, <2>1, <2>4
  <2>9. \A r \in Request : Winner(r)' /\ pc'[r] # "commit" => Recorded(cmd[r].action)'
    BY <1>1, <2>2, <2>3, <2>4, <2>6
  <2> QED BY <1>1, <2>4, <2>5, <2>6, <2>7, <2>8, <2>9 DEF Recorded
<1>6. ASSUME NEW s \in Request, Move(s) PROVE OnceInv'
  <2>1. PICK step \in Step \ {"begin", "commit", "upsert", "answer"} :
            pc' = [pc EXCEPT ![s] = step]
    BY <1>6 DEF Move
  <2>2. reply'[s].kind # "committed" \/ reply'[s] = reply[s]
    BY <1>1, <1>6 DEF Move
  <2>3. reply[s].kind # "committed" /\ reply'[s].kind # "committed"
    BY <1>6, <2>2 DEF Move
  <2>4. \A r \in Request \ {s} : pc'[r] = pc[r] /\ reply'[r] = reply[r]
    BY <1>1, <1>6, <2>1 DEF Move
  <2>5. pc'[s] \notin {"commit", "upsert", "answer"}
    BY <1>1, <2>1
  <2>6. scoreEvents' = scoreEvents
    BY <1>6 DEF Move, dbVars
  <2> QED BY <1>1, <2>3, <2>4, <2>5, <2>6 DEF Recorded
<1>7. ASSUME NEW s \in Request, Replay(s) PROVE OnceInv'
    BY <1>1, <1>7 DEF Replay, dbVars, Recorded
<1>8. ASSUME NEW s \in Request,
             CacheUpsert(s) \/ CacheUpsertFails(s) \/ Answer(s)
      PROVE  OnceInv'
  <2>1. /\ scoreEvents' = scoreEvents
        /\ \/ /\ pc[s] = "upsert" /\ pc' = [pc EXCEPT ![s] = "answer"]
              /\ reply' = reply
           \/ /\ pc[s] = "answer" /\ pc' = [pc EXCEPT ![s] = "done"]
              /\ reply' = [reply EXCEPT ![s] =
                               [kind |-> "committed", score |-> total[s]]]
    BY <1>8 DEF CacheUpsert, CacheUpsertFails, Answer, dbVars
  <2>2. \A r \in Request \ {s} : pc'[r] = pc[r] /\ reply'[r] = reply[r]
    BY <1>1, <2>1
  <2>3. pc[s] \in {"upsert", "answer"} /\ pc'[s] \in {"answer", "done"}
        /\ (reply'[s].kind = "committed" => pc'[s] = "done")
    BY <1>1, <2>1
  <2> QED BY <1>1, <2>1, <2>2, <2>3, SMTT(30) DEF Recorded
<1> QED BY <1>2, <1>3, <1>4, <1>5, <1>6, <1>7, <1>8, StepShape

LEMMA OutboxStep ==
    TypeInv /\ TotalsInv /\ OnceInv /\ OutboxInv /\ [Next]_vars => OutboxInv'
<1> SUFFICES ASSUME TypeInv, TotalsInv, OnceInv, OutboxInv, [Next]_vars
             PROVE  OutboxInv'
    OBVIOUS
<1>1. CASE UNCHANGED dbVars
  <2>1. outbox' = outbox /\ scoreEvents' = scoreEvents
    BY <1>1 DEF dbVars
  <2>2. \A a, t : RowsOf(a, t)' = RowsOf(a, t)
    BY <2>1 DEF RowsOf
  <2> HIDE DEF RowsOf
  <2> QED BY <2>1, <2>2 DEF OutboxInv, Recorded
<1>2. ASSUME NEW r \in Request, TxCommit(r) \/ TxCommitAckLost(r) PROVE OutboxInv'
  <2> DEFINE a == cmd[r].action
  <2>1. /\ pc[r] = "commit" /\ cmd[r] \in Event
        /\ scoreEvents' = scoreEvents \cup {cmd[r]}
        /\ outbox' = outbox \cup OutboxRows(r)
    BY <1>2, CommitEffect
  <2>2. ~Recorded(a)
    BY <2>1 DEF OnceInv
  <2>3. \A w \in outbox : w.action # a
    BY <2>2 DEF OutboxInv
  <2>4. \A w \in OutboxRows(r) :
            w.action = a /\ w.user = cmd[r].user /\ cmd[r].delta <= w.newTotal
    BY <2>1 DEF OutboxRows, TotalsInv
  <2>5. ASSUME NEW t \in RowType PROVE \E w : RowsOf(a, t)' = {w}
    <3> DEFINE row == [action |-> a, user |-> cmd[r].user, type |-> t,
                       newTotal |-> total[r]]
    <3>1. cmd' = cmd
      BY WritesAreCommits
    <3>2. RowsOf(a, t)' = {w \in outbox \cup OutboxRows(r) : w.action = a /\ w.type = t}
      BY <2>1, <3>1 DEF RowsOf
    <3>3. row \in OutboxRows(r) /\ row.action = a /\ row.type = t
      BY DEF OutboxRows
    <3>4. \A w \in OutboxRows(r) : w.type = t => w = row
      BY DEF OutboxRows
    <3> HIDE DEF row
    <3>5. RowsOf(a, t)' = {row}
      BY <2>3, <3>2, <3>3, <3>4
    <3> QED BY <3>5
  <2>6. ASSUME NEW e \in scoreEvents, NEW t \in RowType
        PROVE  \E w : RowsOf(e.action, t)' = {w}
    <3>1. e.action # a
      BY <2>2 DEF Recorded
    <3>2. RowsOf(e.action, t)' = RowsOf(e.action, t)
      BY <2>1, <2>4, <3>1 DEF RowsOf
    <3> QED BY <3>2 DEF OutboxInv
  <2>7. \A e \in scoreEvents', t \in RowType : \E w : RowsOf(e.action, t)' = {w}
    <3>1. cmd' = cmd
      BY WritesAreCommits
    <3> QED BY <2>1, <2>5, <2>6, <3>1
  <2>8. \A w \in outbox' : \E e \in scoreEvents' :
            e.action = w.action /\ e.user = w.user /\ e.delta <= w.newTotal
    BY <2>1, <2>4 DEF OutboxInv
  <2> QED BY <2>7, <2>8 DEF OutboxInv, Recorded
<1> QED BY <1>1, <1>2, WritesAreCommits

AllInv == TypeInv /\ AuthInv /\ DurableInv /\ OnceInv /\ OutboxInv

LEMMA AllInvInductive == /\ Init => AllInv
                         /\ AllInv /\ [Next]_vars => AllInv'
<1>1. Init => AllInv
    BY TypeInvInit, AuthInit, DurableInit, OnceInit DEF AllInv
<1>2. AllInv /\ [Next]_vars => AllInv'
    BY TypeInvStep, AuthStep, TotalsStep, CacheStep, AnswersStep, OnceStep, OutboxStep
    DEF AllInv, DurableInv
<1> QED BY <1>1, <1>2

\* Each credit has its two outbox rows, exactly once, and no row lacks one.
THEOREM OutboxIsExact == Spec => []OutboxMatchesEvents
<1>1. AllInv => OutboxMatchesEvents
  <2> SUFFICES ASSUME OutboxInv PROVE OutboxMatchesEvents
    BY DEF AllInv
  <2>1. ASSUME NEW e \in scoreEvents, NEW t \in RowType
        PROVE  Cardinality({w \in outbox : w.action = e.action /\ w.type = t}) = 1
    <3>1. PICK x : {w \in outbox : w.action = e.action /\ w.type = t} = {x}
      BY DEF OutboxInv, RowsOf
    <3> QED BY <3>1, FS_Singleton
  <2> QED BY <2>1 DEF OutboxInv, OutboxMatchesEvents
<1> QED BY <1>1, AllInvInductive, PTL DEF Spec

-----------------------------------------------------------------------------
(* A total is the sum of the user's events.                                *)

EventsOf(u) == {e \in scoreEvents : e.user = u}

SumInv == /\ IsFiniteSet(scoreEvents)
          /\ \A u \in User : userScores[u] = SumDelta(EventsOf(u))

LEMMA ScoreIsSum == ScoreIsSumOfEvents <=> \A u \in User : userScores[u] = SumDelta(EventsOf(u))
BY DEF ScoreIsSumOfEvents, SumDelta, EventsOf

LEMMA SumInit == Init => SumInv
<1> SUFFICES ASSUME Init PROVE SumInv
    OBVIOUS
<1>1. scoreEvents = {} /\ \A u \in User : userScores[u] = 0
    BY DEF Init
<1>2. \A u \in User : EventsOf(u) = {}
    BY <1>1 DEF EventsOf
<1>3. \A u \in User : userScores[u] = SumDelta(EventsOf(u))
    BY <1>1, <1>2, SumOfNone, Zenon
<1> QED BY <1>1, <1>3, FS_EmptySet DEF SumInv

\* A commit adds an event that was not recorded, and its delta to the row as
\* it is then.
LEMMA SumStep == AllInv /\ SumInv /\ [Next]_vars => SumInv'
<1> SUFFICES ASSUME AllInv, SumInv, [Next]_vars PROVE SumInv'
    OBVIOUS
<1>1. CASE UNCHANGED dbVars
    BY <1>1 DEF dbVars, SumInv, EventsOf
<1>2. ASSUME NEW r \in Request, TxCommit(r) \/ TxCommitAckLost(r) PROVE SumInv'
  <2> DEFINE c == cmd[r]
  <2>1. /\ pc[r] = "commit" /\ c \in Event
        /\ scoreEvents' = scoreEvents \cup {c}
        /\ userScores' = [userScores EXCEPT ![c.user] = @ + c.delta]
    BY <1>2, CommitEffect DEF AllInv
  <2>2. c \notin scoreEvents
    BY <2>1 DEF AllInv, OnceInv, Recorded
  <2>3. /\ scoreEvents \subseteq Event /\ userScores \in [User -> Nat]
        /\ IsFiniteSet(scoreEvents)
        /\ \A u \in User : userScores[u] = SumDelta(EventsOf(u))
    BY DEF AllInv, TypeInv, TypeOK, SumInv
  <2>4. c.user \in User /\ c.delta \in Nat
    BY <2>1 DEF Event, CreditDelta
  <2> HIDE DEF c
  <2>5. ASSUME NEW u \in User PROVE userScores'[u] = SumDelta(EventsOf(u)')
    <3>1. CASE u # c.user
      <4>1. EventsOf(u)' = EventsOf(u)
        BY <2>1, <3>1 DEF EventsOf
      <4>2. userScores'[u] = userScores[u]
        BY <2>1, <2>3, <3>1
      <4> QED BY <2>3, <4>1, <4>2, Zenon
    <3>2. CASE u = c.user
      <4>1. EventsOf(u)' = EventsOf(u) \cup {c} /\ c \notin EventsOf(u)
        BY <2>1, <2>2, <3>2 DEF EventsOf
      <4>2. IsFiniteSet(EventsOf(u)) /\ \A e \in EventsOf(u) : e.delta \in Nat
        BY <2>3, FS_Subset DEF EventsOf, Event, CreditDelta
      <4>3. SumDelta(EventsOf(u) \cup {c}) = SumDelta(EventsOf(u)) + c.delta
        BY <2>4, <4>1, <4>2, SumOfOneMore
      <4>4. userScores'[u] = userScores[u] + c.delta
        BY <2>1, <2>3, <3>2
      <4> QED BY <2>3, <4>1, <4>3, <4>4, Zenon
    <3> QED BY <3>1, <3>2
  <2>6. IsFiniteSet(scoreEvents')
    BY <2>1, <2>3, FS_AddElement
  <2> QED BY <2>5, <2>6 DEF SumInv
<1> QED BY <1>1, <1>2, WritesAreCommits

\* The user_scores row and the audit table agree whatever requests interleave,
\* fail, are retried or crash: a total is the sum of the user's events.
THEOREM TotalsAddUp == Spec => []ScoreIsSumOfEvents
<1>1. SumInv => ScoreIsSumOfEvents
    BY ScoreIsSum DEF SumInv
<1> QED BY <1>1, SumInit, SumStep, AllInvInductive, PTL DEF Spec

-----------------------------------------------------------------------------
(* The write path implements the ledger.                                   *)

LEMMA LedgerStep == AllInv /\ [Next]_vars => [Ledger!Next]_(Ledger!ledgerVars)
<1> SUFFICES ASSUME AllInv, [Next]_vars PROVE [Ledger!Next]_(Ledger!ledgerVars)
    OBVIOUS
<1> DEFINE announced == {w.action : w \in outbox}
           Acked == {s \in Request : reply[s].kind = "committed"}
           acked == {cmd[s].action : s \in Acked}
<1>1. /\ cmd' = cmd
      /\ reply \in [Request -> [kind : ReplyKind, score : Nat]]
    BY WritesAreCommits DEF AllInv, TypeInv, TypeOK
<1>2. ASSUME NEW r \in Request, TxCommit(r) \/ TxCommitAckLost(r)
      PROVE  Ledger!Next
  <2>1. /\ pc[r] = "commit" /\ cmd[r] \in Event
        /\ scoreEvents' = scoreEvents \cup {cmd[r]}
        /\ userScores' = [userScores EXCEPT ![cmd[r].user] = @ + cmd[r].delta]
        /\ outbox' = outbox \cup OutboxRows(r)
    BY <1>2, CommitEffect DEF AllInv
  <2>2. ~Recorded(cmd[r].action)
    BY <2>1 DEF AllInv, OnceInv
  <2>3. announced' = announced \cup {cmd[r].action}
    <3>1. \A w \in OutboxRows(r) : w.action = cmd[r].action
      BY DEF OutboxRows
    <3>2. \E w \in OutboxRows(r) : TRUE
      BY DEF OutboxRows, RowType
    <3> QED BY <2>1, <3>1, <3>2
  <2>4. Acked' = Acked
    BY <1>1, <1>2, <2>1 DEF TxCommit, TxCommitAckLost, Respond, AllInv, OnceInv, Winner
  <2>5. acked' = acked
    BY <1>1, <2>4
  <2>6. PICK c \in Ledger!Entry : c = cmd[r]
    BY <2>1 DEF Ledger!Entry, Event
  <2>7. Ledger!Credit(c)
    BY <2>1, <2>2, <2>3, <2>5, <2>6
    DEF Ledger!Credit, Ledger!Entry, Ledger!Credited, Recorded, Event
  <2> QED BY <2>7 DEF Ledger!Next
<1>3. ASSUME NEW r \in Request, Answer(r)
      PROVE  Ledger!Next
  <2>1. pc[r] = "answer" /\ UNCHANGED dbVars
        /\ reply' = [reply EXCEPT ![r] = [kind |-> "committed", score |-> total[r]]]
    BY <1>3 DEF Answer, Respond
  <2>2. Recorded(cmd[r].action) /\ cmd[r].action \notin acked
    BY <2>1 DEF AllInv, OnceInv, Winner
  <2>3. Acked' = Acked \cup {r}
    BY <1>1, <2>1
  <2>4. acked' = acked \cup {cmd[r].action}
    BY <1>1, <2>3
  <2>5. PICK a \in Action : a = cmd[r].action
    BY DEF AllInv, TypeInv, TypeOK, Command
  <2>6. Ledger!Acknowledge(a)
    BY <2>1, <2>2, <2>4, <2>5 DEF Ledger!Acknowledge, Ledger!Credited, Recorded, dbVars
  <2> QED BY <2>6 DEF Ledger!Next
<1>4. ASSUME UNCHANGED dbVars, Acked' = Acked PROVE UNCHANGED Ledger!ledgerVars
  <2>1. acked' = acked
    BY <1>1, <1>4
  <2> QED BY <1>4, <2>1 DEF Ledger!ledgerVars, dbVars
<1>5. ASSUME NEW r \in Request, FindUser(r) \/ Move(r) \/ Replay(r)
      PROVE  UNCHANGED dbVars /\ Acked' = Acked
  <2>1. UNCHANGED dbVars /\ pc[r] # "done"
    BY <1>5 DEF FindUser, Move, Replay, dbVars
  <2>2. reply[r].kind # "committed"
    BY <2>1 DEF AllInv, OnceInv
  <2>3. \A s \in Request \ {r} : reply'[s] = reply[s]
    BY <1>1, <1>5 DEF FindUser, Move, Replay, Respond
  <2>4. reply'[r].kind # "committed"
    BY <1>1, <1>5, <2>2 DEF FindUser, Move, Replay, Respond
  <2> QED BY <2>1, <2>2, <2>3, <2>4
<1>6. ASSUME NEW r \in Request, TxWrite(r) \/ CacheUpsert(r) \/ CacheUpsertFails(r)
      PROVE  UNCHANGED dbVars /\ Acked' = Acked
    BY <1>6 DEF TxWrite, CacheUpsert, CacheUpsertFails
<1>7. UNCHANGED <<dbVars, requestVars>> => UNCHANGED dbVars /\ Acked' = Acked
    BY DEF requestVars
<1>8. (UNCHANGED dbVars /\ Acked' = Acked) => UNCHANGED Ledger!ledgerVars
    BY <1>4
<1> HIDE DEF Acked
<1> QED BY <1>2, <1>3, <1>5, <1>6, <1>7, <1>8, StepShape

\* Any run of the write path is a run of the exactly-once ledger.
THEOREM ImplementsLedger == Spec => LedgerSpec
<1>1. Init => Ledger!Init
    BY DEF Init, Ledger!Init
<1>2. AllInv /\ [Next]_vars => [Ledger!Next]_(Ledger!ledgerVars)
    BY LedgerStep
<1> QED BY <1>1, <1>2, AllInvInductive, PTL DEF Spec, LedgerSpec, Ledger!Spec
=============================================================================
