-------------------------- MODULE LeaderboardProofs -------------------------
(***************************************************************************)
(* LeaderboardStream, and with it LeaderboardBoot, for every set of        *)
(* instances, users and clients, and every bound: one rebuild at a time,   *)
(* what a ready instance owes its readers, and the count of SSE slots.     *)
(***************************************************************************)
EXTENDS LeaderboardStream, FiniteSetTheorems, TLAPS

Scores == [User -> ScoreRow \cup {Absent}]

\* An instance's own step of the boot; i is the only instance whose fields
\* it changes.
BootAction(i) == \/ Start(i) \/ AddStream(i) \/ AddConsumer(i) \/ Zcard(i) \/ Lock(i)
                 \/ Select(i) \/ Zadd(i) \/ Unlock(i) \/ RebuildFails(i)
                 \/ RedisCallFails(i) \/ Down(i)

\* What the streams change of the boot's state.
Aside == /\ UNCHANGED <<hookVars, stream, redisVars, writerVars, historyVars>>
         /\ faults' = faults \/ Fault
         /\ \/ consumer' = consumer
            \/ \E i \in Instance, x \in {"ended", "dead"} :
                    consumer' = [consumer EXCEPT ![i] = x]

\* A step, seen from the boot.
LEMMA NextShape ==
    ASSUME [Next]_vars
    PROVE  \/ \E i \in Instance : BootAction(i)
           \/ Writing \/ LockExpires \/ RedisLoss \/ Aside
<1> USE StreamAssumption
<1>1. CASE \E i \in Instance : InstanceStep(i)
  BY <1>1 DEF InstanceStep, HookStep, BootAction, AttachConsumer, Stop
<1>2. CASE \E i \in Streamers : ReadTop(i) \/ Subscribe(i) \/ Deliver(i) \/ LoopEnds(i) \/ Stop(i)
  <2>1. PICK i \in Streamers : ReadTop(i) \/ Subscribe(i) \/ Deliver(i) \/ LoopEnds(i) \/ Stop(i)
    BY <1>2
  <2>2. CASE ReadTop(i) BY <2>2 DEF ReadTop, bootVars, natsVars, Aside
  <2>3. CASE Subscribe(i) BY <2>3 DEF Subscribe, natsVars, Aside
  <2>4. CASE Deliver(i) BY <2>4 DEF Deliver, natsVars, Aside
  <2>5. CASE LoopEnds(i) BY <2>5 DEF LoopEnds, Aside
  <2>6. CASE Stop(i) BY <2>6 DEF Stop, BootAction
  <2> QED BY <2>1, <2>2, <2>3, <2>4, <2>5, <2>6
<1>3. CASE \E c \in Client : Connect(c) \/ ClientStep(c) \/ ClientMoves(c)
  BY <1>3 DEF Connect, ClientStep, Flush, WriteError, CloseEvent, TimePasses, SlowTick,
              ClientMoves, bootVars, natsVars, Aside
<1>4. CASE Publish BY <1>4 DEF Publish, bootVars, natsVars, Aside
<1>5. CASE UNCHANGED vars BY <1>5 DEF vars, bootVars, natsVars, Aside
<1> QED BY <1>1, <1>2, <1>3, <1>4, <1>5 DEF Next

-----------------------------------------------------------------------------
(* Types.                                                                  *)

\* The types, those of the scores included.
BootTypes ==
    /\ BootTypeOK
    /\ work \in [Instance -> Scores]
    /\ zset \in Scores /\ table \in Scores
    /\ upserts \subseteq [user : User, row : ScoreRow]
    /\ how \in [Instance -> {"rebuilt", "populated", "skipped", Absent}]

LEMMA NothingHeld ==
    /\ Nothing \in Scores
    /\ \A scores \in Scores : Holders(scores) = {} <=> scores = Nothing
BY DEF Nothing, Scores, Holders

LEMMA ScoresOfRows ==
    ASSUME NEW scores \in Scores, NEW n
    PROVE  FirstRows(scores, n) \in Scores
BY DEF FirstRows, Scores

LEMMA ScoresOfRest ==
    ASSUME NEW scores \in Scores, NEW batch \in Scores
    PROVE  Rest(scores, batch) \in Scores
BY DEF Rest, Scores

LEMMA ScoresOfZadded ==
    ASSUME zset \in Scores, NEW scores \in Scores
    PROVE  /\ Zadded(scores) \in Scores
           /\ Holders(Zadded(scores)) = Holders(zset) \cup Holders(scores)
BY DEF Zadded, Scores, Holders

LEMMA BootTypesInit == Init => BootTypes
<1> SUFFICES ASSUME Init PROVE BootTypes
  OBVIOUS
<1> USE BootAssumption, StreamAssumption
<1>1. PICK running \in SUBSET Instance : InitWith(running)
  BY DEF Init
<1>2. InitialTable \in Scores /\ zset \in Scores
  BY <1>1 DEF InitWith, Scores
<1>3. Nothing \in Scores
  BY NothingHeld
<1>4. 0 \in 0 .. MaxCommit /\ 0 \in 0 .. MaxFault
  OBVIOUS
<1> QED BY <1>1, <1>2, <1>3, <1>4 DEF InitWith, BootTypes, BootTypeOK

\* What a failure, if there is one, does to its count.
LEMMA FaultCounted ==
    ASSUME faults \in 0 .. MaxFault, Fault
    PROVE  faults' \in 0 .. MaxFault
BY BootAssumption DEF Fault

\* An instance comes up and touches nothing but its own flags.
LEMMA UpTypes ==
    ASSUME BootTypes, NEW i \in Instance, phase[i] \notin {"nats", "zadd"},
           NEW x \in BOOLEAN, NEW why \in {"rebuilt", "populated", "skipped"},
           phase' = [phase EXCEPT ![i] = "up"],
           ready' = [ready EXCEPT ![i] = x], how' = [how EXCEPT ![i] = why],
           UNCHANGED <<hooks, work, sound, natsVars, redisVars, writerVars, faults,
                       selected, lapsed, lost>>
    PROVE  BootTypes'
<1> USE DEF BootTypes, BootTypeOK, natsVars, redisVars, writerVars
<1>1. /\ phase' \in [Instance -> {"down", "nats", "zcard", "lock", "select", "zadd",
                                  "unlock", "up"}]
      /\ ready' \in [Instance -> BOOLEAN]
  OBVIOUS
<1>2. how' \in [Instance -> {"rebuilt", "populated", "skipped", Absent}]
  OBVIOUS
<1>3. \A j \in Instance : /\ (hooks'[j] # {}) <=> (phase'[j] = "nats")
                          /\ (work'[j] # Nothing) <=> (phase'[j] = "zadd")
  BY DEF Nothing
<1> QED BY <1>1, <1>2, <1>3

\* The boot ends without a rebuild.
LEMMA NoRebuildTypes ==
    ASSUME BootTypes, NEW i \in Instance,
           \/ Zcard(i) /\ Holders(zset) # {}
           \/ Lock(i) /\ lock # Absent
    PROVE  BootTypes'
<1>1. CASE Zcard(i) /\ Holders(zset) # {} BY <1>1, UpTypes DEF Zcard, Up
<1>2. CASE Lock(i) /\ lock # Absent BY <1>2, UpTypes DEF Lock, Up, redisVars
<1> QED BY <1>1, <1>2

LEMMA BootActionTypes ==
    ASSUME BootTypes, NEW i \in Instance, BootAction(i)
    PROVE  BootTypes'
<1> USE FaultCounted
    DEF BootTypes, BootTypeOK, hookVars, natsVars, redisVars, writerVars, historyVars
<1>1. CASE Start(i) BY <1>1 DEF Start
<1>2. CASE AddStream(i) BY <1>2 DEF AddStream, HookEnds
<1>3. CASE AddConsumer(i) BY <1>3 DEF AddConsumer, HookEnds
<1>4. CASE Zcard(i)
  <2>1. CASE Holders(zset) = {} BY <1>4, <2>1 DEF Zcard
  <2> QED BY <1>4, <2>1, NoRebuildTypes
<1>5. CASE Lock(i)
  <2>1. CASE lock = Absent BY <1>5, <2>1 DEF Lock
  <2> QED BY <1>5, <2>1, NoRebuildTypes
<1>6. CASE Select(i)
  <2>1. FirstRows(table, TopN) \in Scores
    BY ScoresOfRows
  <2>2. work' = [work EXCEPT ![i] = FirstRows(table, TopN)] /\ work'[i] = FirstRows(table, TopN)
    BY <1>6 DEF Select
  <2>3. work' \in [Instance -> Scores]
    BY <2>1, <2>2
  <2>4. Holders(work'[i]) = {} <=> work'[i] = Nothing
    BY <2>1, <2>2, NothingHeld
  <2>5. Holders(FirstRows(table, TopN)) \subseteq User
    BY DEF Holders
  <2> QED BY <1>6, <2>2, <2>3, <2>4, <2>5 DEF Select
<1>7. CASE Zadd(i)
  <2> DEFINE batch == FirstRows(work[i], BatchSize)
             rest  == Rest(work[i], batch)
  <2>1. batch \in Scores /\ rest \in Scores
    BY ScoresOfRows, ScoresOfRest
  <2>2. Zadded(batch) \in Scores
    BY <2>1, ScoresOfZadded
  <2>3. /\ zset' = Zadded(batch) /\ work' = [work EXCEPT ![i] = rest]
        /\ phase' = [phase EXCEPT ![i] = IF Holders(rest) = {} THEN "unlock" ELSE "zadd"]
        /\ phase[i] = "zadd"
    BY <1>7 DEF Zadd
  <2>4. Holders(rest) = {} <=> rest = Nothing
    BY <2>1, NothingHeld
  <2> HIDE DEF batch, rest
  <2>5. work' \in [Instance -> Scores]
    BY <2>1, <2>3
  <2> QED BY <1>7, <2>1, <2>2, <2>3, <2>4, <2>5 DEF Zadd
<1>8. CASE Unlock(i) BY <1>8 DEF Unlock, Up
<1>9. CASE RebuildFails(i)
  <2>1. Zadded(FirstRows(work[i], BatchSize)) \in Scores
    BY ScoresOfRows, ScoresOfZadded
  <2>2. Nothing \in Scores
    BY NothingHeld
  <2> QED BY <1>9, <2>1, <2>2 DEF RebuildFails
<1>10. CASE RedisCallFails(i) BY <1>10 DEF RedisCallFails, Up
<1>11. CASE Down(i) BY <1>11, NothingHeld DEF Down
<1> QED BY <1>1, <1>2, <1>3, <1>4, <1>5, <1>6, <1>7, <1>8, <1>9, <1>10, <1>11 DEF BootAction

LEMMA BootTypesStep == BootTypes /\ [Next]_vars => BootTypes'
<1> SUFFICES ASSUME BootTypes, [Next]_vars PROVE BootTypes'
  OBVIOUS
<1> USE BootAssumption, FaultCounted
    DEF BootTypes, BootTypeOK, hookVars, natsVars, redisVars, writerVars, historyVars
<1>1. CASE \E i \in Instance : BootAction(i)
  BY <1>1, BootActionTypes
<1>2. ASSUME NEW u \in User, Commit(u) PROVE BootTypes'
  <2> DEFINE row == [total   |-> IF table[u] = Absent THEN 1 ELSE table[u].total + 1,
                     updated |-> 10 + commits]
  <2>1. row \in ScoreRow
    BY DEF ScoreRow, Scores
  <2>2. /\ table' = [table EXCEPT ![u] = row]
        /\ upserts' = upserts \cup {[user |-> u, row |-> row]}
        /\ commits' = commits + 1 /\ commits < MaxCommit
    BY <1>2 DEF Commit
  <2> HIDE DEF row
  <2>3. table' \in Scores
    BY <2>1, <2>2 DEF Scores
  <2>4. [user |-> u, row |-> row] \in [user : User, row : ScoreRow]
    BY <2>1
  <2>5. commits' \in 0 .. MaxCommit
    BY <2>2
  <2> QED BY <1>2, <2>2, <2>3, <2>4, <2>5 DEF Commit
<1>3. ASSUME NEW credit \in upserts, Upsert(credit) PROVE BootTypes'
  <2>1. credit.user \in User /\ credit.row \in ScoreRow
    OBVIOUS
  <2>2. zset' \in Scores
    BY <1>3, <2>1 DEF Upsert, Scores
  <2> QED BY <1>3, <2>2 DEF Upsert
<1>4. CASE LockExpires BY <1>4 DEF LockExpires, LockGone
<1>5. CASE RedisLoss BY <1>5, NothingHeld DEF RedisLoss, LockGone
<1>6. CASE Aside BY <1>6 DEF Aside
<1> QED BY <1>1, <1>2, <1>3, <1>4, <1>5, <1>6, NextShape DEF Writing

\* The boot's fields and the keys keep their shapes, a rebuild holds rows only
\* while it writes them, and an instance has NATS hooks under way only in the
\* boot phase that is theirs.
THEOREM BootTypeCorrect == Spec => []BootTypeOK
<1>1. BootTypes => BootTypeOK
  BY DEF BootTypes
<1> QED BY <1>1, BootTypesInit, BootTypesStep, PTL DEF Spec

-----------------------------------------------------------------------------
(* One rebuild at a time.                                                  *)

\* Whoever rebuilds holds the lock, until the lock goes under a rebuild.
RebuilderHoldsLock == ~lapsed => \A i \in Rebuilding : lock = i

LEMMA RebuilderHoldsLockStep ==
    ASSUME BootTypes, RebuilderHoldsLock, [Next]_vars
    PROVE  RebuilderHoldsLock'
<1> USE BootAssumption
    DEF BootTypes, BootTypeOK, RebuilderHoldsLock, Rebuilding, hookVars, natsVars, redisVars,
        writerVars, historyVars
<1>1. ASSUME NEW i \in Instance, BootAction(i) PROVE RebuilderHoldsLock'
  <2>1. CASE Start(i) BY <2>1 DEF Start
  <2>2. CASE AddStream(i) \/ AddConsumer(i)
    BY <2>2 DEF AddStream, AddConsumer, HookEnds
  <2>3. CASE Zcard(i) BY <2>3 DEF Zcard, Up
  <2>4. CASE Lock(i) BY <2>4 DEF Lock, Up
  <2>5. CASE Select(i) BY <2>5 DEF Select
  <2>6. CASE Zadd(i) BY <2>6 DEF Zadd
  <2>7. CASE Unlock(i) BY <2>7 DEF Unlock, Up
  <2>8. CASE RebuildFails(i) BY <2>8 DEF RebuildFails
  <2>9. CASE RedisCallFails(i) BY <2>9 DEF RedisCallFails, Up
  <2>10. CASE Down(i) BY <2>10 DEF Down
  <2> QED BY <1>1, <2>1, <2>2, <2>3, <2>4, <2>5, <2>6, <2>7, <2>8, <2>9, <2>10
          DEF BootAction
<1>2. CASE Writing BY <1>2 DEF Writing, Commit, Upsert
<1>3. CASE LockExpires \/ RedisLoss BY <1>3 DEF LockExpires, RedisLoss, LockGone
<1>4. CASE Aside BY <1>4 DEF Aside
<1> QED BY <1>1, <1>2, <1>3, <1>4, NextShape

\* No two instances rebuild at a time as long as no rebuild outlives its lock
\* and Redis does not lose it: whoever dies, skips, fails or restarts.
THEOREM RebuildsAreExclusive == Spec => []RebuildsExclusive
<1>1. Init => RebuilderHoldsLock
  BY DEF Init, InitWith, RebuilderHoldsLock, Rebuilding
<1>2. RebuilderHoldsLock => RebuildsExclusive
  <2> SUFFICES ASSUME RebuilderHoldsLock, ~lapsed PROVE Cardinality(Rebuilding) <= 1
    BY DEF RebuildsExclusive
  <2>1. Rebuilding \in SUBSET {lock}
    BY DEF RebuilderHoldsLock
  <2>2. IsFiniteSet({lock}) /\ Cardinality({lock}) = 1
    BY FS_Singleton
  <2> QED BY <2>1, <2>2, FS_Subset
<1> QED BY <1>1, <1>2, BootTypesInit, BootTypesStep, RebuilderHoldsLockStep, PTL DEF Spec

-----------------------------------------------------------------------------
(* What a ready instance owes its readers.                                 *)

\* Only an instance that is up says why it is ready.
HowIsUp == \A i \in Instance : how[i] \in {"rebuilt", "populated"} => phase[i] = "up"

\* Users a rebuild has read are on the leaderboard or still to be written,
\* and when its loop is over they all are on it.
Covers(i) == /\ how[i] = "rebuilt" => selected[i] \subseteq Holders(zset)
             /\ how[i] = "populated" => Holders(zset) # {}
             /\ phase[i] = "zadd" /\ sound[i]
                    => selected[i] \subseteq Holders(zset) \cup Holders(work[i])
             /\ phase[i] = "unlock" /\ sound[i] => selected[i] \subseteq Holders(zset)

CoverInv == HowIsUp /\ (~lost => \A i \in Instance : Covers(i))

LEMMA HowIsUpStep ==
    ASSUME BootTypes, HowIsUp, [Next]_vars
    PROVE  HowIsUp'
<1> USE BootAssumption
    DEF BootTypes, BootTypeOK, HowIsUp, hookVars, natsVars, redisVars, writerVars, historyVars
<1>1. ASSUME NEW i \in Instance, BootAction(i) PROVE HowIsUp'
  <2>1. CASE Start(i) BY <2>1 DEF Start
  <2>2. CASE AddStream(i) \/ AddConsumer(i)
    BY <2>2 DEF AddStream, AddConsumer, HookEnds
  <2>3. CASE Zcard(i) BY <2>3 DEF Zcard, Up
  <2>4. CASE Lock(i) BY <2>4 DEF Lock, Up
  <2>5. CASE Select(i) BY <2>5 DEF Select
  <2>6. CASE Zadd(i) BY <2>6 DEF Zadd
  <2>7. CASE Unlock(i) BY <2>7 DEF Unlock, Up
  <2>8. CASE RebuildFails(i) BY <2>8 DEF RebuildFails
  <2>9. CASE RedisCallFails(i) BY <2>9 DEF RedisCallFails, Up
  <2>10. CASE Down(i) BY <2>10 DEF Down
  <2> QED BY <1>1, <2>1, <2>2, <2>3, <2>4, <2>5, <2>6, <2>7, <2>8, <2>9, <2>10
          DEF BootAction
<1>2. CASE Writing BY <1>2 DEF Writing, Commit, Upsert
<1>3. CASE LockExpires \/ RedisLoss BY <1>3 DEF LockExpires, RedisLoss, LockGone
<1>4. CASE Aside BY <1>4 DEF Aside
<1> QED BY <1>1, <1>2, <1>3, <1>4, NextShape

\* Nothing but the loss of Redis takes a user off the leaderboard.
LEMMA HoldersGrow ==
    ASSUME BootTypes, [Next]_vars, ~lost'
    PROVE  Holders(zset) \subseteq Holders(zset')
<1> USE BootAssumption
    DEF BootTypes, hookVars, natsVars, redisVars, writerVars, historyVars
<1>1. ASSUME NEW i \in Instance, BootAction(i)
      PROVE  Holders(zset) \subseteq Holders(zset')
  <2>1. FirstRows(work[i], BatchSize) \in Scores
    BY ScoresOfRows
  <2>2. Holders(zset) \subseteq Holders(Zadded(FirstRows(work[i], BatchSize)))
    BY <2>1, ScoresOfZadded
  <2>3. CASE Zadd(i) BY <2>2, <2>3 DEF Zadd
  <2>4. CASE RebuildFails(i) BY <2>2, <2>4 DEF RebuildFails
  <2>5. CASE ~Zadd(i) /\ ~RebuildFails(i)
    BY <1>1, <2>5 DEF BootAction, Start, AddStream, AddConsumer, HookEnds, Zcard, Lock, Up,
                      Select, Unlock, RedisCallFails, Down
  <2> QED BY <2>3, <2>4, <2>5
<1>2. ASSUME NEW credit \in upserts, Upsert(credit)
      PROVE  Holders(zset) \subseteq Holders(zset')
  <2>1. credit.user \in User /\ credit.row \in ScoreRow
    OBVIOUS
  <2> QED BY <1>2, <2>1 DEF Upsert, Holders, Scores
<1>3. CASE \E u \in User : Commit(u) BY <1>3 DEF Commit
<1>4. CASE LockExpires BY <1>4 DEF LockExpires
<1>5. CASE RedisLoss BY <1>5 DEF RedisLoss
<1>6. CASE Aside BY <1>6 DEF Aside
<1> QED BY <1>1, <1>2, <1>3, <1>4, <1>5, <1>6, NextShape DEF Writing

\* A batch moves users from the rows in hand to the leaderboard.
LEMMA BatchIsKept ==
    ASSUME zset \in Scores, NEW scores \in Scores, NEW n
    PROVE  Holders(zset) \cup Holders(scores)
              \subseteq Holders(Zadded(FirstRows(scores, n)))
                            \cup Holders(Rest(scores, FirstRows(scores, n)))
<1>1. FirstRows(scores, n) \in Scores
  BY ScoresOfRows
<1> QED BY <1>1, ScoresOfZadded DEF Rest, Holders

\* The step of an instance keeps its own claim.
LEMMA OwnClaim ==
    ASSUME BootTypes, HowIsUp, NEW i \in Instance, BootAction(i), Covers(i)
    PROVE  Covers(i)'
<1> USE BootAssumption
    DEF BootTypes, BootTypeOK, HowIsUp, Covers, hookVars, natsVars, redisVars, writerVars,
        historyVars
<1>1. CASE Start(i) \/ Down(i) BY <1>1 DEF Start, Down
<1>2. CASE AddStream(i) \/ AddConsumer(i) BY <1>2 DEF AddStream, AddConsumer, HookEnds
<1>3. CASE Zcard(i) BY <1>3 DEF Zcard, Up
<1>4. CASE Lock(i) BY <1>4 DEF Lock, Up
<1>5. CASE Select(i)
  <2>1. /\ work'[i] = FirstRows(table, TopN)
        /\ selected'[i] = Holders(work'[i])
        /\ phase'[i] = (IF Holders(work'[i]) = {} THEN "unlock" ELSE "zadd")
        /\ how'[i] \notin {"rebuilt", "populated"}
    BY <1>5 DEF Select
  <2> QED BY <2>1
<1>6. CASE Zadd(i)
  <2> DEFINE batch == FirstRows(work[i], BatchSize)
  <2>1. /\ zset' = Zadded(batch) /\ work'[i] = Rest(work[i], batch)
        /\ phase'[i] = (IF Holders(work'[i]) = {} THEN "unlock" ELSE "zadd")
        /\ phase[i] = "zadd" /\ sound' = sound /\ selected' = selected
        /\ how'[i] \notin {"rebuilt", "populated"}
    BY <1>6 DEF Zadd
  <2>2. Holders(zset) \cup Holders(work[i]) \subseteq Holders(zset') \cup Holders(work'[i])
    BY <2>1, BatchIsKept
  <2> QED BY <2>1, <2>2
<1>7. CASE Unlock(i) BY <1>7 DEF Unlock, Up
<1>8. CASE RebuildFails(i) BY <1>8 DEF RebuildFails
<1>9. CASE RedisCallFails(i) BY <1>9 DEF RedisCallFails, Up
<1> QED BY <1>1, <1>2, <1>3, <1>4, <1>5, <1>6, <1>7, <1>8, <1>9 DEF BootAction

\* A step leaves the fields of the instances that do not take it.
LEMMA OthersRest ==
    ASSUME BootTypes, NEW i \in Instance, BootAction(i), NEW j \in Instance, j # i
    PROVE  /\ phase'[j] = phase[j] /\ how'[j] = how[j] /\ selected'[j] = selected[j]
           /\ sound'[j] = sound[j] /\ work'[j] = work[j] /\ lost' = lost
BY DEF BootTypes, BootTypeOK, BootAction, hookVars, natsVars, redisVars, writerVars,
       historyVars, Start, AddStream, AddConsumer, HookEnds, Zcard, Lock, Up, Select, Zadd,
       Unlock, RebuildFails, RedisCallFails, Down

LEMMA CoverStep ==
    ASSUME BootTypes, CoverInv, [Next]_vars
    PROVE  CoverInv'
<1>1. HowIsUp'
  BY HowIsUpStep DEF CoverInv
<1>2. ASSUME ~lost', NEW j \in Instance PROVE Covers(j)'
  <2>1. Holders(zset) \subseteq Holders(zset')
    BY <1>2, HoldersGrow
  <2>2. CASE \E i \in Instance : BootAction(i)
    <3>1. PICK i \in Instance : BootAction(i)
      BY <2>2
    <3>2. Covers(j)
      BY <1>2, <3>1 DEF CoverInv, BootAction, Start, AddStream, AddConsumer, HookEnds, Zcard,
                        Lock, Select, Zadd, Unlock, RebuildFails, RedisCallFails, Down,
                        historyVars
    <3>3. CASE i = j BY <3>1, <3>2, <3>3, OwnClaim DEF CoverInv
    <3>4. CASE i # j BY <2>1, <3>1, <3>2, <3>4, OthersRest DEF Covers
    <3> QED BY <3>3, <3>4
  <2>3. CASE Writing \/ LockExpires \/ RedisLoss \/ Aside
    <3>1. /\ phase' = phase /\ how' = how /\ selected' = selected /\ sound' = sound
          /\ work' = work /\ ~lost
      BY <1>2, <2>3 DEF Writing, Commit, Upsert, LockExpires, RedisLoss, LockGone, Aside,
                        hookVars, historyVars
    <3> QED BY <2>1, <3>1 DEF Covers, CoverInv
  <2> QED BY <2>2, <2>3, NextShape
<1> QED BY <1>1, <1>2 DEF CoverInv

\* As long as Redis keeps its data, an instance that reports ready since it
\* has rebuilt the leaderboard has put every user on it that its SELECT gave,
\* and one that found it populated leaves readers no empty one.
THEOREM ReadyIsCovered == Spec => []ReadyMeansCovered
<1>1. Init => CoverInv
  BY BootAssumption DEF Init, InitWith, CoverInv, HowIsUp, Covers
<1>2. CoverInv => ReadyMeansCovered
  BY DEF CoverInv, Covers, ReadyMeansCovered
<1> QED BY <1>1, <1>2, BootTypesInit, BootTypesStep, CoverStep, PTL DEF Spec

-----------------------------------------------------------------------------
(* SSE slots.                                                              *)

\* The streams an instance holds open.
Held(i) == At(i, "wait") \cup At(i, "open")

SlotInv == /\ stage \in [Client -> {"idle", "wait", "open", "closed", "refused"}]
           /\ host \in [Client -> Instance \cup {Absent}]
           /\ conns \in [Instance -> Nat]
           /\ \A c \in Client : stage[c] \in {"wait", "open"} => host[c] \in Instance
           /\ SlotsAreAccounted

\* A step, seen from the slots.
LEMMA SlotsShape ==
    ASSUME [Next]_vars
    PROVE  \/ UNCHANGED <<stage, host, conns>>
           \/ \E c \in Client : Connect(c)
           \/ \E i \in Instance : Subscribe(i) \/ Stop(i)
           \/ \E c \in Client : Cleanup(c) /\ UNCHANGED host
<1> USE StreamAssumption DEF clientVars, streamVars
<1>1. CASE \E i \in Instance : InstanceStep(i)
  BY <1>1 DEF InstanceStep, AttachConsumer
<1>2. CASE (Writing \/ LockExpires \/ RedisLoss) /\ UNCHANGED streamVars
  BY <1>2
<1>3. CASE \E i \in Streamers : ReadTop(i) \/ Subscribe(i) \/ Deliver(i) \/ LoopEnds(i) \/ Stop(i)
  BY <1>3 DEF ReadTop, Deliver, LoopEnds
<1>4. CASE \E c \in Client : Connect(c) \/ ClientStep(c) \/ ClientMoves(c)
  BY <1>4 DEF ClientStep, Flush, WriteError, CloseEvent, TimePasses, SlowTick, ClientMoves
<1>5. CASE Publish BY <1>5 DEF Publish
<1>6. CASE UNCHANGED vars BY <1>6 DEF vars
<1> QED BY <1>1, <1>2, <1>3, <1>4, <1>5, <1>6 DEF Next

LEMMA HeldFinite ==
    ASSUME NEW i
    PROVE  /\ Held(i) \subseteq Client
           /\ IsFiniteSet(Held(i))
           /\ Cardinality(Held(i)) \in Nat
<1>1. Held(i) \in SUBSET Client
  BY DEF Held, At
<1> QED BY <1>1, StreamAssumption, FS_Subset, FS_CardinalityType

LEMMA SlotInvStep ==
    ASSUME SlotInv, [Next]_vars
    PROVE  SlotInv'
<1> USE BootAssumption, StreamAssumption
<1> DEFINE Typed == /\ stage \in [Client -> {"idle", "wait", "open", "closed", "refused"}]
                    /\ host \in [Client -> Instance \cup {Absent}]
                    /\ conns \in [Instance -> Nat]
                    /\ \A c \in Client : stage[c] \in {"wait", "open"} => host[c] \in Instance
           Counted(i) == conns[i] = Cardinality(Held(i)) /\ conns[i] <= MaxConn[i]
<1>1. Typed /\ \A i \in Instance : Counted(i)
  BY DEF SlotInv, SlotsAreAccounted, Held
<1>2. SUFFICES Typed' /\ \A i \in Instance : Counted(i)'
  BY DEF SlotInv, SlotsAreAccounted, Held
<1>3. CASE UNCHANGED <<stage, host, conns>>
  BY <1>1, <1>3 DEF Held, At
<1>4. ASSUME NEW c \in Client, Connect(c) PROVE Typed' /\ \A j \in Instance : Counted(j)'
  <2>1. PICK i \in Instance :
          /\ stage[c] = "idle" /\ host' = [host EXCEPT ![c] = i]
          /\ \/ /\ stage' = [stage EXCEPT ![c] = "refused"] /\ conns' = conns
             \/ /\ conns[i] < MaxConn[i]
                /\ stage' = [stage EXCEPT ![c] = "wait"]
                /\ conns' = [conns EXCEPT ![i] = @ + 1]
    <3>1. PICK i \in Instance :
            /\ stage[c] = "idle" /\ host' = [host EXCEPT ![c] = i]
            /\ IF conns[i] >= MaxConn[i]
               THEN stage' = [stage EXCEPT ![c] = "refused"] /\ conns' = conns
               ELSE /\ stage' = [stage EXCEPT ![c] = "wait"]
                    /\ conns' = [conns EXCEPT ![i] = @ + 1]
      BY <1>4 DEF Connect
    <3>2. conns[i] \in Nat
      BY <1>1
    <3>3. conns[i] >= MaxConn[i] \/ conns[i] < MaxConn[i]
      BY <3>2
    <3> QED BY <3>1, <3>3
  <2>2. Typed'
    BY <1>1, <2>1
  <2>3. CASE stage' = [stage EXCEPT ![c] = "refused"] /\ conns' = conns
    <3>1. \A j \in Instance : Held(j)' = Held(j)
      BY <1>1, <2>1, <2>3 DEF Held, At
    <3> QED BY <1>1, <2>2, <2>3, <3>1
  <2>4. CASE /\ conns[i] < MaxConn[i]
             /\ stage' = [stage EXCEPT ![c] = "wait"]
             /\ conns' = [conns EXCEPT ![i] = @ + 1]
    <3>1. Held(i)' = Held(i) \cup {c} /\ c \notin Held(i)
      BY <1>1, <2>1, <2>4 DEF Held, At
    <3>2. \A j \in Instance : j # i => Held(j)' = Held(j)
      BY <1>1, <2>1, <2>4 DEF Held, At
    <3>3. Cardinality(Held(i)') = Cardinality(Held(i)) + 1
      BY <3>1, HeldFinite, FS_AddElement
    <3>4. Counted(i)'
      BY <1>1, <2>4, <3>3
    <3>5. \A j \in Instance : j # i => Counted(j)'
      BY <1>1, <2>4, <3>2
    <3> QED BY <2>2, <3>4, <3>5
  <2> QED BY <2>1, <2>3, <2>4
<1>5. ASSUME NEW i \in Instance, Subscribe(i)
      PROVE  Typed' /\ \A j \in Instance : Counted(j)'
  <2>1. /\ stage' = [c \in Client |-> IF c \in At(i, "wait") THEN "open" ELSE stage[c]]
        /\ UNCHANGED <<host, conns>>
    BY <1>5 DEF Subscribe
  <2>2. Typed'
    BY <1>1, <2>1 DEF At
  <2>3. \A j \in Instance : Held(j)' = Held(j)
    BY <1>1, <2>1 DEF Held, At
  <2> QED BY <1>1, <2>1, <2>2, <2>3
<1>6. ASSUME NEW i \in Instance, Stop(i)
      PROVE  Typed' /\ \A j \in Instance : Counted(j)'
  <2>1. /\ stage' = [c \in Client |-> IF c \in Held(i) THEN "closed" ELSE stage[c]]
        /\ conns' = [conns EXCEPT ![i] = 0] /\ host' = host
    BY <1>6 DEF Stop, Held
  <2>2. Typed'
    BY <1>1, <2>1
  <2>3. Held(i)' = {} /\ \A j \in Instance : j # i => Held(j)' = Held(j)
    BY <1>1, <2>1 DEF Held, At
  <2>4. Counted(i)'
    BY <1>1, <2>1, <2>3, FS_EmptySet
  <2>5. \A j \in Instance : j # i => Counted(j)'
    BY <1>1, <2>1, <2>3
  <2> QED BY <2>2, <2>4, <2>5
<1>7. ASSUME NEW c \in Client, Cleanup(c), UNCHANGED host
      PROVE  Typed' /\ \A j \in Instance : Counted(j)'
  <2>1. CASE stage[c] # "open"
    BY <1>1, <1>7, <2>1 DEF Cleanup, Held, At
  <2>2. CASE stage[c] = "open"
    <3>0. PICK i \in Instance : host[c] = i
      BY <1>1, <2>2
    <3>1. /\ stage' = [stage EXCEPT ![c] = "closed"]
          /\ conns' = [conns EXCEPT ![i] = @ - 1]
      BY <1>7, <2>2, <3>0 DEF Cleanup
    <3>2. Held(i)' = Held(i) \ {c} /\ c \in Held(i)
      BY <1>1, <1>7, <2>2, <3>0, <3>1 DEF Held, At
    <3>3. \A j \in Instance : j # i => Held(j)' = Held(j)
      BY <1>1, <1>7, <2>2, <3>0, <3>1 DEF Held, At
    <3>4. /\ Cardinality(Held(i)') = Cardinality(Held(i)) - 1
          /\ Cardinality(Held(i)') \in Nat
      BY <3>2, HeldFinite, FS_RemoveElement, FS_CardinalityType
    <3>5. Counted(i)' /\ conns'[i] \in Nat
      BY <1>1, <3>1, <3>4
    <3>6. Typed'
      BY <1>1, <1>7, <3>1, <3>5
    <3>7. \A j \in Instance : j # i => Counted(j)'
      BY <1>1, <3>1, <3>3
    <3> QED BY <3>5, <3>6, <3>7
  <2> QED BY <2>1, <2>2
<1> QED BY <1>3, <1>4, <1>5, <1>6, <1>7, SlotsShape

\* The counter of an instance is the number of streams it holds open and
\* within the cap, whatever comes to release a stream, and how often.
THEOREM SlotsAddUp == Spec => []SlotsAreAccounted
<1>1. Init => SlotInv
  <2> SUFFICES ASSUME Init PROVE SlotInv
    OBVIOUS
  <2>1. \A i \in Instance : At(i, "wait") \cup At(i, "open") = {}
    BY DEF Init, At
  <2>2. (\A i \in Instance : 0 <= MaxConn[i]) /\ Cardinality({}) = 0
    BY StreamAssumption, FS_EmptySet
  <2>3. SlotsAreAccounted
    BY <2>1, <2>2 DEF Init, SlotsAreAccounted
  <2> QED BY <2>3 DEF Init, SlotInv
<1>2. SlotInv => SlotsAreAccounted
  BY DEF SlotInv
<1> QED BY <1>1, <1>2, SlotInvStep, PTL DEF Spec

=============================================================================
