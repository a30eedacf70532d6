--------------------------- MODULE LeaderboardBoot --------------------------
(***************************************************************************)
(* How an instance of the scoreboard comes up: the boot hooks that create  *)
(* the SCOREBOARD stream and the instance's consumer, and the rebuild of   *)
(* an empty leaderboard (a ZSET in Redis) from Postgres under a lock with  *)
(* a TTL, while handlers of the instances that are up go on writing both.  *)
(* An instance accepts requests only when all its hooks are over.          *)
(***************************************************************************)
EXTENDS Naturals, FiniteSets

CONSTANTS Instance, User,
          Absent,
          InitialTable,  \* user_scores at the start
          InitialCaches, \* what the ZSET may be at the start
          TopN,          \* LEADERBOARD_REBUILD_TOP_N
          BatchSize,     \* BATCH_SIZE (1000; smaller here)
          MaxCommit,     \* bound: credits committed
          MaxFault       \* bound: failures, crashes, losses

\* A row of user_scores.
ScoreRow == [total : Nat, updated : Nat]

ASSUME BootAssumption ==
    /\ TopN \in Nat /\ BatchSize \in Nat \ {0}
    /\ MaxCommit \in Nat /\ MaxFault \in Nat
    /\ Absent \notin Instance \cup ScoreRow \cup {"rebuilt", "populated", "skipped"}
    /\ InitialTable \in [User -> ScoreRow \cup {Absent}]
    /\ InitialCaches \subseteq [User -> ScoreRow \cup {Absent}]

VARIABLES
    phase,     \* of each instance
    hooks,     \* its NATS hooks that are not over
    ready,     \* readiness.leaderboardReady
    work,      \* rows its rebuild has read and not yet written
    sound,     \* its rebuild has not failed
    stream,    \* JetStream: SCOREBOARD exists
    consumer,  \* the instance's consume loop
    lock,      \* Redis: the rebuild lock
    zset,      \* Redis: the leaderboard
    table,     \* Postgres: user_scores
    upserts,   \* committed credits whose ZADD is not made yet
    commits, faults,
    how,       \* history: why it is ready
    selected,  \* history: users its last rebuild has read
    lapsed,    \* history: the lock has gone while a rebuild ran
    lost       \* history: Redis has lost its data

hookVars    == <<phase, hooks, ready, work, sound>>
natsVars    == <<stream, consumer>>
redisVars   == <<lock, zset>>
writerVars  == <<table, upserts, commits>>
historyVars == <<how, selected, lapsed, lost>>
bootVars    == <<hookVars, natsVars, redisVars, writerVars, faults, historyVars>>

Nothing == [u \in User |-> Absent]

Holders(scores) == {u \in User : scores[u] # Absent}

\* Some instances are up, with a consumer each and a complete leaderboard.
InitWith(running) ==
    LET Runs(x, y) == [i \in Instance |-> IF i \in running THEN x ELSE y] IN
    /\ phase = Runs("up", "down")
    /\ hooks = [i \in Instance |-> {}]
    /\ ready = Runs(TRUE, FALSE)
    /\ work = [i \in Instance |-> Nothing]
    /\ sound = [i \in Instance |-> TRUE]
    /\ stream = (running # {})
    /\ consumer = Runs("live", "none")
    /\ lock = Absent
    /\ zset \in IF running = {} THEN InitialCaches ELSE {InitialTable}
    /\ table = InitialTable
    /\ upserts = {}
    /\ commits = 0 /\ faults = 0
    /\ how = [i \in Instance |-> Absent]
    /\ selected = [i \in Instance |-> {}]
    /\ lapsed = FALSE /\ lost = FALSE

BootInit == InitWith({})

Fault == faults < MaxFault /\ faults' = faults + 1

Rebuilding == {i \in Instance : phase[i] \in {"select", "zadd", "unlock"}}

---------------------------------------------------------------------------
(* NATS hooks, in one boot phase: neither waits for the other *)

Start(i) == /\ phase[i] = "down"
            /\ phase' = [phase EXCEPT ![i] = "nats"]
            /\ hooks' = [hooks EXCEPT ![i] = {"stream", "consumer"}]
            /\ ready' = [ready EXCEPT ![i] = FALSE]
            /\ how' = [how EXCEPT ![i] = Absent]
            /\ UNCHANGED <<work, sound, natsVars, redisVars, writerVars, faults,
                           selected, lapsed, lost>>

HookEnds(i, hook) ==
    /\ hook \in hooks[i]
    /\ hooks' = [hooks EXCEPT ![i] = @ \ {hook}]
    /\ phase' = [phase EXCEPT ![i] = IF hooks'[i] = {} THEN "zcard" ELSE "nats"]
    /\ UNCHANGED <<ready, work, sound, redisVars, writerVars, historyVars>>

\* streams.add; of a stream that exists only the drift is logged.
AddStream(i) == /\ HookEnds(i, "stream")
                /\ stream' = TRUE
                /\ UNCHANGED <<consumer, faults>>

\* consumers.add and get, and the loop: without a stream, or when NATS fails,
\* the error is logged and the boot goes on.
AddConsumer(i) ==
    /\ HookEnds(i, "consumer")
    /\ UNCHANGED stream
    /\ \/ /\ consumer' = [consumer EXCEPT ![i] = IF stream THEN "live" ELSE "none"]
          /\ UNCHANGED faults
       \/ Fault /\ UNCHANGED consumer

---------------------------------------------------------------------------
(* The rebuild hook *)

\* The hook is over, and with it the boot.
Up(i, isReady, why) ==
    /\ phase' = [phase EXCEPT ![i] = "up"]
    /\ ready' = [ready EXCEPT ![i] = isReady]
    /\ how' = [how EXCEPT ![i] = why]

Zcard(i) == /\ phase[i] = "zcard"
            /\ IF Holders(zset) = {}
               THEN /\ phase' = [phase EXCEPT ![i] = "lock"]
                    /\ UNCHANGED <<ready, how>>
               ELSE Up(i, TRUE, "populated")
            /\ UNCHANGED <<hooks, work, sound, natsVars, redisVars, writerVars, faults,
                           selected, lapsed, lost>>

\* Mutant: an instance that finds the lock taken waits for it.
LockWaits(i) == /\ phase[i] = "lock" /\ lock = Absent
                /\ lock' = i
                /\ phase' = [phase EXCEPT ![i] = "select"]
                /\ sound' = [sound EXCEPT ![i] = TRUE]
                /\ UNCHANGED <<ready, how, hooks, work, natsVars, zset, writerVars,
                               faults, selected, lapsed, lost>>

\* Mutant: an instance that finds the lock taken deletes it on its way out.
LockReleased(i) == /\ phase[i] = "lock"
                   /\ IF lock = Absent
                      THEN /\ lock' = i
                           /\ phase' = [phase EXCEPT ![i] = "select"]
                           /\ sound' = [sound EXCEPT ![i] = TRUE]
                           /\ UNCHANGED <<ready, how>>
                      ELSE /\ Up(i, TRUE, "skipped")
                           /\ lock' = Absent
                           /\ UNCHANGED sound
                   /\ UNCHANGED <<hooks, work, natsVars, zset, writerVars, faults,
                                  selected, lapsed, lost>>

\* SET NX EX: another's lock means that another rebuilds, and is enough.
Lock(i) == /\ phase[i] = "lock"
           /\ IF lock = Absent
              THEN /\ lock' = i
                   /\ phase' = [phase EXCEPT ![i] = "select"]
                   /\ sound' = [sound EXCEPT ![i] = TRUE]
                   /\ UNCHANGED <<ready, how>>
              ELSE /\ Up(i, TRUE, "skipped")
                   /\ UNCHANGED <<lock, sound>>
           /\ UNCHANGED <<hooks, work, natsVars, zset, writerVars, faults,
                          selected, lapsed, lost>>

\* ORDER BY total_score DESC, updated_at ASC
Precedes(u, v, scores) ==
    \/ scores[u].total > scores[v].total
    \/ scores[u].total = scores[v].total /\ scores[u].updated < scores[v].updated

\* The first n rows of some.
FirstRows(scores, n) ==
    [u \in User |->
        IF /\ scores[u] # Absent
           /\ Cardinality({v \in Holders(scores) : Precedes(v, u, scores)}) < n
        THEN scores[u] ELSE Absent]

Select(i) == /\ phase[i] = "select"
             /\ work' = [work EXCEPT ![i] = FirstRows(table, TopN)]
             /\ selected' = [selected EXCEPT ![i] = Holders(FirstRows(table, TopN))]
             /\ phase' = [phase EXCEPT ![i] = IF Holders(work'[i]) = {}
                                              THEN "unlock" ELSE "zadd"]
             /\ UNCHANGED <<hooks, ready, sound, natsVars, redisVars, writerVars, faults,
                            how, lapsed, lost>>

\* ZADD of rows.
Zadded(scores) == [u \in User |-> IF scores[u] # Absent THEN scores[u] ELSE zset[u]]

Rest(scores, batch) == [u \in User |-> IF batch[u] # Absent THEN Absent ELSE scores[u]]

\* Mutant: the loop ends one batch early.
ZaddShort(i) ==
    LET batch == FirstRows(work[i], BatchSize)
        rest  == Rest(work[i], batch)
        last  == Cardinality(Holders(rest)) <= BatchSize
    IN  /\ phase[i] = "zadd"
        /\ zset' = Zadded(batch)
        /\ work' = [work EXCEPT ![i] = IF last THEN Nothing ELSE rest]
        /\ phase' = [phase EXCEPT ![i] = IF last THEN "unlock" ELSE "zadd"]
        /\ UNCHANGED <<hooks, ready, sound, natsVars, lock, writerVars, faults, historyVars>>

\* One MULTI of a batch.
Zadd(i) ==
    LET batch == FirstRows(work[i], BatchSize)
        rest  == Rest(work[i], batch)
    IN  /\ phase[i] = "zadd"
        /\ zset' = Zadded(batch)
        /\ work' = [work EXCEPT ![i] = rest]
        /\ phase' = [phase EXCEPT ![i] = IF Holders(rest) = {} THEN "unlock" ELSE "zadd"]
        /\ UNCHANGED <<hooks, ready, sound, natsVars, lock, writerVars, faults, historyVars>>

\* finally: DEL of the lock, whoever has set it.
Unlock(i) == /\ phase[i] = "unlock"
             /\ lock' = Absent
             /\ Up(i, sound[i], IF sound[i] THEN "rebuilt" ELSE Absent)
             /\ UNCHANGED <<hooks, work, sound, natsVars, zset, writerVars, faults,
                            selected, lapsed, lost>>

---------------------------------------------------------------------------
(* Failures of the rebuild hook: the boot goes on, and is not ready *)

\* Mutant: the rows that were read are not dropped when a batch fails.
RebuildFailsDirty(i) ==
    /\ phase[i] \in {"select", "zadd"} /\ Fault
    /\ sound' = [sound EXCEPT ![i] = FALSE]
    /\ phase' = [phase EXCEPT ![i] = "unlock"]
    /\ UNCHANGED <<work, hooks, ready, natsVars, redisVars, writerVars, historyVars>>

\* SELECT or a batch fails, or the batch is done and its answer lost; the
\* lock is still deleted.
RebuildFails(i) ==
    /\ phase[i] \in {"select", "zadd"} /\ Fault
    /\ sound' = [sound EXCEPT ![i] = FALSE]
    /\ phase' = [phase EXCEPT ![i] = "unlock"]
    /\ work' = [work EXCEPT ![i] = Nothing]
    /\ zset' \in {zset, Zadded(FirstRows(work[i], BatchSize))}
    /\ UNCHANGED <<hooks, ready, natsVars, lock, writerVars, historyVars>>

\* ZCARD, SET or DEL fails, or SET is done and its answer lost.
RedisCallFails(i) ==
    /\ phase[i] \in {"zcard", "lock", "unlock"} /\ Fault
    /\ Up(i, FALSE, Absent)
    /\ lock' \in {lock} \cup IF phase[i] = "lock" /\ lock = Absent THEN {i} ELSE {}
    /\ UNCHANGED <<hooks, work, sound, natsVars, zset, writerVars, selected, lapsed, lost>>

---------------------------------------------------------------------------
(* Handlers of the instances that are up *)

Commit(u) ==
    /\ \E i \in Instance : phase[i] = "up"
    /\ commits < MaxCommit
    /\ commits' = commits + 1
    /\ LET row == [total   |-> IF table[u] = Absent THEN 1 ELSE table[u].total + 1,
                   updated |-> 10 + commits]
       IN  /\ table' = [table EXCEPT ![u] = row]
           /\ upserts' = upserts \cup {[user |-> u, row |-> row]}
    /\ UNCHANGED <<hookVars, natsVars, redisVars, faults, historyVars>>

\* The ZADD of a credit, in any order; or it fails, which nobody hears of.
Upsert(credit) ==
    /\ upserts' = upserts \ {credit}
    /\ \/ /\ zset' = [zset EXCEPT ![credit.user] = credit.row]
          /\ UNCHANGED faults
       \/ Fault /\ UNCHANGED zset
    /\ UNCHANGED <<hookVars, natsVars, lock, table, commits, historyVars>>

---------------------------------------------------------------------------
(* Redis and crashes *)

LockGone == /\ lock' = Absent
            /\ lapsed' = (lapsed \/ Rebuilding # {})

\* 300 s have passed.
LockExpires == /\ lock # Absent
               /\ LockGone
               /\ UNCHANGED <<hookVars, natsVars, zset, writerVars, faults, how,
                              selected, lost>>

RedisLoss == /\ Fault
             /\ LockGone
             /\ zset' = Nothing
             /\ lost' = TRUE
             /\ UNCHANGED <<hookVars, natsVars, writerVars, how, selected>>

\* A crash, an error in AddStream that ends the boot, or a stop.
Down(i) == /\ phase[i] # "down" /\ Fault
           /\ phase' = [phase EXCEPT ![i] = "down"]
           /\ hooks' = [hooks EXCEPT ![i] = {}]
           /\ work' = [work EXCEPT ![i] = Nothing]
           /\ ready' = [ready EXCEPT ![i] = FALSE]
           /\ consumer' = [consumer EXCEPT ![i] = "none"]
           /\ how' = [how EXCEPT ![i] = Absent]
           /\ UNCHANGED <<sound, stream, redisVars, writerVars, selected, lapsed, lost>>

BootStep(i) == \/ AddStream(i) \/ AddConsumer(i) \/ Zcard(i) \/ Lock(i) \/ Select(i)
               \/ Zadd(i) \/ Unlock(i) \/ RebuildFails(i) \/ RedisCallFails(i)

Writing == \/ \E u \in User : Commit(u)
           \/ \E credit \in upserts : Upsert(credit)

BootNext == \/ \E i \in Instance : Start(i) \/ BootStep(i) \/ Down(i)
            \/ Writing \/ LockExpires \/ RedisLoss

\* No boot waits for ever for an answer; nothing is assumed of the lock's TTL.
BootFairness == \A i \in Instance : WF_bootVars(BootStep(i))

BootSpec == BootInit /\ [][BootNext]_bootVars /\ BootFairness

---------------------------------------------------------------------------
(* Properties *)

\* The pings of Postgres and Redis succeed; that of NATS asks for the stream.
PingsSucceed == stream

\* GET /ready is 200: every ping succeeds and the leaderboard's flag is set.
\* The consumer is not asked about.
ReadyAnswers(i) == phase[i] = "up" /\ PingsSucceed /\ ready[i]

\* Types, and that a rebuild holds rows only while it writes them.
BootTypeOK ==
    /\ phase \in [Instance -> {"down", "nats", "zcard", "lock", "select", "zadd",
                               "unlock", "up"}]
    /\ hooks \in [Instance -> SUBSET {"stream", "consumer"}]
    /\ ready \in [Instance -> BOOLEAN] /\ sound \in [Instance -> BOOLEAN]
    /\ stream \in BOOLEAN /\ lapsed \in BOOLEAN /\ lost \in BOOLEAN
    /\ consumer \in [Instance -> {"none", "live", "ended", "dead"}]
    /\ lock \in Instance \cup {Absent}
    /\ commits \in 0 .. MaxCommit /\ faults \in 0 .. MaxFault
    /\ selected \in [Instance -> SUBSET User]
    /\ \A i \in Instance : /\ (hooks[i] # {}) <=> (phase[i] = "nats")
                           /\ (work[i] # Nothing) <=> (phase[i] = "zadd")

\* Two instances never rebuild at a time, unless a rebuild outlived its lock
\* or Redis lost it: whoever dies, skips, fails or restarts in whatever order.
RebuildsExclusive == ~lapsed => Cardinality(Rebuilding) <= 1

\* As long as Redis keeps its data, an instance that reports ready since it
\* has rebuilt the leaderboard has put every user on it that its SELECT gave,
\* and one that found it populated leaves readers no empty one.  Of an
\* instance that skipped the rebuild nothing is said.
ReadyMeansCovered ==
    ~lost => \A i \in Instance : ReadyAnswers(i) =>
        /\ how[i] = "rebuilt" => selected[i] \subseteq Holders(zset)
        /\ how[i] = "populated" => Holders(zset) # {}

\* Whatever the others hold or left behind, an instance that boots gets to
\* serve, or goes down.
BootEnds == \A i \in Instance : []<>(phase[i] \in {"down", "up"})
============================================================================
