---------------------------- MODULE OutboxLease ----------------------------
(***************************************************************************)
(* Leader election of the outbox publisher (OutboxPublisherService): the   *)
(* Redis key outbox:lock, each instance's outer and inner loop, its        *)
(* heartbeat timer and its shutdown hook.  What a batch does is left to    *)
(* OutboxPublisher; here it only has a beginning and an end.               *)
(*                                                                         *)
(* The lock's TTL is not a clock: the key may vanish (Expire) when nobody  *)
(* renews it, and also under its owner once a heartbeat tick has failed,   *)
(* since ticks are ttl/2 apart and the next one comes when the TTL is over *)
(* as well.  At most MaxFault times, together with the other faults, it    *)
(* vanishes while it is renewed (Lapse: a stalled event loop, a pause or a *)
(* data loss of Redis).  An instance id is a fresh UUID per process, so    *)
(* the value left by a dead process is no instance's: it becomes Dead.     *)
(***************************************************************************)
EXTENDS Naturals, FiniteSets

CONSTANTS Instance,
          Free, Dead,   \* lock values that are no running process's id
          MaxTick,      \* bound: heartbeat ticks of one process in flight
          MaxFault,     \* bound: lapses, Redis errors and drain timeouts
          MaxRestart    \* bound: starts of an instance after its first

ASSUME LeaseAssumption ==
    /\ Free \notin Instance /\ Dead \notin Instance /\ Free # Dead
    /\ MaxTick \in Nat \ {0} /\ MaxFault \in Nat /\ MaxRestart \in Nat

VARIABLES lock,      \* outbox:lock
          running,   \* this.running
          isLeader,  \* this.isLeader
          loop,      \* where runOuterLoop is
          timer,     \* heartbeatInterval is set
          tick,      \* ticks that have read the lock and not yet renewed it
          stop,      \* where onApplicationShutdown is
          faults,    \* faults so far
          restarts,  \* starts so far, per instance
          overdue,   \* a tick of the owner has failed since the key was set
          unseen,    \* history: the key went from i and no tick has read it
          lapsed     \* history: the key has vanished while its owner relied
                     \* on it, or a drain has timed out

keyHistory == <<overdue, unseen, lapsed>>
leaseVars  == <<lock, running, isLeader, loop, timer, tick, stop, faults, restarts,
                keyHistory>>

Loop == {"down", "acquire", "acquired", "sleep", "poll", "batch", "ended"}
Stop == {"no", "drain", "read", "del", "done"}

LeaseInit == /\ lock = Free
             /\ running = [i \in Instance |-> FALSE]
             /\ isLeader = [i \in Instance |-> FALSE]
             /\ loop = [i \in Instance |-> "down"]
             /\ timer = [i \in Instance |-> FALSE]
             /\ tick = [i \in Instance |-> 0]
             /\ stop = [i \in Instance |-> "no"]
             /\ faults = 0
             /\ restarts = [i \in Instance |-> 0]
             /\ overdue = FALSE
             /\ unseen = [i \in Instance |-> FALSE]
             /\ lapsed = FALSE

Fault == faults < MaxFault /\ faults' = faults + 1

\* From the reply of SET NX to the end of the inner loop.
AtWork(i) == loop[i] \in {"acquired", "poll", "batch"}

\* The key is set to k with a whole TTL, or it goes (k = Free).
PutKey(k) == /\ lock' = k
             /\ overdue' = FALSE
             /\ unseen' = [i \in Instance |->
                             i # k /\ IF lock = i THEN AtWork(i) ELSE unseen[i]]

-----------------------------------------------------------------------------
(* The process.                                                            *)

\* onApplicationBootstrap in a new process.
Start(i) == /\ loop[i] = "down" /\ restarts[i] <= MaxRestart
            /\ restarts' = [restarts EXCEPT ![i] = @ + 1]
            /\ running' = [running EXCEPT ![i] = TRUE]
            /\ loop' = [loop EXCEPT ![i] = "acquire"]
            /\ UNCHANGED <<lock, isLeader, timer, tick, stop, faults, keyHistory>>

\* The process ends, by a crash, main.ts's forced exit or after its hooks.
Exit(i) == /\ loop[i] # "down"
           /\ lock' = IF lock = i THEN Dead ELSE lock
           /\ running' = [running EXCEPT ![i] = FALSE]
           /\ isLeader' = [isLeader EXCEPT ![i] = FALSE]
           /\ loop' = [loop EXCEPT ![i] = "down"]
           /\ timer' = [timer EXCEPT ![i] = FALSE]
           /\ tick' = [tick EXCEPT ![i] = 0]
           /\ stop' = [stop EXCEPT ![i] = "no"]
           /\ overdue' = (overdue /\ lock # i)
           /\ unseen' = [unseen EXCEPT ![i] = FALSE]
           /\ UNCHANGED <<faults, restarts, lapsed>>

-----------------------------------------------------------------------------
(* The key's TTL.                                                          *)

\* The owner's process counts on the key: it publishes or is about to, a
\* tick has read the key, or the shutdown has and sends the DEL.
Relied == lock \in Instance /\ (AtWork(lock) \/ tick[lock] > 0 \/ stop[lock] = "del")

\* The owner has just set the key, or its heartbeat extends it, or its
\* shutdown has read it and sends the DEL: unless a tick has failed, little
\* more than ttl/2 has passed since the key was last set.
Renewed == /\ lock \in Instance /\ ~overdue
           /\ \/ loop[lock] = "acquired" \/ timer[lock] \/ tick[lock] > 0
              \/ stop[lock] = "del"

Expire == /\ lock # Free /\ ~Renewed
          /\ PutKey(Free)
          /\ lapsed' = (lapsed \/ Relied)
          /\ UNCHANGED <<running, isLeader, loop, timer, tick, stop, faults, restarts>>

Lapse == /\ Renewed /\ Fault
         /\ PutKey(Free)
         /\ lapsed' = TRUE
         /\ UNCHANGED <<running, isLeader, loop, timer, tick, stop, restarts>>

-----------------------------------------------------------------------------
(* runOuterLoop and tryAcquireLeadership.                                  *)

\* SET outbox:lock <id> EX ttl NX
SetNx(i) == /\ loop[i] = "acquire"
            /\ IF lock = Free
               THEN PutKey(i) /\ loop' = [loop EXCEPT ![i] = "acquired"]
               ELSE /\ loop' = [loop EXCEPT ![i] = "sleep"]
                    /\ UNCHANGED <<lock, overdue, unseen>>
            /\ UNCHANGED <<running, isLeader, timer, tick, stop, faults, restarts, lapsed>>

\* The SET fails, applied or not; the outer loop logs it and sleeps.
SetNxFails(i) == /\ loop[i] = "acquire" /\ Fault
                 /\ \/ lock = Free /\ PutKey(i)
                    \/ UNCHANGED <<lock, overdue, unseen>>
                 /\ loop' = [loop EXCEPT ![i] = "sleep"]
                 /\ UNCHANGED <<running, isLeader, timer, tick, stop, restarts, lapsed>>

\* isLeader = true and startHeartbeat.
Lead(i) == /\ loop[i] = "acquired"
           /\ isLeader' = [isLeader EXCEPT ![i] = TRUE]
           /\ timer' = [timer EXCEPT ![i] = TRUE]
           /\ loop' = [loop EXCEPT ![i] = "poll"]
           /\ UNCHANGED <<lock, running, tick, stop, faults, restarts, keyHistory>>

\* Mutant: leadership is given up for good.
OuterLoopOnce(i) == "ended"

\* while (this.running)
OuterLoop(i) == IF running[i] THEN "acquire" ELSE "ended"

Wake(i) == /\ loop[i] = "sleep"
           /\ loop' = [loop EXCEPT ![i] = OuterLoop(i)]
           /\ UNCHANGED <<lock, running, isLeader, timer, tick, stop, faults, restarts,
                          keyHistory>>

\* Mutant: the inner loop only looks at this.running.
MayPollForever(i) == running[i]

MayPoll(i) == running[i] /\ isLeader[i]

\* The condition of runInnerLoop, after the sleep of the previous round.
StartBatch(i) == /\ loop[i] = "poll" /\ MayPoll(i)
                 /\ loop' = [loop EXCEPT ![i] = "batch"]
                 /\ UNCHANGED <<lock, running, isLeader, timer, tick, stop, faults,
                                restarts, keyHistory>>

EndBatch(i) == /\ loop[i] = "batch"
               /\ loop' = [loop EXCEPT ![i] = "poll"]
               /\ UNCHANGED <<lock, running, isLeader, timer, tick, stop, faults,
                              restarts, keyHistory>>

\* Mutant: clearInterval is forgotten.
HeartbeatGoesOn(i) == timer

stopHeartbeat(i) == [timer EXCEPT ![i] = FALSE]

\* The inner loop ends: isLeader = false, stopHeartbeat, and the outer loop
\* goes on.  The key is not deleted, and a tick already under way goes on.
Relinquish(i) == /\ loop[i] = "poll" /\ ~MayPoll(i)
                 /\ isLeader' = [isLeader EXCEPT ![i] = FALSE]
                 /\ timer' = stopHeartbeat(i)
                 /\ loop' = [loop EXCEPT ![i] = OuterLoop(i)]
                 /\ unseen' = [unseen EXCEPT ![i] = FALSE]
                 /\ UNCHANGED <<lock, running, tick, stop, faults, restarts, overdue, lapsed>>

-----------------------------------------------------------------------------
(* The heartbeat, every ttl/2: GET, then SET XX in a later step.           *)

\* setInterval starts a tick whatever is in flight; MaxTick is a bound of the
\* model only.
MayTick(i) == timer[i] /\ tick[i] < MaxTick

HeartbeatGet(i) == /\ MayTick(i)
                   /\ IF lock = i
                      THEN tick' = [tick EXCEPT ![i] = @ + 1] /\ UNCHANGED isLeader
                      ELSE /\ isLeader' = [isLeader EXCEPT ![i] = FALSE]
                           /\ UNCHANGED tick
                   /\ unseen' = [unseen EXCEPT ![i] = FALSE]
                   /\ UNCHANGED <<lock, running, loop, timer, stop, faults, restarts,
                                  overdue, lapsed>>

\* XX only asks that some value is there: the key may be another's by now.
\* The one connection answers in order: the reply to a SET NX sent before
\* this SET is handled first.
HeartbeatSet(i) == /\ tick[i] > 0 /\ loop[i] # "acquired"
                   /\ tick' = [tick EXCEPT ![i] = @ - 1]
                   /\ IF lock = Free
                      THEN /\ isLeader' = [isLeader EXCEPT ![i] = FALSE]
                           /\ unseen' = [unseen EXCEPT ![i] = FALSE]
                           /\ UNCHANGED <<lock, overdue>>
                      ELSE PutKey(i) /\ UNCHANGED isLeader
                   /\ UNCHANGED <<running, loop, timer, stop, faults, restarts, lapsed>>

\* The GET or the SET fails; the error is logged and the tick is over.  The
\* SET may have been applied all the same; if not, the key is not renewed.
HeartbeatFails(i) == /\ Fault
                     /\ \/ MayTick(i) /\ UNCHANGED tick
                        \/ tick[i] > 0 /\ tick' = [tick EXCEPT ![i] = @ - 1]
                     /\ \/ tick' # tick /\ lock # Free /\ PutKey(i)
                        \/ /\ overdue' = (overdue \/ lock = i)
                           /\ UNCHANGED <<lock, unseen>>
                     /\ UNCHANGED <<running, isLeader, loop, timer, stop, restarts, lapsed>>

-----------------------------------------------------------------------------
(* onApplicationShutdown.                                                  *)

Shutdown(i) == /\ loop[i] # "down" /\ stop[i] = "no"
               /\ running' = [running EXCEPT ![i] = FALSE]
               /\ stop' = [stop EXCEPT ![i] = "drain"]
               /\ UNCHANGED <<lock, isLeader, loop, timer, tick, faults, restarts,
                              keyHistory>>

\* Mutant: the hook does not wait for the inner loop.
DrainOverAtOnce(i) == TRUE

DrainOver(i) == ~isLeader[i]

Drained(i) == /\ stop[i] = "drain" /\ DrainOver(i)
              /\ stop' = [stop EXCEPT ![i] = "read"]
              /\ timer' = stopHeartbeat(i)
              /\ UNCHANGED <<lock, running, isLeader, loop, tick, faults, restarts,
                             keyHistory>>

\* 30 s have passed and the inner loop is still at work.
DrainTimeout(i) == /\ stop[i] = "drain" /\ isLeader[i] /\ Fault
                   /\ stop' = [stop EXCEPT ![i] = "read"]
                   /\ timer' = stopHeartbeat(i)
                   /\ lapsed' = TRUE
                   /\ UNCHANGED <<lock, running, isLeader, loop, tick, restarts, overdue,
                                  unseen>>

ReleaseGet(i) == /\ stop[i] = "read"
                 /\ stop' = [stop EXCEPT ![i] = IF lock = i THEN "del" ELSE "done"]
                 /\ UNCHANGED <<lock, running, isLeader, loop, timer, tick, faults,
                                restarts, keyHistory>>

\* DEL is unconditional: it removes whatever the key holds by now.  The
\* process has one connection, so a tick that read the key before sends its
\* SET before the DEL.
ReleaseDel(i) == /\ stop[i] = "del" /\ tick[i] = 0
                 /\ stop' = [stop EXCEPT ![i] = "done"]
                 /\ PutKey(Free)
                 /\ UNCHANGED <<running, isLeader, loop, timer, tick, faults, restarts,
                                lapsed>>

ReleaseFails(i) == /\ stop[i] \in {"read", "del"} /\ Fault
                   /\ stop' = [stop EXCEPT ![i] = "done"]
                   /\ UNCHANGED <<lock, running, isLeader, loop, timer, tick, restarts,
                                  keyHistory>>

-----------------------------------------------------------------------------

\* What an instance's own code does, in a process that stays alive.
LeaseCode(i) == \/ SetNx(i) \/ Lead(i) \/ Wake(i) \/ StartBatch(i) \/ Relinquish(i)
                \/ Drained(i) \/ ReleaseGet(i) \/ ReleaseDel(i)

LeaseHeartbeat(i) == HeartbeatGet(i) \/ HeartbeatSet(i)

LeaseFaults(i) == SetNxFails(i) \/ HeartbeatFails(i) \/ DrainTimeout(i) \/ ReleaseFails(i)

\* Everything but the batch itself and the end of the process, which also
\* touch the state of OutboxPublisher.
LeaseStep == \/ Expire \/ Lapse
             \/ \E i \in Instance : \/ Start(i) \/ Shutdown(i) \/ LeaseCode(i)
                                    \/ LeaseHeartbeat(i) \/ LeaseFaults(i)

LeaseNext == LeaseStep \/ \E i \in Instance : EndBatch(i) \/ Exit(i)

LeaseSpec == LeaseInit /\ [][LeaseNext]_leaseVars

\* Redis expires keys; loops, timers and hooks of a live process run, and a
\* batch ends because each of its calls has a timeout.  Nothing makes a
\* process start, stop or fail.
LeaseFairness == /\ WF_leaseVars(Expire)
                 /\ \A i \in Instance : /\ WF_leaseVars(LeaseCode(i))
                                        /\ WF_leaseVars(HeartbeatGet(i))
                                        /\ WF_leaseVars(HeartbeatSet(i))
                                        /\ WF_leaseVars(EndBatch(i))

LeaseFairSpec == LeaseSpec /\ LeaseFairness

-----------------------------------------------------------------------------
(* Properties.                                                             *)

\* Each field of the service and the Redis key keep their shapes; the
\* heartbeat's timer and the leader's flag are up only beside an inner loop.
LeaseTypeOK ==
    /\ lock \in Instance \cup {Free, Dead}
    /\ running \in [Instance -> BOOLEAN]
    /\ isLeader \in [Instance -> BOOLEAN]
    /\ loop \in [Instance -> Loop]
    /\ timer \in [Instance -> BOOLEAN]
    /\ tick \in [Instance -> 0 .. MaxTick]
    /\ stop \in [Instance -> Stop]
    /\ faults \in 0 .. MaxFault
    /\ restarts \in [Instance -> 0 .. MaxRestart + 1]
    /\ overdue \in BOOLEAN
    /\ unseen \in [Instance -> BOOLEAN]
    /\ lapsed \in BOOLEAN
    /\ \A i \in Instance : timer[i] \/ isLeader[i] => loop[i] \in {"poll", "batch"}

AtMostOneBatch ==
    \A i, j \in Instance : loop[i] = "batch" /\ loop[j] = "batch" => i = j

\* The lock, the GET-then-SET heartbeat, the shutdown and restarts keep two
\* instances from publishing at the same time until the key vanishes under an
\* instance that relies on it, or a shutdown gives up waiting for its batch.
\* A Redis error in the acquisition or the release does no harm.  One in a
\* heartbeat tick may: the key is then no longer renewed in time.
ExclusiveUnlessLapsed == lapsed \/ AtMostOneBatch

\* What bounds the harm of a lost key, however it was lost: an instance goes
\* on with the batch at hand, and may begin others as long as no tick of its
\* heartbeat has read the key since, but never one after that.
LossEndsBatches ==
    [][\A i \in Instance : StartBatch(i) => lock = i \/ unseen[i]]_leaseVars

\* A split brain does not last: the heartbeats find the one owner, provided
\* that now and then no tick is in flight (two ticks that overlapped for ever
\* would take the key from each other for ever; the code spaces ticks ttl/2
\* apart and a tick is two round trips to Redis).
SplitBrainHeals == ([]<>\A i \in Instance : tick[i] = 0) => <>[]AtMostOneBatch

\* While an instance stays up, publishing never stops for good: an abandoned
\* lock expires, and one of those that poll for it takes over.
SomeoneLeads == (<>[]\E i \in Instance : running[i])
                    => []<>\E i \in Instance : isLeader[i] /\ lock = i

\* outbox.publisher.service.ts:120-122: the heartbeat verifies the value to
\* guard against a lock that expired and was acquired by another instance.
HeartbeatExtendsOwnLock ==
    [][\A i \in Instance : HeartbeatSet(i) => lock \in {i, Free}]_leaseVars
=============================================================================
