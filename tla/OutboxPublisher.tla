-------------------------- MODULE OutboxPublisher --------------------------
(***************************************************************************)
(* The outbox publisher's batches (publishBatch, drainLeaderboardWindow),  *)
(* under the leadership of OutboxLease: the loops and the lock are that    *)
(* module's, and a batch runs while loop[i] = "batch".                     *)
(*                                                                         *)
(* A credit c commits two rows of outbox_events, Credited(c) and           *)
(* TopRow(c).  Their ids come from a sequence while the transaction is     *)
(* open, so they become visible in any order.  The ZADD of c follows its   *)
(* commit.  The top 10 of the ZSET is abstracted to a version: no two      *)
(* different tops are equal, as the entries carry their update time.       *)
(*                                                                         *)
(* The stream SCOREBOARD drops a message whose id it has seen within its   *)
(* duplicate window, whatever the subject, and acknowledges it all the     *)
(* same; the publisher does not look at the ack's duplicate flag.          *)
(***************************************************************************)
EXTENDS OutboxLease, FiniteSetsExt

CONSTANTS MaxCredit,  \* bound: credits
          BatchLimit, \* LIMIT of the batch's SELECT (100)
          MaxError    \* bound: errors of Postgres, NATS or the cache

ASSUME PublisherAssumption ==
    MaxCredit \in Nat /\ BatchLimit \in Nat \ {0} /\ MaxError \in Nat

VARIABLES committed,  \* credits whose rows are visible
          upserted,   \* credits whose cache.upsert is over
          marked,     \* row ids with published_at set
          cacheTop,   \* version of the top 10 in the ZSET; 1 at the start
          delivered,  \* ids of the score.credited messages in the stream
          streamTop,  \* version in the last leaderboard.updated message, or 0
          dedup,      \* message ids within the stream's duplicate window
          at,         \* where each instance's batch is
          todo,       \* ids of the batch's rows still to be handled
          buffer,     \* leaderboardBuffer: ids
          drained,    \* `buffered` of drainLeaderboardWindow: ids
          top,        \* `top` of drainLeaderboardWindow
          last,       \* lastPublishedTop10, or 0
          flight,     \* a getTop of another caller in flight, or 0
          errors      \* errors so far

serverVars == <<committed, upserted, marked, cacheTop, delivered, streamTop, dedup>>
batchVars  == <<at, todo, buffer, drained, top, last, flight>>
pubVars    == <<serverVars, batchVars, errors>>
vars       == <<leaseVars, pubVars>>

Credit      == 1 .. MaxCredit
Credited(c) == 2 * c - 1
TopRow(c)   == 2 * c
CreditedIds == {Credited(c) : c \in Credit}
RowIds      == CreditedIds \cup {TopRow(c) : c \in Credit}

PubInit == /\ committed = {} /\ upserted = {} /\ marked = {}
           /\ cacheTop = 1
           /\ delivered = {} /\ streamTop = 0 /\ dedup = {}
           /\ at = [i \in Instance |-> "fetch"]
           /\ todo = [i \in Instance |-> {}]
           /\ buffer = [i \in Instance |-> {}]
           /\ drained = [i \in Instance |-> {}]
           /\ top = [i \in Instance |-> 0]
           /\ last = [i \in Instance |-> 0]
           /\ flight = [i \in Instance |-> 0]
           /\ errors = 0

Init == LeaseInit /\ PubInit

Fails == errors < MaxError /\ errors' = errors + 1

\* Mutant: the singleflight keeps a read that is over.
FlightKept(i) == flight[i]

FlightOver(i) == 0

\* The batch is over: its locals are gone, buffer and last stay.
Finish(i) == /\ EndBatch(i)
             /\ at' = [at EXCEPT ![i] = "fetch"]
             /\ todo' = [todo EXCEPT ![i] = {}]
             /\ drained' = [drained EXCEPT ![i] = {}]
             /\ top' = [top EXCEPT ![i] = 0]
             /\ flight' = [flight EXCEPT ![i] = FlightOver(i)]

-----------------------------------------------------------------------------
(* The write path, Redis and the stream.                                   *)

Commit(c) == /\ c \notin committed
             /\ committed' = committed \cup {c}
             /\ UNCHANGED <<leaseVars, upserted, marked, cacheTop, delivered, streamTop,
                            dedup, batchVars, errors>>

\* The handler's cache.upsert: the ZADD changes the top 10, or the user is
\* below it, or the call fails and the error is swallowed.
Upsert(c) == /\ c \in committed \ upserted
             /\ upserted' = upserted \cup {c}
             /\ cacheTop' \in {cacheTop, cacheTop + 1}
             /\ UNCHANGED <<leaseVars, committed, marked, delivered, streamTop, dedup,
                            batchVars, errors>>

\* The duplicate window passes.
Forget == /\ dedup # {} /\ Fails
          /\ dedup' = {}
          /\ UNCHANGED <<leaseVars, committed, upserted, marked, cacheTop, delivered,
                         streamTop, batchVars>>

\* Another caller on i (a handler, the GET endpoint, a new SSE client) reads
\* the top: getTop is a singleflight, so a drain may be given this result.
OtherRead(i) == /\ loop[i] = "batch" /\ at[i] \in {"fetch", "publish", "mark"}
                /\ flight[i] = 0
                /\ flight' = [flight EXCEPT ![i] = cacheTop]
                /\ UNCHANGED <<leaseVars, serverVars, at, todo, buffer, drained, top, last,
                               errors>>

-----------------------------------------------------------------------------
(* publishBatch.                                                           *)

Visible == {Credited(c) : c \in committed} \cup {TopRow(c) : c \in committed}

\* Mutant: the publisher remembers how far it has come.
UnpublishedAfterCursor == {r \in Visible \ marked : \A m \in marked : r > m}

Unpublished == Visible \ marked

\* ORDER BY id LIMIT BatchLimit
FirstRows == {r \in Unpublished :
                 Cardinality({s \in Unpublished : s < r}) < BatchLimit}

Fetch(i) ==
    /\ loop[i] = "batch" /\ at[i] = "fetch"
    /\ IF Unpublished = {}
       THEN Finish(i)
       ELSE /\ at' = [at EXCEPT ![i] = "publish"]
            /\ todo' = [todo EXCEPT ![i] = FirstRows]
            /\ UNCHANGED <<leaseVars, drained, top, flight>>
    /\ UNCHANGED <<serverVars, buffer, last, errors>>

FetchFails(i) == /\ loop[i] = "batch" /\ at[i] = "fetch" /\ Fails
                 /\ Finish(i)
                 /\ UNCHANGED <<serverVars, buffer, last>>

\* The credited row at hand, in id order.
HasRow(i) == todo[i] \cap CreditedIds # {}
Row(i) == Min(todo[i] \cap CreditedIds)

\* publisher.publish with msgId = row.id
StoreRow(r) == /\ delivered' = IF r \in dedup THEN delivered ELSE delivered \cup {r}
               /\ dedup' = dedup \cup {r}

Publish(i) == /\ at[i] = "publish" /\ HasRow(i)
              /\ StoreRow(Row(i))
              /\ at' = [at EXCEPT ![i] = "mark"]
              /\ UNCHANGED <<leaseVars, committed, upserted, marked, cacheTop, streamTop,
                             todo, buffer, drained, top, last, flight, errors>>

NextRow(i) == /\ at' = [at EXCEPT ![i] = "publish"]
              /\ todo' = [todo EXCEPT ![i] = @ \ {Row(i)}]
              /\ UNCHANGED <<leaseVars, committed, upserted, cacheTop, streamTop, buffer,
                             drained, top, last, flight>>

\* No ack: the message is lost or only its ack is.  The row stays unmarked.
PublishFails(i) == /\ at[i] = "publish" /\ HasRow(i) /\ Fails
                   /\ StoreRow(Row(i)) \/ UNCHANGED <<delivered, dedup>>
                   /\ NextRow(i)
                   /\ UNCHANGED marked

Mark(i) == /\ at[i] = "mark"
           /\ marked' = marked \cup {Row(i)}
           /\ NextRow(i)
           /\ UNCHANGED <<delivered, dedup, errors>>

\* The UPDATE fails, applied or not.
MarkFails(i) == /\ at[i] = "mark" /\ Fails
                /\ marked' \in {marked, marked \cup {Row(i)}}
                /\ NextRow(i)
                /\ UNCHANGED <<delivered, dedup>>

\* Mutant: the rows are not filtered by type.
CollectedAll(i) == buffer[i] \cup FirstRows

\* The credited rows are through; the others join the buffer.
Collected(i) == buffer[i] \cup todo[i]

AtWindowCheck(i) == at[i] = "publish" /\ ~HasRow(i)

\* Still the window of the last drain, or nothing to drain.
Hold(i) == /\ AtWindowCheck(i)
           /\ buffer' = [buffer EXCEPT ![i] = Collected(i)]
           /\ Finish(i)
           /\ UNCHANGED <<serverVars, last, errors>>

\* A new coalescing window: the buffer is taken over and emptied.
Drain(i) == /\ AtWindowCheck(i) /\ Collected(i) # {}
            /\ drained' = [drained EXCEPT ![i] = Collected(i)]
            /\ buffer' = [buffer EXCEPT ![i] = {}]
            /\ todo' = [todo EXCEPT ![i] = {}]
            /\ at' = [at EXCEPT ![i] = "readTop"]
            /\ UNCHANGED <<leaseVars, serverVars, top, last, flight, errors>>

-----------------------------------------------------------------------------
(* drainLeaderboardWindow.                                                 *)

\* cache.getTop, and the comparison with lastPublishedTop10.
ReadTop(i) ==
    /\ at[i] = "readTop"
    /\ \E v \in {cacheTop, flight[i]} \ {0} :
          /\ top' = [top EXCEPT ![i] = v]
          /\ at' = [at EXCEPT ![i] = IF v = last[i] THEN "markTop" ELSE "publishTop"]
    /\ flight' = [flight EXCEPT ![i] = FlightOver(i)]
    /\ UNCHANGED <<leaseVars, serverVars, todo, buffer, drained, last, errors>>

\* The rows go back into the buffer; the next batch finds them again anyway.
Requeue(i) == /\ buffer' = [buffer EXCEPT ![i] = drained[i] \cup @]
              /\ Finish(i)
              /\ UNCHANGED last

ReadTopFails(i) == /\ at[i] = "readTop" /\ Fails
                   /\ Requeue(i)
                   /\ UNCHANGED serverVars

\* Mutant: the message id is the number of buffered rows.
TopMsgIdCount(i) == Cardinality(drained[i])

\* The message id is the largest of the buffered row ids.
TopMsgId(i) == Max(drained[i])

StoreTop(i) == /\ streamTop' = IF TopMsgId(i) \in dedup THEN streamTop ELSE top[i]
               /\ dedup' = dedup \cup {TopMsgId(i)}

PublishTop(i) == /\ at[i] = "publishTop"
                 /\ StoreTop(i)
                 /\ last' = [last EXCEPT ![i] = top[i]]
                 /\ at' = [at EXCEPT ![i] = "markTop"]
                 /\ UNCHANGED <<leaseVars, committed, upserted, marked, cacheTop, delivered,
                                todo, buffer, drained, top, flight, errors>>

PublishTopFails(i) == /\ at[i] = "publishTop" /\ Fails
                      /\ StoreTop(i) \/ UNCHANGED <<streamTop, dedup>>
                      /\ Requeue(i)
                      /\ UNCHANGED <<committed, upserted, marked, cacheTop, delivered>>

MarkTop(i) == /\ at[i] = "markTop"
              /\ marked' = marked \cup drained[i]
              /\ Finish(i)
              /\ UNCHANGED <<committed, upserted, cacheTop, delivered, streamTop, dedup,
                             buffer, last, errors>>

\* publishBatch throws; nothing is requeued.
MarkTopFails(i) == /\ at[i] = "markTop" /\ Fails
                   /\ marked' \in {marked, marked \cup drained[i]}
                   /\ Finish(i)
                   /\ UNCHANGED <<committed, upserted, cacheTop, delivered, streamTop,
                                  dedup, buffer, last>>

-----------------------------------------------------------------------------

\* A process that ends takes its memory with it.
Stopped(i) == /\ Exit(i)
              /\ at' = [at EXCEPT ![i] = "fetch"]
              /\ todo' = [todo EXCEPT ![i] = {}]
              /\ buffer' = [buffer EXCEPT ![i] = {}]
              /\ drained' = [drained EXCEPT ![i] = {}]
              /\ top' = [top EXCEPT ![i] = 0]
              /\ last' = [last EXCEPT ![i] = 0]
              /\ flight' = [flight EXCEPT ![i] = 0]
              /\ UNCHANGED <<serverVars, errors>>

Batch(i) == \/ Fetch(i) \/ Publish(i) \/ Mark(i) \/ Hold(i) \/ Drain(i)
            \/ ReadTop(i) \/ PublishTop(i) \/ MarkTop(i)

BatchFails(i) == \/ FetchFails(i) \/ PublishFails(i) \/ MarkFails(i)
                 \/ ReadTopFails(i) \/ PublishTopFails(i) \/ MarkTopFails(i)

Next == \/ LeaseStep /\ UNCHANGED pubVars
        \/ \E c \in Credit : Commit(c) \/ Upsert(c)
        \/ Forget
        \/ \E i \in Instance : Stopped(i) \/ Batch(i) \/ BatchFails(i) \/ OtherRead(i)

Spec == Init /\ [][Next]_vars

\* The lease's fairness; a batch goes on, every call having a timeout; a
\* window comes to an end, so that a batch which could drain will; and a
\* handler goes on from its commit to its upsert.
Fairness ==
    /\ WF_vars(Expire /\ UNCHANGED pubVars)
    /\ \A i \in Instance : /\ WF_vars(LeaseCode(i) /\ UNCHANGED pubVars)
                           /\ WF_vars(HeartbeatGet(i) /\ UNCHANGED pubVars)
                           /\ WF_vars(HeartbeatSet(i) /\ UNCHANGED pubVars)
                           /\ WF_vars(Batch(i))
                           /\ SF_vars(Drain(i))
    /\ \A c \in Credit : WF_vars(Upsert(c))

FairSpec == Spec /\ Fairness

-----------------------------------------------------------------------------
(* Properties.                                                             *)

\* Tables, stream and the publisher's fields keep their shapes.
PubTypeOK ==
    /\ LeaseTypeOK
    /\ committed \subseteq Credit /\ upserted \subseteq committed
    /\ marked \subseteq RowIds
    /\ cacheTop \in Nat \ {0}
    /\ delivered \subseteq CreditedIds
    /\ streamTop \in Nat
    /\ dedup \subseteq RowIds
    /\ at \in [Instance -> {"fetch", "publish", "mark", "readTop", "publishTop", "markTop"}]
    /\ todo \in [Instance -> SUBSET RowIds]
    /\ buffer \in [Instance -> SUBSET (RowIds \ CreditedIds)]
    /\ drained \in [Instance -> SUBSET (RowIds \ CreditedIds)]
    /\ top \in [Instance -> Nat]
    /\ last \in [Instance -> Nat]
    /\ flight \in [Instance -> Nat]
    /\ errors \in 0 .. MaxError

\* At least once: a credited row is taken off the outbox only when its
\* message is in the stream.  Above all, no other message's id may have made
\* the stream drop it as a duplicate, whoever leads and whatever fails.
MarkedIsDelivered == marked \cap CreditedIds \subseteq delivered

\* While the lease has not lapsed, a leaderboard message is never followed by
\* an older top: reading the top and publishing it are two calls, and only
\* the lock keeps two instances from interleaving them.
TopNeverRegresses == [][streamTop' >= streamTop \/ lapsed']_vars

\* While an instance stays up, every committed credit reaches the stream and
\* both its rows leave the outbox, whatever the order of commits, the size of
\* a batch, finitely many errors, and leaders that come and go.
EveryCreditAnnounced ==
    (<>[]\E i \in Instance : running[i])
        => \A c \in Credit : (c \in committed) ~>
               /\ Credited(c) \in delivered
               /\ {Credited(c), TopRow(c)} \subseteq marked

\* problem6/README.md:85 (FR-06): the top 10 is pushed whenever it changes.
TopReachesStream ==
    (<>[]\E i \in Instance : running[i]) => []<>(streamTop = cacheTop \/ cacheTop = 1)
=============================================================================
