-------------------------- MODULE LeaderboardStream -------------------------
(***************************************************************************)
(* The live leaderboard: every instance that is up consumes SCOREBOARD and *)
(* emits what it gets to the SSE streams it serves.  A stream starts with  *)
(* a snapshot read from Redis (through a singleflight) and subscribes when *)
(* it has it; it is released by the first of a write error, the close of   *)
(* the socket and the slow-client timer.  Frames are handed to the socket  *)
(* one after another; pendingMessages mirrors those not yet flushed.       *)
(*                                                                         *)
(* Messages are numbered; a frame carries the number of the last message   *)
(* whose top it shows.  Of the leaderboard itself only that is needed: its *)
(* ZSET is LeaderboardBoot's.                                              *)
(***************************************************************************)
EXTENDS LeaderboardBoot, SequencesExt

CONSTANTS Client,
          MaxConn,      \* MAX_SSE_CONN_PER_INSTANCE of each instance's process
          MaxPending,   \* SSE_BACKPRESSURE_MAX_PENDING_MESSAGES
          MaxPublish,   \* bound: messages published
          Restless,     \* bound: the clients that leave, or stop reading
          Streamers     \* bound: the instances clients may connect to

ASSUME StreamAssumption == /\ MaxConn \in [Instance -> Nat] /\ MaxPending \in Nat \ {0}
                           /\ MaxPublish \in Nat
                           /\ IsFiniteSet(Client) /\ Streamers \subseteq Instance

VARIABLES
    focus,       \* bound: the instance, up from the start, that a behaviour's
                 \* clients connect to; Absent, if it is about boots
    published,   \* JetStream: messages so far
    cursor,      \* JetStream: the last one each consumer was given
    redo,        \* JetStream: those it will be given again
    conns,       \* currentConnections of each instance
    read,        \* its read of the top: sent, or what Redis answered
    stage, host, \* of each client's request
    gone,        \* clients that have left
    closed,      \* sockets whose close event was emitted
    stalled,     \* clients that do not read
    wire,        \* frames written and not flushed
    pending,     \* pendingMessages
    full,        \* bufferFullSince: none, recent or long ago
    shown,       \* the last message whose top the client has seen
    missed,      \* history: its snapshot failed, or its instance had emitted a
                 \* newer message before it subscribed; and none came since
    redelivered  \* history: a message was given again

clientVars == <<stage, host, gone, closed, stalled, wire, pending, full, shown, missed>>
jetVars    == <<published, cursor, redo, redelivered>>
streamVars == <<focus, jetVars, conns, read, clientVars>>
vars       == <<bootVars, streamVars>>

NoRead == [step |-> "none", top |-> 0]

Init == /\ \/ focus = Absent /\ InitWith({})
           \/ \E i \in Streamers : focus = i /\ InitWith({i})
        /\ published = 0
        /\ cursor = [i \in Instance |-> 0]
        /\ redo = [i \in Instance |-> {}]
        /\ redelivered = FALSE
        /\ conns = [i \in Instance |-> 0]
        /\ read = [i \in Instance |-> NoRead]
        /\ stage = [c \in Client |-> "idle"]
        /\ host = [c \in Client |-> Absent]
        /\ gone = {} /\ closed = {} /\ stalled = {}
        /\ wire = [c \in Client |-> <<>>]
        /\ pending = [c \in Client |-> <<>>]
        /\ full = [c \in Client |-> "none"]
        /\ shown = [c \in Client |-> 0]
        /\ missed = {}

At(i, where) == {c \in Client : host[c] = i /\ stage[c] = where}

---------------------------------------------------------------------------
(* Frames *)

\* pendingMessages after a frame: the oldest gives way when it is full.
Pushed(messages, frame) ==
    Append(IF Len(messages) >= MaxPending THEN Tail(messages) ELSE messages, frame)

Since(c, messages) ==
    IF Len(messages) >= MaxPending /\ full[c] = "none" THEN "recent" ELSE full[c]

\* Mutant: a frame that finds pendingMessages full is not written.
WriteFrameIfRoom(cs, frame) ==
    LET Takes(c) == c \in cs /\ Len(pending[c]) < MaxPending IN
    /\ wire' = [c \in Client |-> IF Takes(c) THEN Append(wire[c], frame) ELSE wire[c]]
    /\ pending' = [c \in Client |-> IF Takes(c) THEN Pushed(pending[c], frame)
                                    ELSE pending[c]]
    /\ full' = [c \in Client |-> IF c \in cs THEN Since(c, pending'[c]) ELSE full[c]]

\* writeFrame on the streams of cs.  The frame is written all the same.
WriteFrame(cs, frame) ==
    /\ wire' = [c \in Client |-> IF c \in cs THEN Append(wire[c], frame) ELSE wire[c]]
    /\ pending' = [c \in Client |-> IF c \in cs THEN Pushed(pending[c], frame)
                                    ELSE pending[c]]
    /\ full' = [c \in Client |-> IF c \in cs THEN Since(c, pending'[c]) ELSE full[c]]

\* Mutant: cleanup does not look whether it has run before.
CleanupAgain(c) ==
    /\ stage' = [stage EXCEPT ![c] = "closed"]
    /\ conns' = [conns EXCEPT ![host[c]] = @ - 1]
    /\ wire' = [wire EXCEPT ![c] = <<>>]
    /\ pending' = [pending EXCEPT ![c] = <<>>]
    /\ full' = [full EXCEPT ![c] = "none"]

\* cleanup: the slot is given back once.
Cleanup(c) ==
    IF stage[c] = "open"
    THEN /\ stage' = [stage EXCEPT ![c] = "closed"]
         /\ conns' = [conns EXCEPT ![host[c]] = @ - 1]
         /\ wire' = [wire EXCEPT ![c] = <<>>]
         /\ pending' = [pending EXCEPT ![c] = <<>>]
         /\ full' = [full EXCEPT ![c] = "none"]
    ELSE UNCHANGED <<stage, conns, wire, pending, full>>

---------------------------------------------------------------------------
(* A stream starts *)

\* Above the cap the answer is 503.  Reads of the top share a flight.
Connect(c) == \E i \in Instance :
    /\ stage[c] = "idle" /\ phase[i] = "up"
    /\ host' = [host EXCEPT ![c] = i]
    /\ IF conns[i] >= MaxConn[i]
       THEN /\ stage' = [stage EXCEPT ![c] = "refused"]
            /\ UNCHANGED <<conns, read>>
       ELSE /\ stage' = [stage EXCEPT ![c] = "wait"]
            /\ conns' = [conns EXCEPT ![i] = @ + 1]
            /\ read' = [read EXCEPT ![i] = IF @ = NoRead THEN [step |-> "sent", top |-> 0] ELSE @]
    /\ UNCHANGED <<bootVars, focus, jetVars, gone, closed, stalled, wire, pending,
                   full, shown, missed>>

\* ZREVRANGE: what was announced is in the ZSET.
ReadTop(i) == /\ read[i].step = "sent"
              /\ read' = [read EXCEPT ![i] = [step |-> "got", top |-> published]]
              /\ UNCHANGED <<bootVars, focus, jetVars, conns, clientVars>>

\* The answer: everyone who waits writes the snapshot, subscribes, starts
\* the timers and listens for the close, without a pause.  If the read fails
\* the snapshot is empty.  What the instance emitted since the read, to nobody
\* who waits, is lost for all of them, whenever they joined the read.
Subscribe(i) ==
    LET cs == At(i, "wait") IN
    /\ read[i] # NoRead
    /\ \/ /\ read[i].step = "got"
          /\ WriteFrame(cs, [event |-> "snapshot", top |-> read[i].top])
          /\ missed' = IF cursor[i] > read[i].top THEN missed \cup cs ELSE missed
          /\ UNCHANGED faults
       \/ /\ Fault
          /\ WriteFrame(cs, [event |-> "snapshot", top |-> 0])
          /\ missed' = missed \cup cs
    /\ stage' = [c \in Client |-> IF c \in cs THEN "open" ELSE stage[c]]
    /\ read' = [read EXCEPT ![i] = NoRead]
    /\ UNCHANGED <<hookVars, natsVars, redisVars, writerVars, historyVars, focus, jetVars,
                   conns, host, gone, closed, stalled, shown>>

---------------------------------------------------------------------------
(* Messages *)

\* The publisher announces a new top.
Publish == /\ published < MaxPublish
           /\ published' = published + 1
           /\ UNCHANGED <<bootVars, focus, cursor, redo, redelivered, conns, read, clientVars>>

\* The loop's next message, or one that is given again: emitted to every
\* subscribed stream, then acknowledged.  When the ack is lost it is given
\* again, after others.
Deliver(i) ==
    \E seq \in redo[i] \cup ({cursor[i] + 1} \cap 1 .. published) :
        /\ consumer[i] = "live"
        /\ cursor' = [cursor EXCEPT ![i] = IF seq > @ THEN seq ELSE @]
        /\ WriteFrame(At(i, "open"), [event |-> "updated", top |-> seq])
        /\ missed' = missed \ At(i, "open")
        /\ \/ /\ redo' = [redo EXCEPT ![i] = @ \ {seq}]
              /\ UNCHANGED <<redelivered, faults>>
           \/ /\ Fault
              /\ redo' = [redo EXCEPT ![i] = @ \cup {seq}]
              /\ redelivered' = TRUE
        /\ UNCHANGED <<hookVars, natsVars, redisVars, writerVars, historyVars, focus,
                       published, conns, read, stage, host, gone, closed, stalled, shown>>

\* The iterator ends, which nobody notices, or throws, which clears
\* jetstreamReady; in both cases for good.
LoopEnds(i) == /\ consumer[i] = "live" /\ Fault
               /\ \E how_ \in {"ended", "dead"} : consumer' = [consumer EXCEPT ![i] = how_]
               /\ UNCHANGED <<hookVars, stream, redisVars, writerVars, historyVars, streamVars>>

---------------------------------------------------------------------------
(* Sockets, timers, clients *)

\* The socket takes a frame, and its callback drops it from pendingMessages.
Flush(c) ==
    /\ stage[c] = "open" /\ wire[c] # <<>>
    /\ c \notin gone \cup stalled
    /\ shown' = [shown EXCEPT ![c] = Head(wire[c]).top]
    /\ wire' = [wire EXCEPT ![c] = Tail(@)]
    /\ pending' = [pending EXCEPT ![c] = RemoveFirst(@, Head(wire[c]))]
    /\ full' = [full EXCEPT ![c] = IF Len(pending'[c]) < MaxPending THEN "none" ELSE @]
    /\ UNCHANGED <<bootVars, focus, jetVars, conns, read, stage, host, gone, closed,
                   stalled, missed>>

\* Mutant: the callback of a failed write only logs.
WriteErrorLogged(c) ==
    /\ stage[c] = "open" /\ wire[c] # <<>> /\ c \in gone
    /\ wire' = [wire EXCEPT ![c] = Tail(@)]
    /\ UNCHANGED <<bootVars, focus, jetVars, conns, read, stage, host, gone, closed,
                   stalled, pending, full, shown, missed>>

\* The callback of a write to a socket that is gone has an error.
WriteError(c) ==
    /\ stage[c] = "open" /\ wire[c] # <<>> /\ c \in gone
    /\ Cleanup(c)
    /\ UNCHANGED <<bootVars, focus, jetVars, read, host, gone, closed, stalled, shown, missed>>

\* The socket's close is emitted once: to nobody while the stream waits for
\* its snapshot.
CloseEvent(c) ==
    /\ c \notin closed
    /\ c \in gone \/ stage[c] = "closed"
    /\ closed' = closed \cup {c}
    /\ IF stage[c] \in {"open", "closed"} THEN Cleanup(c)
       ELSE UNCHANGED <<stage, conns, wire, pending, full>>
    /\ UNCHANGED <<bootVars, focus, jetVars, read, host, gone, stalled, shown, missed>>

\* The slow-client timeout has passed since pendingMessages became full.
TimePasses(c) == /\ full[c] = "recent"
                 /\ full' = [full EXCEPT ![c] = "long"]
                 /\ UNCHANGED <<bootVars, focus, jetVars, conns, read, stage, host, gone,
                                closed, stalled, wire, pending, shown, missed>>

\* Mutant: the reset comes before the timeout, and takes full for not full.
SlowTickResets(c) ==
    /\ stage[c] = "open"
    /\ IF Len(pending[c]) <= MaxPending
       THEN /\ full' = [full EXCEPT ![c] = "none"]
            /\ UNCHANGED <<stage, conns, wire, pending>>
       ELSE Cleanup(c)
    /\ UNCHANGED <<bootVars, focus, jetVars, read, host, gone, closed, stalled, shown, missed>>

\* The slow-client timer.
SlowTick(c) ==
    /\ stage[c] = "open"
    /\ IF full[c] = "long" THEN Cleanup(c)
       ELSE /\ full' = [full EXCEPT ![c] = IF Len(pending[c]) < MaxPending THEN "none" ELSE @]
            /\ UNCHANGED <<stage, conns, wire, pending>>
    /\ UNCHANGED <<bootVars, focus, jetVars, read, host, gone, closed, stalled, shown, missed>>

ClientMoves(c) ==
    /\ c \in Restless
    /\ \/ /\ stage[c] \in {"wait", "open"}
          /\ gone' = gone \cup {c}
          /\ UNCHANGED stalled
       \/ /\ stage[c] = "open" /\ c \notin gone
          /\ stalled' = IF c \in stalled THEN stalled \ {c} ELSE stalled \cup {c}
          /\ UNCHANGED gone
    /\ UNCHANGED <<bootVars, focus, jetVars, conns, read, stage, host, closed, wire, pending,
                   full, shown, missed>>

---------------------------------------------------------------------------
(* Composition *)

\* The consumer of an instance that boots gets what is published from now on.
AttachConsumer(i) == /\ AddConsumer(i)
                     /\ cursor' = [cursor EXCEPT ![i] = published]
                     /\ UNCHANGED <<focus, published, redo, redelivered, conns, read, clientVars>>

\* A crash, or a stop: its hooks delete the consumer and end the streams.
Stop(i) ==
    LET cs == At(i, "wait") \cup At(i, "open") IN
    /\ Down(i)
    /\ redo' = [redo EXCEPT ![i] = {}]
    /\ conns' = [conns EXCEPT ![i] = 0]
    /\ read' = [read EXCEPT ![i] = NoRead]
    /\ stage' = [c \in Client |-> IF c \in cs THEN "closed" ELSE stage[c]]
    /\ closed' = closed \cup {c \in Client : host[c] = i}
    /\ wire' = [c \in Client |-> IF c \in cs THEN <<>> ELSE wire[c]]
    /\ pending' = [c \in Client |-> IF c \in cs THEN <<>> ELSE pending[c]]
    /\ full' = [c \in Client |-> IF c \in cs THEN "none" ELSE full[c]]
    /\ UNCHANGED <<focus, published, cursor, redelivered, host, gone, stalled, shown, missed>>

HookStep(i) == \/ Start(i) \/ AddStream(i) \/ Zcard(i) \/ Lock(i) \/ Select(i) \/ Zadd(i)
               \/ Unlock(i) \/ RebuildFails(i) \/ RedisCallFails(i)

InstanceStep(i) == \/ HookStep(i) /\ UNCHANGED streamVars
                   \/ AttachConsumer(i) \/ Stop(i)

ClientStep(c) == \/ Flush(c) \/ WriteError(c) \/ CloseEvent(c) \/ TimePasses(c)
                 \/ SlowTick(c)

Next == \/ /\ focus = Absent
           /\ \/ \E i \in Instance : InstanceStep(i)
              \/ (Writing \/ LockExpires \/ RedisLoss) /\ UNCHANGED streamVars
        \/ /\ focus # Absent
           /\ \/ \E i \in Streamers \cap {focus} :
                    ReadTop(i) \/ Subscribe(i) \/ Deliver(i) \/ LoopEnds(i) \/ Stop(i)
              \/ \E c \in Client : Connect(c) \/ ClientStep(c) \/ ClientMoves(c)
              \/ Publish

\* An instance that boots goes on booting; a call is answered, an event of a
\* socket or a timer is handled, a flowing socket takes what it is given.
Fairness ==
    /\ \A i \in Instance : /\ WF_vars(BootStep(i) /\ InstanceStep(i))
                           /\ WF_vars(ReadTop(i)) /\ WF_vars(Subscribe(i))
                           /\ WF_vars(Deliver(i))
    /\ \A c \in Client : /\ WF_vars(Flush(c)) /\ WF_vars(WriteError(c))
                         /\ WF_vars(CloseEvent(c)) /\ WF_vars(TimePasses(c))
                         /\ WF_vars(SlowTick(c))

Spec == Init /\ [][Next]_vars /\ Fairness

---------------------------------------------------------------------------
(* Properties *)

\* The counter of an instance is the number of streams it holds open, those
\* that wait for their snapshot included, and within the cap, however many of
\* a write error, a close and a timer come to release the same stream.
SlotsAreAccounted ==
    \A i \in Instance : /\ conns[i] = Cardinality(At(i, "wait") \cup At(i, "open"))
                        /\ conns[i] <= MaxConn[i]

\* A client that leaves gives its slot back, at whatever point of the
\* stream's start it leaves, though the close event may go unheard.
SlotsComeBack == \A c \in Client : []<>~(c \in gone /\ stage[c] \in {"wait", "open"})

\* No stream stays full: a client that does not catch up is cut off.
StalledClientsAreCutOff == \A c \in Client :
    []<>~(stage[c] = "open" /\ Len(pending[c]) >= MaxPending)

\* A stream that shows less than was announced, though its instance consumes,
\* the client reads, no message was given again, and it has either had a message
\* or a snapshot than which its instance emitted nothing newer before it
\* subscribed.
Behind(c) ==
    /\ stage[c] = "open" /\ c \notin gone \cup stalled \cup missed
    /\ consumer[host[c]] = "live" /\ ~redelivered
    /\ shown[c] < published

\* Such a stream does not stay behind, whoever else shares its read or its
\* instance: frames that pendingMessages drops while a client stalls are still
\* delivered when it reads on.
ClientsSeeLastTop == \A c \in Client : []<>~Behind(c)
============================================================================
