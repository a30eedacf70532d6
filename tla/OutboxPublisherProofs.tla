----------------------- MODULE OutboxPublisherProofs -----------------------
(***************************************************************************)
(* OutboxPublisher for every set of instances, number of credits, batch    *)
(* size and number of faults: it keeps the lease's guarantees, it loses no *)
(* credited event, and its leaderboard messages never go back in time      *)
(* while the lease holds.                                                  *)
(***************************************************************************)
EXTENDS OutboxPublisher, OutboxLeaseProofs, WellFoundedInduction

(* Least and greatest elements.                                            *)

NatLess == {p \in Nat \X Nat : p[1] < p[2]}

LEMMA NatLessWellFounded == IsWellFoundedOn(NatLess, Nat)
BY NatLessThanWellFounded DEF OpToRel, NatLess

LEMMA NatLessPair == \A x, y \in Nat : ~ (<<y, x>> \in NatLess) => x =< y
<1> SUFFICES ASSUME NEW x \in Nat, NEW y \in Nat, y < x PROVE <<y, x>> \in NatLess
  OBVIOUS
<1>1. <<y, x>> \in Nat \X Nat /\ <<y, x>>[1] < <<y, x>>[2]
  OBVIOUS
<1> QED BY <1>1 DEF NatLess

LEMMA MinOfNats ==
    ASSUME NEW S \in SUBSET Nat, S # {}
    PROVE  Min(S) \in S
<1>1. PICK x \in S : \A y \in S : ~ (<<y, x>> \in NatLess)
  BY NatLessWellFounded, WFMin
<1>2. \A y \in S : x =< y
  BY <1>1, NatLessPair
<1> QED BY <1>2 DEF Min

LEMMA MaxOfBoundedNats ==
    ASSUME NEW n \in Nat, NEW S \in SUBSET (0 .. n), S # {}
    PROVE  Max(S) \in S
<1> DEFINE T == {n - x : x \in S}
<1>1. T \in SUBSET Nat /\ T # {}
  <2>1. \A x \in S : n - x \in Nat
    OBVIOUS
  <2> QED BY <2>1
<1>2. PICK t \in T : \A u \in T : ~ (<<u, t>> \in NatLess)
  BY <1>1, NatLessWellFounded, WFMin
<1>3. \A u \in T : t =< u
  BY <1>1, <1>2, NatLessPair
<1>4. PICK x \in S : t = n - x
  OBVIOUS
<1>5. \A y \in S : x >= y
  BY <1>3, <1>4
<1> QED BY <1>5 DEF Max

-----------------------------------------------------------------------------
(* The steps, sorted by who takes them.                                    *)

ServerStep == Forget \/ \E c \in Credit : Commit(c) \/ Upsert(c)

InstanceStep(i) == Stopped(i) \/ Batch(i) \/ BatchFails(i) \/ OtherRead(i)

LEMMA NextShape ==
    [Next]_vars => \/ LeaseStep /\ UNCHANGED pubVars
                   \/ ServerStep
                   \/ \E i \in Instance : InstanceStep(i)
                   \/ UNCHANGED vars
BY DEF Next, ServerStep, InstanceStep

\* The publisher's own steps move the lease only by ending a batch or a process.
LEMMA InstanceStepLease ==
    ASSUME NEW i \in Instance, InstanceStep(i)
    PROVE  EndBatch(i) \/ Exit(i) \/ UNCHANGED leaseVars
BY DEF InstanceStep, Stopped, Batch, BatchFails, OtherRead, Fetch, Publish, Mark, Hold,
       Drain, ReadTop, PublishTop, MarkTop, FetchFails, PublishFails, MarkFails,
       ReadTopFails, PublishTopFails, MarkTopFails, Requeue, NextRow, Finish

LEMMA StepIsLeaseStep == [Next]_vars => [LeaseNext]_leaseVars
<1> SUFFICES ASSUME [Next]_vars PROVE [LeaseNext]_leaseVars
  OBVIOUS
<1>1. CASE LeaseStep /\ UNCHANGED pubVars BY <1>1 DEF LeaseNext
<1>2. CASE ServerStep BY <1>2 DEF ServerStep, Forget, Commit, Upsert
<1>3. CASE \E i \in Instance : InstanceStep(i)
  BY <1>3, InstanceStepLease DEF LeaseNext
<1>4. CASE UNCHANGED vars BY <1>4 DEF vars
<1> QED BY <1>1, <1>2, <1>3, <1>4, NextShape

\* The composition keeps everything OutboxLease promises: the batch may begin
\* and end where that module says, and touches nothing of its state.
THEOREM PublisherImplementsLease == Spec => LeaseSpec
<1>1. Init => LeaseInit
  BY DEF Init
<1> QED BY <1>1, StepIsLeaseStep, PTL DEF Spec, LeaseSpec

THEOREM PublisherKeepsLease == Spec => []LeaseInv
<1>1. Init => LeaseInv
  BY LeaseInvInit DEF Init
<1>2. LeaseInv /\ [Next]_vars => LeaseInv'
  BY LeaseInvStep, StepIsLeaseStep
<1> QED BY <1>1, <1>2, PTL DEF Spec

-----------------------------------------------------------------------------
(* Types, and no credited event lost.                                      *)

LEMMA RowIdsBounded == 2 * MaxCredit \in Nat /\ RowIds \subseteq 0 .. 2 * MaxCredit
BY PublisherAssumption DEF RowIds, CreditedIds, Credited, TopRow, Credit

\* What each point of a batch knows: the row about to be marked is in the
\* stream, and a drain has something to drain.
BatchShape ==
    \A i \in Instance :
        /\ at[i] = "mark" => HasRow(i) /\ Row(i) \in delivered
        /\ at[i] \in {"readTop", "publishTop", "markTop"} => drained[i] # {}

\* An id the stream would drop as a duplicate, if it is a credited row's, was
\* that row's own.
DedupInv == dedup \cap CreditedIds \subseteq delivered

DeliveryInv == PubTypeOK /\ BatchShape /\ DedupInv /\ MarkedIsDelivered

LEMMA RowOfBatch ==
    ASSUME PubTypeOK, NEW i \in Instance, HasRow(i)
    PROVE  Row(i) \in todo[i] /\ Row(i) \in CreditedIds /\ Row(i) \in RowIds
<1>1. todo[i] \cap CreditedIds \in SUBSET Nat
  <2>1. todo[i] \subseteq RowIds /\ RowIds \subseteq Nat
    BY RowIdsBounded DEF PubTypeOK
  <2> QED BY <2>1
<1>2. Row(i) \in todo[i] \cap CreditedIds
  BY <1>1, MinOfNats DEF HasRow, Row
<1> QED BY <1>2 DEF PubTypeOK, RowIds

\* The id of a leaderboard message is no credited row's.
LEMMA TopMsgIdIsTopRow ==
    ASSUME PubTypeOK, NEW i \in Instance, drained[i] # {}
    PROVE  TopMsgId(i) \in RowIds \ CreditedIds
<1>1. drained[i] \in SUBSET (0 .. 2 * MaxCredit)
  BY RowIdsBounded DEF PubTypeOK
<1>2. TopMsgId(i) \in drained[i]
  BY <1>1, RowIdsBounded, MaxOfBoundedNats DEF TopMsgId
<1> QED BY <1>2 DEF PubTypeOK

LEMMA VisibleRows == PubTypeOK => FirstRows \subseteq RowIds
BY DEF PubTypeOK, FirstRows, Unpublished, Visible, RowIds, CreditedIds

LEMMA DeliveryInit == Init => DeliveryInv
BY LeaseTypeInit, PublisherAssumption
DEF Init, PubInit, DeliveryInv, PubTypeOK, BatchShape, DedupInv, MarkedIsDelivered

LEMMA ShapeKept ==
    ASSUME BatchShape, UNCHANGED <<at, todo, drained, delivered>>
    PROVE  BatchShape'
BY DEF BatchShape, HasRow, Row

LEMMA DeliveryServer ==
    ASSUME DeliveryInv, LeaseTypeOK', ServerStep
    PROVE  DeliveryInv'
<1>1. UNCHANGED <<at, todo, drained, delivered>>
  BY DEF ServerStep, Forget, Commit, Upsert, batchVars
<1>2. BatchShape'
  BY <1>1, ShapeKept DEF DeliveryInv
<1>3. PubTypeOK'
  <2> USE DEF DeliveryInv, PubTypeOK, batchVars
  <2>1. CASE Forget BY <2>1, PublisherAssumption DEF Forget, Fails
  <2>2. ASSUME NEW c \in Credit, Commit(c) PROVE PubTypeOK' BY <2>2 DEF Commit
  <2>3. ASSUME NEW c \in Credit, Upsert(c) PROVE PubTypeOK' BY <2>3 DEF Upsert
  <2> QED BY <2>1, <2>2, <2>3 DEF ServerStep
<1>4. DedupInv' /\ MarkedIsDelivered'
  BY <1>1 DEF DeliveryInv, DedupInv, MarkedIsDelivered, ServerStep, Forget, Commit, Upsert
<1> QED BY <1>2, <1>3, <1>4 DEF DeliveryInv

\* The end of a batch forgets its locals.
LEMMA FinishedBatch ==
    ASSUME PubTypeOK, BatchShape, NEW i \in Instance, Finish(i), LeaseTypeOK',
           delivered \subseteq delivered'
    PROVE  /\ at' \in [Instance -> {"fetch", "publish", "mark", "readTop", "publishTop",
                                    "markTop"}]
           /\ todo' \in [Instance -> SUBSET RowIds]
           /\ drained' \in [Instance -> SUBSET (RowIds \ CreditedIds)]
           /\ top' \in [Instance -> Nat]
           /\ flight' \in [Instance -> Nat]
           /\ BatchShape'
BY DEF Finish, PubTypeOK, BatchShape, HasRow, Row, FlightOver

LEMMA DeliveryFinish ==
    ASSUME DeliveryInv, LeaseTypeOK', NEW i \in Instance,
           \/ Fetch(i) /\ Unpublished = {}
           \/ FetchFails(i) \/ Hold(i) \/ ReadTopFails(i) \/ PublishTopFails(i)
           \/ MarkTop(i) \/ MarkTopFails(i)
    PROVE  DeliveryInv'
<1>1. CASE Fetch(i) /\ Unpublished = {}
  BY <1>1, FinishedBatch
  DEF Fetch, serverVars, DeliveryInv, PubTypeOK, DedupInv, MarkedIsDelivered
<1>2. CASE FetchFails(i)
  BY <1>2, FinishedBatch, PublisherAssumption
  DEF FetchFails, Fails, serverVars, DeliveryInv, PubTypeOK, DedupInv, MarkedIsDelivered
<1>3. CASE Hold(i)
  <2>1. Collected(i) \subseteq RowIds \ CreditedIds
    BY <1>3 DEF Hold, AtWindowCheck, HasRow, Collected, DeliveryInv, PubTypeOK
  <2> QED
    BY <1>3, <2>1, FinishedBatch
    DEF Hold, serverVars, DeliveryInv, PubTypeOK, DedupInv, MarkedIsDelivered
<1>4. CASE ReadTopFails(i)
  BY <1>4, FinishedBatch, PublisherAssumption
  DEF ReadTopFails, Requeue, Fails, serverVars, DeliveryInv, PubTypeOK, DedupInv,
      MarkedIsDelivered
<1>5. CASE PublishTopFails(i)
  <2>1. drained[i] # {}
    BY <1>5 DEF PublishTopFails, DeliveryInv, BatchShape
  <2>2. TopMsgId(i) \in RowIds \ CreditedIds
    BY <2>1, TopMsgIdIsTopRow DEF DeliveryInv
  <2>3. dedup' \subseteq RowIds /\ dedup' \cap CreditedIds \subseteq delivered
    BY <1>5, <2>2 DEF PublishTopFails, StoreTop, DeliveryInv, PubTypeOK, DedupInv
  <2>4. streamTop' \in Nat
    BY <1>5 DEF PublishTopFails, StoreTop, DeliveryInv, PubTypeOK
  <2> QED
    BY <1>5, <2>3, <2>4, FinishedBatch, PublisherAssumption
    DEF PublishTopFails, Requeue, Fails, DeliveryInv, PubTypeOK, DedupInv, MarkedIsDelivered
<1>6. CASE MarkTop(i)
  BY <1>6, FinishedBatch DEF MarkTop, DeliveryInv, PubTypeOK, DedupInv, MarkedIsDelivered
<1>7. CASE MarkTopFails(i)
  BY <1>7, FinishedBatch, PublisherAssumption
  DEF MarkTopFails, Fails, DeliveryInv, PubTypeOK, DedupInv, MarkedIsDelivered
<1> QED BY <1>1, <1>2, <1>3, <1>4, <1>5, <1>6, <1>7

LEMMA DeliveryRow ==
    ASSUME DeliveryInv, LeaseTypeOK', NEW i \in Instance,
           Publish(i) \/ PublishFails(i) \/ Mark(i) \/ MarkFails(i)
    PROVE  DeliveryInv'
<1>1. HasRow(i) /\ Row(i) \in todo[i] /\ Row(i) \in CreditedIds /\ Row(i) \in RowIds
  BY RowOfBatch DEF Publish, PublishFails, Mark, MarkFails, DeliveryInv, BatchShape
<1>2. CASE Publish(i)
  <2>1. /\ dedup' \subseteq RowIds /\ delivered' \subseteq CreditedIds
        /\ delivered \subseteq delivered' /\ Row(i) \in delivered'
        /\ dedup' \cap CreditedIds \subseteq delivered'
    BY <1>1, <1>2 DEF Publish, StoreRow, DeliveryInv, PubTypeOK, DedupInv
  <2>2. PubTypeOK'
    BY <1>2, <2>1 DEF Publish, DeliveryInv, PubTypeOK
  <2>3. BatchShape'
    BY <1>1, <1>2, <2>1 DEF Publish, DeliveryInv, PubTypeOK, BatchShape, HasRow, Row
  <2> QED BY <1>2, <2>1, <2>2, <2>3 DEF Publish, DeliveryInv, DedupInv, MarkedIsDelivered
<1>3. CASE PublishFails(i)
  <2>1. /\ dedup' \subseteq RowIds /\ delivered' \subseteq CreditedIds
        /\ delivered \subseteq delivered'
        /\ dedup' \cap CreditedIds \subseteq delivered'
    BY <1>1, <1>3 DEF PublishFails, StoreRow, DeliveryInv, PubTypeOK, DedupInv
  <2>2. PubTypeOK'
    BY <1>3, <2>1, PublisherAssumption
    DEF PublishFails, Fails, NextRow, DeliveryInv, PubTypeOK
  <2>3. BatchShape'
    BY <1>3, <2>1 DEF PublishFails, NextRow, DeliveryInv, PubTypeOK, BatchShape, HasRow, Row
  <2> QED BY <1>3, <2>1, <2>2, <2>3 DEF PublishFails, DeliveryInv, DedupInv, MarkedIsDelivered
<1>4. CASE Mark(i) \/ MarkFails(i)
  <2>1. /\ marked' \subseteq marked \cup {Row(i)} /\ Row(i) \in delivered
        /\ delivered' = delivered /\ dedup' = dedup /\ errors' \in 0 .. MaxError
    BY <1>4, PublisherAssumption
    DEF Mark, MarkFails, Fails, DeliveryInv, PubTypeOK, BatchShape
  <2>2. NextRow(i)
    BY <1>4 DEF Mark, MarkFails
  <2>3. PubTypeOK'
    BY <1>1, <2>1, <2>2 DEF NextRow, DeliveryInv, PubTypeOK
  <2>4. BatchShape'
    BY <2>1, <2>2 DEF NextRow, DeliveryInv, PubTypeOK, BatchShape, HasRow, Row
  <2> QED BY <2>1, <2>3, <2>4 DEF DeliveryInv, DedupInv, MarkedIsDelivered
<1> QED BY <1>2, <1>3, <1>4

LEMMA DeliveryRest ==
    ASSUME DeliveryInv, LeaseTypeOK', NEW i \in Instance,
           \/ Fetch(i) /\ Unpublished # {}
           \/ Drain(i) \/ ReadTop(i) \/ PublishTop(i)
           \/ OtherRead(i) \/ Stopped(i)
    PROVE  DeliveryInv'
<1>1. CASE Fetch(i) /\ Unpublished # {}
  <2> DEFINE rows == FirstRows
  <2>1. /\ rows \subseteq RowIds
        /\ at[i] = "fetch" /\ at' = [at EXCEPT ![i] = "publish"]
        /\ todo' = [todo EXCEPT ![i] = rows]
        /\ UNCHANGED <<serverVars, buffer, drained, top, last, flight, errors>>
    BY <1>1, VisibleRows DEF Fetch, DeliveryInv
  <2> HIDE DEF rows
  <2>2. PubTypeOK'
    BY <2>1 DEF serverVars, DeliveryInv, PubTypeOK
  <2>3. BatchShape'
    BY <2>1 DEF serverVars, DeliveryInv, PubTypeOK, BatchShape, HasRow, Row
  <2> QED BY <2>1, <2>2, <2>3 DEF serverVars, DeliveryInv, DedupInv, MarkedIsDelivered
<1>2. CASE Drain(i)
  <2>1. Collected(i) \subseteq RowIds \ CreditedIds /\ Collected(i) # {}
    BY <1>2 DEF Drain, AtWindowCheck, HasRow, Collected, DeliveryInv, PubTypeOK
  <2> QED
    BY <1>2, <2>1
    DEF Drain, serverVars, DeliveryInv, PubTypeOK, BatchShape, DedupInv, MarkedIsDelivered,
        HasRow, Row
<1>3. CASE ReadTop(i)
  <2>1. PICK v \in {cacheTop, flight[i]} \ {0} :
           /\ top' = [top EXCEPT ![i] = v]
           /\ at' = [at EXCEPT ![i] = IF v = last[i] THEN "markTop" ELSE "publishTop"]
    BY <1>3 DEF ReadTop
  <2>2. PICK s \in {"markTop", "publishTop"} : at' = [at EXCEPT ![i] = s]
    BY <2>1
  <2>3. v \in Nat /\ at[i] = "readTop" /\ flight' = [flight EXCEPT ![i] = 0]
    BY <1>3 DEF ReadTop, FlightOver, DeliveryInv, PubTypeOK
  <2>4. UNCHANGED <<serverVars, todo, buffer, drained, last, errors>>
    BY <1>3 DEF ReadTop
  <2>5. PubTypeOK'
    BY <2>1, <2>2, <2>3, <2>4 DEF serverVars, DeliveryInv, PubTypeOK
  <2>6. BatchShape'
    BY <2>2, <2>3, <2>4 DEF serverVars, DeliveryInv, PubTypeOK, BatchShape, HasRow, Row
  <2> QED BY <2>4, <2>5, <2>6 DEF serverVars, DeliveryInv, DedupInv, MarkedIsDelivered
<1>4. CASE PublishTop(i)
  <2>1. drained[i] # {}
    BY <1>4 DEF PublishTop, DeliveryInv, BatchShape
  <2>2. TopMsgId(i) \in RowIds \ CreditedIds
    BY <2>1, TopMsgIdIsTopRow DEF DeliveryInv
  <2>3. dedup' \subseteq RowIds /\ dedup' \cap CreditedIds \subseteq delivered
    BY <1>4, <2>2 DEF PublishTop, StoreTop, DeliveryInv, PubTypeOK, DedupInv
  <2>4. streamTop' \in Nat
    BY <1>4 DEF PublishTop, StoreTop, DeliveryInv, PubTypeOK
  <2> QED
    BY <1>4, <2>3, <2>4
    DEF PublishTop, DeliveryInv, PubTypeOK, BatchShape, DedupInv, MarkedIsDelivered,
        HasRow, Row
<1>5. CASE OtherRead(i)
  BY <1>5
  DEF OtherRead, serverVars, DeliveryInv, PubTypeOK, BatchShape, DedupInv,
      MarkedIsDelivered, HasRow, Row
<1>6. CASE Stopped(i)
  BY <1>6
  DEF Stopped, serverVars, DeliveryInv, PubTypeOK, BatchShape, DedupInv,
      MarkedIsDelivered, HasRow, Row
<1> QED BY <1>1, <1>2, <1>3, <1>4, <1>5, <1>6

LEMMA DeliveryStep == DeliveryInv /\ [Next]_vars => DeliveryInv'
<1> SUFFICES ASSUME DeliveryInv, [Next]_vars PROVE DeliveryInv'
  OBVIOUS
<1>1. LeaseTypeOK'
  BY LeaseTypeStep, StepIsLeaseStep DEF DeliveryInv, PubTypeOK
<1>2. CASE UNCHANGED pubVars
  BY <1>1, <1>2
  DEF pubVars, serverVars, batchVars, DeliveryInv, PubTypeOK, BatchShape, DedupInv,
      MarkedIsDelivered, HasRow, Row
<1>3. CASE ServerStep BY <1>1, <1>3, DeliveryServer
<1>4. ASSUME NEW i \in Instance, InstanceStep(i) PROVE DeliveryInv'
  BY <1>1, <1>4, DeliveryFinish, DeliveryRow, DeliveryRest
  DEF InstanceStep, Batch, BatchFails
<1> QED BY <1>2, <1>3, <1>4, NextShape DEF vars

\* Tables, stream and fields keep their shapes.
THEOREM PublisherTypeCorrect == Spec => []PubTypeOK
<1>1. DeliveryInv => PubTypeOK
  BY DEF DeliveryInv
<1> QED BY <1>1, DeliveryInit, DeliveryStep, PTL DEF Spec

\* A credited row leaves the outbox only once its message is in the stream,
\* however many instances lead, whatever fails and in whatever order the
\* transactions commit.
THEOREM NoCreditLost == Spec => []MarkedIsDelivered
<1>1. DeliveryInv => MarkedIsDelivered
  BY DEF DeliveryInv
<1> QED BY <1>1, DeliveryInit, DeliveryStep, PTL DEF Spec

-----------------------------------------------------------------------------
(* The leaderboard messages are in order.                                  *)

\* Outside a batch an instance is at its beginning and has read nothing; once
\* the top is read no other read is left to share.
FlightShape ==
    \A i \in Instance :
        /\ loop[i] # "batch" => at[i] = "fetch" /\ flight[i] = 0
        /\ at[i] \in {"publishTop", "markTop"} => flight[i] = 0

\* Nothing read is newer than the cache.
ReadsAreOld == /\ streamTop <= cacheTop
               /\ \A i \in Instance : flight[i] <= cacheTop /\ top[i] <= cacheTop

\* What instance i has read and may still publish is at least as new as what
\* the stream ends with.
ReadsAreFresh(i) == /\ flight[i] # 0 => flight[i] >= streamTop
                    /\ at[i] = "publishTop" => top[i] >= streamTop

OrderInv == /\ PubTypeOK /\ LeaseInv /\ FlightShape /\ ReadsAreOld
            /\ lapsed \/ \A i \in Instance : ReadsAreFresh(i)

LEMMA OrderInit == Init => OrderInv
BY LeaseInvInit, DeliveryInit
DEF Init, PubInit, DeliveryInv, OrderInv, FlightShape, ReadsAreOld, ReadsAreFresh

\* The lease moves no batch but by beginning one.
LEMMA LeaseStepLoop ==
    ASSUME LeaseTypeOK, LeaseStep, NEW j \in Instance, loop'[j] # "batch"
    PROVE  loop[j] # "batch"
BY DEF LeaseTypeOK, LeaseStep, Expire, Lapse, Start, Shutdown, LeaseCode, SetNx, Lead, Wake,
       StartBatch, Relinquish, Drained, ReleaseGet, ReleaseDel, LeaseHeartbeat,
       HeartbeatGet, HeartbeatSet, LeaseFaults, SetNxFails, HeartbeatFails, DrainTimeout,
       ReleaseFails, OuterLoop

LEMMA OrderLease ==
    ASSUME OrderInv, LeaseStep, UNCHANGED pubVars, PubTypeOK', LeaseInv'
    PROVE  OrderInv'
<1>1. lapsed => lapsed'
  BY LapsedStays DEF LeaseNext
<1>2. FlightShape'
  BY LeaseStepLoop DEF OrderInv, PubTypeOK, FlightShape, pubVars, batchVars
<1> QED BY <1>1, <1>2 DEF OrderInv, ReadsAreOld, ReadsAreFresh, pubVars, batchVars, serverVars

LEMMA OrderServer ==
    ASSUME OrderInv, ServerStep, PubTypeOK', LeaseInv'
    PROVE  OrderInv'
<1>1. /\ cacheTop' \in {cacheTop, cacheTop + 1} /\ streamTop' = streamTop
      /\ UNCHANGED <<leaseVars, batchVars>>
  BY DEF ServerStep, Forget, Commit, Upsert
<1>2. \A n \in Nat : n <= cacheTop => n <= cacheTop'
  BY <1>1 DEF OrderInv, PubTypeOK
<1>3. ReadsAreOld'
  BY <1>1, <1>2 DEF OrderInv, PubTypeOK, ReadsAreOld, batchVars
<1> QED BY <1>1, <1>3 DEF OrderInv, FlightShape, ReadsAreFresh, leaseVars, keyHistory,
                          batchVars

\* A batch that ends without a leaderboard message, and a process that ends.
LEMMA OrderFinish ==
    ASSUME OrderInv, NEW i \in Instance, PubTypeOK', LeaseInv', Finish(i) \/ Stopped(i),
           streamTop' = streamTop, cacheTop' = cacheTop
    PROVE  OrderInv'
<1>1. /\ loop'[i] # "batch" /\ at'[i] = "fetch" /\ flight'[i] = 0 /\ top'[i] = 0
      /\ \A j \in Instance \ {i} : /\ loop'[j] = loop[j] /\ at'[j] = at[j]
                                   /\ flight'[j] = flight[j] /\ top'[j] = top[j]
      /\ lapsed' = lapsed
  BY DEF Finish, Stopped, EndBatch, Exit, FlightOver, keyHistory, OrderInv, PubTypeOK,
         LeaseTypeOK
<1>2. FlightShape'
  BY <1>1 DEF OrderInv, FlightShape
<1>3. ReadsAreOld'
  BY <1>1 DEF OrderInv, PubTypeOK, ReadsAreOld
<1>4. lapsed' \/ \A j \in Instance : ReadsAreFresh(j)'
  BY <1>1 DEF OrderInv, ReadsAreFresh
<1> QED BY <1>2, <1>3, <1>4 DEF OrderInv

\* A step within a batch that leaves the stream's top alone.
LEMMA OrderWithin ==
    ASSUME OrderInv, NEW i \in Instance, PubTypeOK', LeaseInv',
           \/ Fetch(i) /\ Unpublished # {}
           \/ Publish(i) \/ PublishFails(i) \/ Mark(i)
           \/ MarkFails(i) \/ Drain(i) \/ ReadTop(i) \/ OtherRead(i)
    PROVE  OrderInv'
<1>1. UNCHANGED <<leaseVars, streamTop, cacheTop>>
  BY DEF Fetch, Publish, PublishFails, Mark, MarkFails, NextRow, Drain, ReadTop, OtherRead,
         serverVars
<1>2. loop[i] = "batch"
  BY DEF OrderInv, FlightShape, Fetch, Publish, PublishFails, Mark, MarkFails, Drain,
         AtWindowCheck, ReadTop, OtherRead
<1>3. CASE \/ Fetch(i) /\ Unpublished # {}
           \/ Publish(i) \/ PublishFails(i) \/ Mark(i) \/ MarkFails(i) \/ Drain(i)
  <2>1. /\ UNCHANGED <<flight, top>>
        /\ \E s \in {"publish", "mark", "readTop"} : at' = [at EXCEPT ![i] = s]
    BY <1>3 DEF Fetch, Publish, PublishFails, Mark, MarkFails, NextRow, Drain
  <2> QED
    BY <1>1, <1>2, <2>1
    DEF OrderInv, PubTypeOK, FlightShape, ReadsAreOld, ReadsAreFresh, leaseVars, keyHistory
<1>4. CASE ReadTop(i)
  <2>1. PICK v \in {cacheTop, flight[i]} \ {0} :
           /\ top' = [top EXCEPT ![i] = v]
           /\ at' = [at EXCEPT ![i] = IF v = last[i] THEN "markTop" ELSE "publishTop"]
    BY <1>4 DEF ReadTop
  <2>2. PICK s \in {"markTop", "publishTop"} : at' = [at EXCEPT ![i] = s]
    BY <2>1
  <2>3. flight' = [flight EXCEPT ![i] = 0]
    BY <1>4 DEF ReadTop, FlightOver
  <2>4. v \in Nat /\ v <= cacheTop
    BY DEF OrderInv, PubTypeOK, ReadsAreOld
  <2>5. lapsed \/ v >= streamTop
    BY DEF OrderInv, PubTypeOK, ReadsAreOld, ReadsAreFresh
  <2>6. FlightShape' /\ ReadsAreOld'
    BY <1>1, <1>2, <2>1, <2>2, <2>3, <2>4
    DEF OrderInv, PubTypeOK, FlightShape, ReadsAreOld, leaseVars, keyHistory
  <2>7. lapsed' \/ \A j \in Instance : ReadsAreFresh(j)'
    BY <1>1, <2>1, <2>2, <2>3, <2>5
    DEF OrderInv, PubTypeOK, ReadsAreFresh, leaseVars, keyHistory
  <2> QED BY <2>6, <2>7 DEF OrderInv
<1>5. CASE OtherRead(i)
  BY <1>1, <1>2, <1>5
  DEF OtherRead, OrderInv, PubTypeOK, FlightShape, ReadsAreOld, ReadsAreFresh, leaseVars,
      keyHistory
<1> QED BY <1>3, <1>4, <1>5

\* The message itself: while the lease holds nobody else is in a batch, so
\* nobody else has read an older top and still means to publish it.
LEMMA OrderPublish ==
    ASSUME OrderInv, NEW i \in Instance, PubTypeOK', LeaseInv',
           PublishTop(i) \/ PublishTopFails(i)
    PROVE  OrderInv' /\ (streamTop' >= streamTop \/ lapsed')
<1>1. /\ at[i] = "publishTop" /\ loop[i] = "batch" /\ flight[i] = 0
      /\ streamTop' \in {streamTop, top[i]} /\ cacheTop' = cacheTop /\ lapsed' = lapsed
  BY DEF PublishTop, PublishTopFails, StoreTop, Requeue, Finish, EndBatch, leaseVars, keyHistory,
         OrderInv, FlightShape
<1>2. /\ at'[i] \in {"fetch", "markTop"} /\ flight'[i] = 0
      /\ loop'[i] = "batch" \/ at'[i] = "fetch"
      /\ top'[i] \in {top[i], 0}
      /\ \A j \in Instance \ {i} : /\ loop'[j] = loop[j] /\ at'[j] = at[j]
                                   /\ flight'[j] = flight[j] /\ top'[j] = top[j]
  BY <1>1 DEF PublishTop, PublishTopFails, Requeue, Finish, FlightOver, EndBatch, leaseVars,
              keyHistory, OrderInv, PubTypeOK, LeaseTypeOK
<1>3. FlightShape'
  BY <1>2 DEF OrderInv, FlightShape
<1>4. ReadsAreOld'
  BY <1>1, <1>2 DEF OrderInv, PubTypeOK, ReadsAreOld
<1>5. lapsed \/ \A j \in Instance \ {i} : loop[j] # "batch"
  BY <1>1 DEF OrderInv, LeaseInv, OwnsUnlessLapsed, Owns
<1>6. lapsed' \/ \A j \in Instance : ReadsAreFresh(j)'
  BY <1>1, <1>2, <1>5 DEF OrderInv, FlightShape, ReadsAreFresh
<1>7. lapsed' \/ streamTop' >= streamTop
  BY <1>1 DEF OrderInv, PubTypeOK, ReadsAreFresh
<1> QED BY <1>3, <1>4, <1>6, <1>7 DEF OrderInv

LEMMA OrderStep ==
    ASSUME DeliveryInv, OrderInv, [Next]_vars
    PROVE  OrderInv' /\ (streamTop' >= streamTop \/ lapsed')
<1>1. PubTypeOK' /\ LeaseInv'
  BY DeliveryStep, LeaseInvStep, StepIsLeaseStep DEF DeliveryInv, OrderInv
<1>2. streamTop' = streamTop => streamTop' >= streamTop
  BY DEF OrderInv, PubTypeOK
<1>3. CASE LeaseStep /\ UNCHANGED pubVars
  BY <1>1, <1>2, <1>3, OrderLease DEF pubVars, serverVars
<1>4. CASE ServerStep
  BY <1>1, <1>2, <1>4, OrderServer DEF ServerStep, Forget, Commit, Upsert
<1>5. ASSUME NEW i \in Instance, InstanceStep(i)
      PROVE  OrderInv' /\ (streamTop' >= streamTop \/ lapsed')
  <2>1. CASE PublishTop(i) \/ PublishTopFails(i)
    BY <1>1, <2>1, OrderPublish
  <2>2. CASE \/ Fetch(i) /\ Unpublished # {}
             \/ Publish(i) \/ PublishFails(i) \/ Mark(i) \/ MarkFails(i)
             \/ Drain(i) \/ ReadTop(i) \/ OtherRead(i)
    <3>1. streamTop' = streamTop
      BY <2>2 DEF Fetch, Publish, PublishFails, Mark, MarkFails, NextRow, Drain, ReadTop,
                  OtherRead, serverVars
    <3> QED BY <1>1, <1>2, <2>2, <3>1, OrderWithin
  <2>3. CASE \/ Fetch(i) /\ Unpublished = {}
             \/ FetchFails(i) \/ Hold(i) \/ ReadTopFails(i) \/ MarkTop(i) \/ MarkTopFails(i)
             \/ Stopped(i)
    <3>1. Finish(i) \/ Stopped(i)
      BY <2>3 DEF Fetch, FetchFails, Hold, ReadTopFails, Requeue, MarkTop, MarkTopFails
    <3>2. streamTop' = streamTop /\ cacheTop' = cacheTop
      BY <2>3 DEF Fetch, FetchFails, Hold, ReadTopFails, MarkTop, MarkTopFails, Stopped,
                  serverVars
    <3> QED BY <1>1, <1>2, <3>1, <3>2, OrderFinish
  <2> QED BY <1>5, <2>1, <2>2, <2>3 DEF InstanceStep, Batch, BatchFails
<1>6. CASE UNCHANGED vars
  BY <1>1, <1>2, <1>6
  DEF vars, leaseVars, keyHistory, pubVars, serverVars, batchVars, OrderInv, FlightShape,
      ReadsAreOld,
      ReadsAreFresh
<1> QED BY <1>3, <1>4, <1>5, <1>6, NextShape

\* While the lease has not lapsed, no leaderboard message is followed by one
\* with an older top.
THEOREM LeaderboardInOrder == Spec => TopNeverRegresses
<1>1. DeliveryInv /\ OrderInv /\ [Next]_vars => (DeliveryInv /\ OrderInv)'
  BY DeliveryStep, OrderStep
<1>2. DeliveryInv /\ OrderInv /\ [Next]_vars => [streamTop' >= streamTop \/ lapsed']_vars
  BY OrderStep
<1> QED BY <1>1, <1>2, DeliveryInit, OrderInit, PTL DEF Spec, TopNeverRegresses
=============================================================================
