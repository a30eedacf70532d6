------------------------- MODULE OutboxLeaseProofs -------------------------
(***************************************************************************)
(* OutboxLease for every set of instances: types, mutual exclusion of the  *)
(* batches until the key vanishes under an instance that relies on it, and *)
(* what an instance may still do after it has lost the key.                *)
(***************************************************************************)
EXTENDS OutboxLease, TLAPS

\* A process that does not run has no hook under way, and one whose hook has
\* begun no longer polls.
LeaseShape == \A i \in Instance : /\ loop[i] = "down" => stop[i] = "no"
                                  /\ stop[i] # "no" => ~running[i]

\* Whoever publishes or may start to, has been given the lock and not yet
\* used it, is about to renew it, or is about to delete it, still owns it;
\* and a hook gets past its wait only when its batch is over.
Owns(i) == /\ loop[i] = "batch" \/ (loop[i] = "poll" /\ running[i])
                => lock = i /\ isLeader[i] /\ timer[i]
           /\ loop[i] = "acquired" /\ running[i] => lock = i
           /\ tick[i] > 0 => lock = i
           /\ stop[i] = "del" => lock = i
           /\ loop[i] = "batch" => stop[i] \in {"no", "drain"}

OwnsUnlessLapsed == lapsed \/ \A i \in Instance : Owns(i)

LeaseInv == LeaseTypeOK /\ LeaseShape /\ OwnsUnlessLapsed

\* An instance's own step; i is the only instance whose fields it changes.
LeaseAction(i) == \/ Start(i) \/ Shutdown(i) \/ LeaseCode(i) \/ LeaseHeartbeat(i)
                  \/ LeaseFaults(i) \/ EndBatch(i) \/ Exit(i)

\* The next-state relation, sorted by what moves: the key alone, or one instance.
LEMMA LeaseNextShape ==
    LeaseNext <=> Expire \/ Lapse \/ \E i \in Instance : LeaseAction(i)
BY DEF LeaseNext, LeaseStep, LeaseAction

-----------------------------------------------------------------------------
(* Types.                                                                  *)

LEMMA LeaseTypeInit == LeaseInit => LeaseTypeOK
<1> SUFFICES ASSUME LeaseInit PROVE LeaseTypeOK
  OBVIOUS
<1>1. 0 \in 0 .. MaxTick /\ 0 \in 0 .. MaxFault /\ 0 \in 0 .. MaxRestart + 1
  BY LeaseAssumption
<1>2. /\ tick \in [Instance -> 0 .. MaxTick]
      /\ restarts \in [Instance -> 0 .. MaxRestart + 1]
  BY <1>1 DEF LeaseInit
<1> QED BY <1>1, <1>2 DEF LeaseInit, LeaseTypeOK, Loop, Stop

\* Setting the key keeps its own shape and that of its histories.
LEMMA PutKeyType ==
    ASSUME LeaseTypeOK, NEW k \in Instance \cup {Free}, PutKey(k)
    PROVE  /\ lock' \in Instance \cup {Free, Dead}
           /\ overdue' \in BOOLEAN /\ unseen' \in [Instance -> BOOLEAN]
<1>1. \A i \in Instance :
        (i # k /\ IF lock = i THEN AtWork(i) ELSE unseen[i]) \in BOOLEAN
  BY DEF AtWork, LeaseTypeOK
<1> QED BY <1>1 DEF PutKey

\* A step that moves the key alone.
LEMMA KeyTypeStep ==
    ASSUME LeaseTypeOK, Expire \/ Lapse
    PROVE  LeaseTypeOK'
<1>1. PutKey(Free) /\ lapsed' \in BOOLEAN
  BY DEF Expire, Lapse
<1>3. faults' \in 0 .. MaxFault
  BY LeaseAssumption DEF Expire, Lapse, Fault, LeaseTypeOK
<1>2. UNCHANGED <<running, isLeader, loop, timer, tick, stop, restarts>>
  BY DEF Expire, Lapse
<1> QED BY <1>1, <1>2, <1>3, PutKeyType DEF LeaseTypeOK

\* The tick counter stays within its bound.
LEMMA TickType ==
    ASSUME LeaseTypeOK, NEW i \in Instance, LeaseHeartbeat(i) \/ HeartbeatFails(i)
    PROVE  tick' \in [Instance -> 0 .. MaxTick]
<1>1. tick[i] \in 0 .. MaxTick
  BY DEF LeaseTypeOK
<1>2. CASE tick[i] < MaxTick /\ tick' = [tick EXCEPT ![i] = tick[i] + 1]
  <2>1. tick[i] + 1 \in 0 .. MaxTick
    BY <1>1, <1>2, LeaseAssumption
  <2> QED BY <1>2, <2>1 DEF LeaseTypeOK
<1>3. CASE tick[i] > 0 /\ tick' = [tick EXCEPT ![i] = tick[i] - 1]
  <2>1. tick[i] - 1 \in 0 .. MaxTick
    BY <1>1, <1>3, LeaseAssumption
  <2> QED BY <1>3, <2>1 DEF LeaseTypeOK
<1>4. CASE tick' = tick BY <1>4 DEF LeaseTypeOK
<1> QED BY <1>2, <1>3, <1>4
        DEF LeaseHeartbeat, HeartbeatGet, HeartbeatSet, HeartbeatFails, MayTick

LEMMA LeaseTypeStep == LeaseTypeOK /\ [LeaseNext]_leaseVars => LeaseTypeOK'
<1> SUFFICES ASSUME LeaseTypeOK, [LeaseNext]_leaseVars PROVE LeaseTypeOK'
  OBVIOUS
<1>1. CASE Expire \/ Lapse BY <1>1, KeyTypeStep
<1>2. ASSUME NEW i \in Instance, LeaseAction(i) PROVE LeaseTypeOK'
  <2> USE LeaseAssumption DEF LeaseTypeOK, Loop, Stop, keyHistory
  <2>1. CASE Start(i) BY <2>1 DEF Start
  <2>2. CASE Shutdown(i) BY <2>2 DEF Shutdown
  <2>3. CASE SetNx(i) BY <2>3, PutKeyType DEF SetNx
  <2>4. CASE Lead(i) BY <2>4 DEF Lead
  <2>5. CASE Wake(i) BY <2>5 DEF Wake, OuterLoop
  <2>6. CASE StartBatch(i) BY <2>6 DEF StartBatch
  <2>7. CASE Relinquish(i) BY <2>7 DEF Relinquish, OuterLoop, stopHeartbeat
  <2>8. CASE Drained(i) BY <2>8 DEF Drained, stopHeartbeat
  <2>9. CASE ReleaseGet(i) BY <2>9 DEF ReleaseGet
  <2>10. CASE ReleaseDel(i) BY <2>10, PutKeyType DEF ReleaseDel
  <2>11. CASE HeartbeatGet(i)
    <3>1. tick' \in [Instance -> 0 .. MaxTick]
      BY <2>11, TickType DEF LeaseHeartbeat
    <3>2. isLeader' \in [Instance -> BOOLEAN]
      BY <2>11 DEF HeartbeatGet
    <3>3. \A j \in Instance : isLeader'[j] => isLeader[j]
      BY <2>11 DEF HeartbeatGet
    <3> QED BY <2>11, <3>1, <3>2, <3>3 DEF HeartbeatGet
  <2>12. CASE HeartbeatSet(i)
    <3>1. tick' \in [Instance -> 0 .. MaxTick]
      BY <2>12, TickType DEF LeaseHeartbeat
    <3>2. isLeader' \in [Instance -> BOOLEAN] /\ lock' \in Instance \cup {Free, Dead}
      BY <2>12 DEF HeartbeatSet, PutKey
    <3>3. \A j \in Instance : isLeader'[j] => isLeader[j]
      BY <2>12 DEF HeartbeatSet
    <3>4. overdue' \in BOOLEAN /\ unseen' \in [Instance -> BOOLEAN]
      BY <2>12, PutKeyType DEF HeartbeatSet
    <3> QED BY <2>12, <3>1, <3>2, <3>3, <3>4 DEF HeartbeatSet
  <2>13. CASE SetNxFails(i) BY <2>13, PutKeyType DEF SetNxFails, Fault
  <2>14. CASE HeartbeatFails(i)
    <3>1. tick' \in [Instance -> 0 .. MaxTick]
      BY <2>14, TickType
    <3>2. /\ lock' \in Instance \cup {Free, Dead}
          /\ overdue' \in BOOLEAN /\ unseen' \in [Instance -> BOOLEAN]
      <4>1. CASE PutKey(i) BY <4>1, PutKeyType
      <4>2. CASE overdue' = (overdue \/ lock = i) /\ UNCHANGED <<lock, unseen>>
        BY <4>2
      <4> QED BY <2>14, <4>1, <4>2 DEF HeartbeatFails
    <3>3. faults' \in 0 .. MaxFault
      BY <2>14 DEF HeartbeatFails, Fault
    <3> QED BY <2>14, <3>1, <3>2, <3>3 DEF HeartbeatFails
  <2>15. CASE DrainTimeout(i) BY <2>15 DEF DrainTimeout, Fault, stopHeartbeat
  <2>16. CASE ReleaseFails(i) BY <2>16 DEF ReleaseFails, Fault
  <2>17. CASE EndBatch(i) BY <2>17 DEF EndBatch
  <2>18. CASE Exit(i) BY <2>18 DEF Exit
  <2> QED BY <1>2, <2>1, <2>2, <2>3, <2>4, <2>5, <2>6, <2>7, <2>8, <2>9, <2>10, <2>11,
             <2>12, <2>13, <2>14, <2>15, <2>16, <2>17, <2>18
          DEF LeaseAction, LeaseCode, LeaseHeartbeat, LeaseFaults
<1>3. CASE UNCHANGED leaseVars BY <1>3 DEF leaseVars, keyHistory, LeaseTypeOK
<1> QED BY <1>1, <1>2, <1>3, LeaseNextShape

\* The service's fields and the key keep their shapes.
THEOREM LeaseTypeCorrect == LeaseSpec => []LeaseTypeOK
BY LeaseTypeInit, LeaseTypeStep, PTL DEF LeaseSpec

-----------------------------------------------------------------------------
(* Ownership.                                                              *)

LEMMA LeaseShapeStep ==
    ASSUME LeaseTypeOK, LeaseShape, [LeaseNext]_leaseVars
    PROVE  LeaseShape'
<1> USE DEF LeaseTypeOK, LeaseShape, Loop, Stop
<1>1. CASE Expire \/ Lapse BY <1>1 DEF Expire, Lapse
<1>2. ASSUME NEW i \in Instance, LeaseAction(i) PROVE LeaseShape'
  <2>1. CASE Start(i) BY <2>1 DEF Start
  <2>2. CASE Shutdown(i) BY <2>2 DEF Shutdown
  <2>3. CASE SetNx(i) \/ SetNxFails(i) BY <2>3 DEF SetNx, SetNxFails
  <2>4. CASE Lead(i) \/ StartBatch(i) \/ EndBatch(i)
    BY <2>4 DEF Lead, StartBatch, EndBatch
  <2>5. CASE Wake(i) \/ Relinquish(i) BY <2>5 DEF Wake, Relinquish, OuterLoop
  <2>6. CASE Drained(i) \/ DrainTimeout(i) BY <2>6 DEF Drained, DrainTimeout
  <2>7. CASE ReleaseGet(i) \/ ReleaseDel(i) \/ ReleaseFails(i)
    BY <2>7 DEF ReleaseGet, ReleaseDel, ReleaseFails
  <2>8. CASE HeartbeatGet(i) \/ HeartbeatSet(i) \/ HeartbeatFails(i)
    BY <2>8 DEF HeartbeatGet, HeartbeatSet, HeartbeatFails
  <2>9. CASE Exit(i) BY <2>9 DEF Exit
  <2> QED BY <1>2, <2>1, <2>2, <2>3, <2>4, <2>5, <2>6, <2>7, <2>8, <2>9
          DEF LeaseAction, LeaseCode, LeaseHeartbeat, LeaseFaults
<1>3. CASE UNCHANGED leaseVars BY <1>3 DEF leaseVars
<1> QED BY <1>1, <1>2, <1>3, LeaseNextShape

\* A step of instance i that leaves the key alone leaves the others' claims
\* alone.
LEMMA OthersKeep ==
    ASSUME LeaseTypeOK, NEW i \in Instance, LeaseAction(i), NEW j \in Instance, j # i
    PROVE  /\ loop'[j] = loop[j] /\ running'[j] = running[j]
           /\ isLeader'[j] = isLeader[j] /\ timer'[j] = timer[j]
           /\ tick'[j] = tick[j] /\ stop'[j] = stop[j]
<1> USE DEF LeaseTypeOK, stopHeartbeat
<1>1. CASE Start(i) \/ Shutdown(i) \/ EndBatch(i) \/ Exit(i)
  BY <1>1 DEF Start, Shutdown, EndBatch, Exit
<1>2. CASE LeaseCode(i)
  BY <1>2 DEF LeaseCode, SetNx, Lead, Wake, StartBatch, Relinquish, Drained, ReleaseGet,
              ReleaseDel
<1>3. CASE LeaseHeartbeat(i) BY <1>3 DEF LeaseHeartbeat, HeartbeatGet, HeartbeatSet
<1>4. CASE LeaseFaults(i)
  BY <1>4 DEF LeaseFaults, SetNxFails, HeartbeatFails, DrainTimeout, ReleaseFails
<1> QED BY <1>1, <1>2, <1>3, <1>4 DEF LeaseAction

\* Nobody can take the key from an instance that has a claim on it.
LEMMA OthersOwn ==
    ASSUME LeaseTypeOK, NEW i \in Instance, LeaseAction(i), \A k \in Instance : Owns(k),
           NEW j \in Instance, j # i
    PROVE  Owns(j)'
<1>1. lock = j => lock' = j
  <2> SUFFICES ASSUME lock = j PROVE lock' = j
    OBVIOUS
  <2>1. tick[i] = 0 /\ stop[i] # "del" /\ lock # Free /\ lock # i
    BY LeaseAssumption DEF Owns, LeaseTypeOK
  <2>2. CASE Start(i) \/ Shutdown(i) \/ EndBatch(i) \/ Exit(i)
    BY <2>1, <2>2 DEF Start, Shutdown, EndBatch, Exit
  <2>3. CASE LeaseCode(i)
    BY <2>1, <2>3 DEF LeaseCode, SetNx, Lead, Wake, StartBatch, Relinquish, Drained,
                      ReleaseGet, ReleaseDel
  <2>4. CASE LeaseHeartbeat(i)
    BY <2>1, <2>4 DEF LeaseHeartbeat, HeartbeatGet, HeartbeatSet
  <2>5. CASE LeaseFaults(i)
    BY <2>1, <2>5 DEF LeaseFaults, SetNxFails, HeartbeatFails, DrainTimeout, ReleaseFails
  <2> QED BY <2>2, <2>3, <2>4, <2>5 DEF LeaseAction
<1>2. Owns(j)
  OBVIOUS
<1> QED BY <1>1, <1>2, OthersKeep DEF Owns

\* The stepping instance itself stays within its claims.
LEMMA SelfOwns ==
    ASSUME LeaseTypeOK, LeaseShape, NEW i \in Instance, LeaseAction(i), Owns(i), ~lapsed'
    PROVE  Owns(i)'
<1> USE LeaseAssumption DEF LeaseTypeOK, LeaseShape, Owns, Loop, Stop
<1>1. CASE Start(i) BY <1>1 DEF Start
<1>2. CASE Shutdown(i) BY <1>2 DEF Shutdown
<1>3. CASE SetNx(i) BY <1>3 DEF SetNx, PutKey
<1>4. CASE SetNxFails(i) BY <1>4 DEF SetNxFails, PutKey
<1>5. CASE Lead(i) BY <1>5 DEF Lead
<1>6. CASE Wake(i) BY <1>6 DEF Wake, OuterLoop
<1>7. CASE StartBatch(i) BY <1>7 DEF StartBatch, MayPoll
<1>8. CASE EndBatch(i) BY <1>8 DEF EndBatch
<1>9. CASE Relinquish(i) BY <1>9 DEF Relinquish, OuterLoop, stopHeartbeat
<1>10. CASE Drained(i) BY <1>10 DEF Drained, DrainOver, stopHeartbeat
<1>11. CASE DrainTimeout(i) BY <1>11 DEF DrainTimeout
<1>12. CASE ReleaseGet(i) BY <1>12 DEF ReleaseGet
<1>13. CASE ReleaseDel(i) BY <1>13 DEF ReleaseDel, PutKey
<1>14. CASE ReleaseFails(i) BY <1>14 DEF ReleaseFails
<1>15. CASE HeartbeatGet(i) BY <1>15 DEF HeartbeatGet, MayTick
<1>16. CASE HeartbeatSet(i) BY <1>16 DEF HeartbeatSet, PutKey
<1>17. CASE HeartbeatFails(i) BY <1>17 DEF HeartbeatFails, MayTick, PutKey
<1>18. CASE Exit(i) BY <1>18 DEF Exit
<1> QED BY <1>1, <1>2, <1>3, <1>4, <1>5, <1>6, <1>7, <1>8, <1>9, <1>10, <1>11, <1>12,
           <1>13, <1>14, <1>15, <1>16, <1>17, <1>18
        DEF LeaseAction, LeaseCode, LeaseHeartbeat, LeaseFaults

\* Once lapsed, always lapsed: the history variable is never reset.
LEMMA LapsedStays == lapsed /\ [LeaseNext]_leaseVars => lapsed'
<1> SUFFICES ASSUME lapsed, [LeaseNext]_leaseVars PROVE lapsed'
  OBVIOUS
<1> USE DEF keyHistory, leaseVars
<1>1. ASSUME NEW i \in Instance, LeaseAction(i) PROVE lapsed'
  BY <1>1 DEF LeaseAction, LeaseCode, LeaseHeartbeat, LeaseFaults, Start, Shutdown,
              EndBatch, Exit, SetNx, Lead, Wake, StartBatch, Relinquish, Drained,
              ReleaseGet, ReleaseDel, HeartbeatGet, HeartbeatSet, SetNxFails,
              HeartbeatFails, DrainTimeout, ReleaseFails
<1> QED BY <1>1, LeaseNextShape DEF Expire, Lapse

LEMMA LeaseInvInit == LeaseInit => LeaseInv
BY LeaseTypeInit DEF LeaseInit, LeaseInv, LeaseShape, OwnsUnlessLapsed, Owns

LEMMA LeaseInvStep == LeaseInv /\ [LeaseNext]_leaseVars => LeaseInv'
<1> SUFFICES ASSUME LeaseInv, [LeaseNext]_leaseVars PROVE LeaseInv'
  OBVIOUS
<1>1. LeaseTypeOK' /\ LeaseShape'
  BY LeaseTypeStep, LeaseShapeStep DEF LeaseInv
<1>2. OwnsUnlessLapsed'
  <2>1. CASE Expire
    <3> SUFFICES ASSUME ~lapsed', NEW i \in Instance PROVE Owns(i)'
      BY DEF OwnsUnlessLapsed
    <3>1. ~Relied /\ Owns(i)
      BY <2>1 DEF Expire, LeaseInv, OwnsUnlessLapsed
    <3>2. UNCHANGED <<running, isLeader, loop, timer, tick, stop>>
      BY <2>1 DEF Expire
    <3> QED BY <3>1, <3>2 DEF Relied, AtWork, Owns, LeaseInv, LeaseTypeOK
  <2>2. CASE Lapse BY <2>2 DEF Lapse, OwnsUnlessLapsed
  <2>3. ASSUME NEW i \in Instance, LeaseAction(i) PROVE OwnsUnlessLapsed'
    <3>1. lapsed => lapsed'
      BY LapsedStays
    <3> SUFFICES ASSUME ~lapsed', NEW j \in Instance PROVE Owns(j)'
      BY DEF OwnsUnlessLapsed
    <3>2. \A k \in Instance : Owns(k)
      BY <3>1 DEF LeaseInv, OwnsUnlessLapsed
    <3>3. CASE j = i BY <2>3, <3>2, <3>3, SelfOwns DEF LeaseInv
    <3>4. CASE j # i BY <2>3, <3>2, <3>4, OthersOwn DEF LeaseInv
    <3> QED BY <3>3, <3>4
  <2>4. CASE UNCHANGED leaseVars
    BY <2>4 DEF leaseVars, keyHistory, LeaseInv, OwnsUnlessLapsed, Owns
  <2> QED BY <2>1, <2>2, <2>3, <2>4, LeaseNextShape
<1> QED BY <1>1, <1>2 DEF LeaseInv

\* Two instances never publish at the same time while the lease has not
\* lapsed under its owner: two batches would be two owners of one key.
THEOREM PublishersExclude == LeaseSpec => []ExclusiveUnlessLapsed
<1>1. LeaseInv => ExclusiveUnlessLapsed
  BY DEF LeaseInv, OwnsUnlessLapsed, Owns, ExclusiveUnlessLapsed, AtMostOneBatch
<1> QED BY <1>1, LeaseInvInit, LeaseInvStep, PTL DEF LeaseSpec

-----------------------------------------------------------------------------
(* What a lost key costs.                                                  *)

\* An instance that leads, or is about to, without the key has not been told.
LossUnseen == \A i \in Instance :
                 isLeader[i] \/ loop[i] = "acquired" => lock = i \/ unseen[i]

\* The key moves: whoever leads without it now has just lost it, or had not
\* read an earlier loss.
LEMMA PutKeyUnseen ==
    ASSUME LeaseTypeOK, LossUnseen, NEW k \in Instance \cup {Free}, PutKey(k),
           NEW j \in Instance, isLeader[j] \/ loop[j] = "acquired"
    PROVE  lock' = j \/ unseen'[j]
BY DEF PutKey, AtWork, LeaseTypeOK, LossUnseen

LEMMA LossUnseenStep ==
    ASSUME LeaseTypeOK, LossUnseen, [LeaseNext]_leaseVars
    PROVE  LossUnseen'
<1>1. CASE Expire \/ Lapse
  <2>1. PutKey(Free) /\ UNCHANGED <<isLeader, loop>>
    BY <1>1 DEF Expire, Lapse
  <2> QED BY <2>1, PutKeyUnseen DEF LossUnseen
<1>2. ASSUME NEW i \in Instance, LeaseAction(i) PROVE LossUnseen'
  <2> SUFFICES ASSUME NEW j \in Instance, isLeader'[j] \/ loop'[j] = "acquired"
               PROVE  lock' = j \/ unseen'[j]
    BY DEF LossUnseen
  <2> USE DEF LeaseTypeOK
  <2>1. CASE Start(i) \/ Shutdown(i) \/ EndBatch(i)
    BY <2>1 DEF Start, Shutdown, EndBatch, LossUnseen, keyHistory
  <2>2. CASE Exit(i) BY <2>2 DEF Exit, LossUnseen
  <2>3. CASE SetNx(i)
    <3>1. CASE PutKey(i)
      BY <2>3, <3>1, PutKeyUnseen DEF SetNx, PutKey
    <3>2. CASE UNCHANGED <<lock, overdue, unseen>> /\ loop' = [loop EXCEPT ![i] = "sleep"]
      BY <2>3, <3>2 DEF SetNx, LossUnseen
    <3> QED BY <2>3, <3>1, <3>2 DEF SetNx
  <2>4. CASE SetNxFails(i)
    <3>1. isLeader[j] \/ loop[j] = "acquired"
      BY <2>4 DEF SetNxFails
    <3> QED BY <2>4, <3>1, PutKeyUnseen DEF SetNxFails, LossUnseen
  <2>5. CASE Lead(i) BY <2>5 DEF Lead, LossUnseen, keyHistory
  <2>6. CASE Wake(i) \/ StartBatch(i)
    BY <2>6 DEF Wake, OuterLoop, StartBatch, LossUnseen, keyHistory
  <2>7. CASE Relinquish(i) BY <2>7 DEF Relinquish, OuterLoop, LossUnseen
  <2>8. CASE Drained(i) \/ DrainTimeout(i)
    BY <2>8 DEF Drained, DrainTimeout, LossUnseen, keyHistory
  <2>9. CASE ReleaseGet(i) \/ ReleaseFails(i)
    BY <2>9 DEF ReleaseGet, ReleaseFails, LossUnseen, keyHistory
  <2>10. CASE ReleaseDel(i)
    <3>1. PutKey(Free) /\ UNCHANGED <<isLeader, loop>>
      BY <2>10 DEF ReleaseDel
    <3> QED BY <3>1, PutKeyUnseen
  <2>11. CASE HeartbeatGet(i) BY <2>11 DEF HeartbeatGet, MayTick, LossUnseen
  <2>12. CASE HeartbeatSet(i)
    <3>1. CASE PutKey(i) /\ UNCHANGED isLeader
      BY <2>12, <3>1, PutKeyUnseen DEF HeartbeatSet
    <3>2. CASE isLeader' = [isLeader EXCEPT ![i] = FALSE]
               /\ unseen' = [unseen EXCEPT ![i] = FALSE] /\ lock' = lock
      BY <2>12, <3>2 DEF HeartbeatSet, LossUnseen
    <3> QED BY <2>12, <3>1, <3>2 DEF HeartbeatSet
  <2>13. CASE HeartbeatFails(i)
    <3>1. UNCHANGED <<isLeader, loop>>
      BY <2>13 DEF HeartbeatFails
    <3> QED BY <2>13, <3>1, PutKeyUnseen DEF HeartbeatFails, LossUnseen
  <2> QED BY <1>2, <2>1, <2>2, <2>3, <2>4, <2>5, <2>6, <2>7, <2>8, <2>9, <2>10, <2>11,
             <2>12, <2>13
          DEF LeaseAction, LeaseCode, LeaseHeartbeat, LeaseFaults
<1>3. CASE UNCHANGED leaseVars BY <1>3 DEF leaseVars, keyHistory, LossUnseen
<1> QED BY <1>1, <1>2, <1>3, LeaseNextShape

\* No batch begins at an instance that has lost the key and read so, however
\* the key was lost: by a failed tick, a lapse, or another's SET XX or DEL.
THEOREM LossIsFinal == LeaseSpec => LossEndsBatches
<1> DEFINE Inv == LeaseTypeOK /\ LossUnseen
           Step == \A i \in Instance : StartBatch(i) => lock = i \/ unseen[i]
<1>1. LeaseInit => Inv
  BY LeaseTypeInit DEF LeaseInit, LossUnseen
<1>2. Inv /\ [LeaseNext]_leaseVars => Inv'
  BY LeaseTypeStep, LossUnseenStep
<1>3. Inv /\ [LeaseNext]_leaseVars => [Step]_leaseVars
  BY DEF StartBatch, MayPoll, LossUnseen
<1> QED BY <1>1, <1>2, <1>3, PTL DEF LeaseSpec, LossEndsBatches
=============================================================================
