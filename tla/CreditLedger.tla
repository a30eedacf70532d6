---------------------------- MODULE CreditLedger ----------------------------
(***************************************************************************)
(* What the score write path promises, with no request, transaction,       *)
(* token, cache or retry in sight: an action is credited at most once, a   *)
(* user's balance moves by exactly the delta of a credit, the credit and   *)
(* its announcement (the outbox rows) appear in the same step, and only a  *)
(* credited action is ever acknowledged, once.                             *)
(*                                                                         *)
(* IncrementScore implements this module; see Ledger!Spec there.           *)
(***************************************************************************)
EXTENDS Naturals

CONSTANTS User, Action, Delta

VARIABLES ledger,     \* the credits, one entry each
          balance,    \* [User -> Nat]
          announced,  \* actions whose domain events are durable
          acked       \* actions a caller was told are committed

ledgerVars == <<ledger, balance, announced, acked>>

Entry == [action : Action, user : User, delta : Delta]

Credited(a) == \E e \in ledger : e.action = a

Init == /\ ledger = {}
        /\ balance = [u \in User |-> 0]
        /\ announced = {}
        /\ acked = {}

Credit(e) == /\ ~Credited(e.action)
             /\ ledger' = ledger \cup {e}
             /\ balance' = [balance EXCEPT ![e.user] = @ + e.delta]
             /\ announced' = announced \cup {e.action}
             /\ UNCHANGED acked

Acknowledge(a) == /\ Credited(a)
                  /\ a \notin acked
                  /\ acked' = acked \cup {a}
                  /\ UNCHANGED <<ledger, balance, announced>>

Next == \/ \E e \in Entry : Credit(e)
        \/ \E a \in Action : Acknowledge(a)

Spec == Init /\ [][Next]_ledgerVars
=============================================================================
