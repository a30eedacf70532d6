-------------------------- MODULE MCIncrementScore --------------------------
(***************************************************************************)
(* Finite instances of IncrementScore.                                     *)
(***************************************************************************)
EXTENDS IncrementScore, TLC

\* A body with delta 0 passes the token guard and fails the schema; one with
\* delta 2 exceeds the cap of the tokens below.
SmallDeltas == {0, 1}
Deltas == {0, 1, 2}
Caps == {1}

AllFaults == {"db", "ack", "redis", "crash"}
NoFaults == {}

\* Sound for the safety run: no definition tells one request, user or action
\* from another.
Symmetry == Permutations(Request) \cup Permutations(User) \cup Permutations(Action)
=============================================================================
