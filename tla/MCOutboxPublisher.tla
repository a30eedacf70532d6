------------------------- MODULE MCOutboxPublisher -------------------------
(***************************************************************************)
(* Finite instances of OutboxPublisher.                                    *)
(***************************************************************************)
EXTENDS OutboxPublisher, TLC

InstanceSymmetry == Permutations(Instance)
=============================================================================
