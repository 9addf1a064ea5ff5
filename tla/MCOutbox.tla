------------------------------ MODULE MCOutbox ------------------------------
(* Two or three runs on one store, with two operations each. *)
EXTENDS Outbox, TLC

Symmetry == Permutations(Runs)
=============================================================================
