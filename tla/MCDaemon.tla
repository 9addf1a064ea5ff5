------------------------------ MODULE MCDaemon ------------------------------
(* Two daemon processes of one project. *)
EXTENDS Daemon, TLC

Symmetry == Permutations(Daemons)
=============================================================================
