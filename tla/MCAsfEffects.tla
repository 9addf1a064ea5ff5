---------------------------- MODULE MCAsfEffects ----------------------------
(* One run on a few hosts. *)
EXTENDS AsfEffects, TLC

Symmetry == Permutations(Hosts)
=============================================================================
