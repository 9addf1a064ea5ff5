----------------------------- MODULE MCGitLease -----------------------------
(* The lease of one issue for a few runs and a short clock. *)
EXTENDS GitLease, TLC

Symmetry == Permutations(Runs) \cup Permutations(Priors)
=============================================================================
