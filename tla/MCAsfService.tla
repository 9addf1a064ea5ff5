----------------------------- MODULE MCAsfService -----------------------------
(* Two processes and the runs of one repository, with one run elsewhere. *)
EXTENDS AsfService, TLC
MCRepo == [r \in Runs |-> IF r <= 2 THEN "a" ELSE "b"]
=============================================================================
