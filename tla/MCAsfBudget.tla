----------------------------- MODULE MCAsfBudget -----------------------------
(* The provider budget on a small instance. *)
EXTENDS AsfBudget
=============================================================================
