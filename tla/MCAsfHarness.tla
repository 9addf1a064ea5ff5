---------------------------- MODULE MCAsfHarness ----------------------------
(* Provider invocations on a small instance. *)
EXTENDS AsfHarness
=============================================================================
