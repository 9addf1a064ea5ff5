--------------------------- MODULE MCAsfEvidence ---------------------------
(* Two hosts and two delivered runs that store the same bytes, under one   *)
(* declaration or under two.                                               *)
EXTENDS AsfEvidence, TLC

MCDigest(r) == "shared"
MCDeclarations == {<<"review", "review">>, <<"review", "side-effect">>}
Symmetry == Permutations(Hosts)
=============================================================================
