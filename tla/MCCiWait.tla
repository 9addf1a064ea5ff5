------------------------------ MODULE MCCiWait ------------------------------
(* One or two required contexts, an expected app, an unmapped context. *)
EXTENDS CiWait, TLC

CONSTANTS build, lint, ci, rogue

BuildFromCi == [name |-> build, app |-> ci]
LintFromAny == [name |-> lint, app |-> NoApp]

\* One context that can be re-run, two contexts, one that is not mapped.
BranchRules ==
  {build :> BuildFromCi,
   build :> BuildFromCi @@ lint :> LintFromAny,
   build :> BuildFromCi @@ lint :> NoMapping}
=============================================================================
