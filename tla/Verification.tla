---------------------------- MODULE Verification ----------------------------
(***************************************************************************)
(* The local verification engine (src/src/verification/engine.ts and       *)
(* report.ts): every required check runs in a checkout of its own, at the  *)
(* base and at the candidate, and the tests it reports are compared.       *)
(*                                                                         *)
(* A check is [id, required, runs, report, declared]: whether it has a     *)
(* command, whether it declares a report, and the tests that may be        *)
(* skipped.  An execution is [ended, exit, changed, stale, written, zero,  *)
(* focused, skips]: how the command ended, whether the tree changed,       *)
(* whether the report was there before or cannot be trusted, what was      *)
(* written into it, and what the output says of itself.  A report is       *)
(* [format, wellFormed, planned, tests].                                   *)
(***************************************************************************)
EXTENDS Naturals, Sequences, FiniteSets

Formats == {"junit", "tap", "go-json"}
Tests(c) == {c.tests[i] : i \in DOMAIN c.tests}

\* rejectInvalidIdentities.
Identified(c) ==
  /\ \A t \in Tests(c) : t.id # ""
  /\ \A i, j \in DOMAIN c.tests : c.tests[i].id = c.tests[j].id => i = j

\* xmlStructureProblem, then validateJunit: a test may not be both failed and
\* skipped.
ValidateJunit(c) ==
  c.wellFormed /\ c.tests # <<>> /\ \A t \in Tests(c) : t.status # "contradictory"

\* validateTap: as many tests as were planned.
ValidateTap(c) == c.wellFormed /\ c.planned > 0 /\ Len(c.tests) = c.planned

\* validateGoJson.
ValidateGoJson(c) == c.wellFormed /\ c.tests # <<>>

\* validateReportContent.
ValidReport(c) ==
  /\ Identified(c)
  /\ CASE c.format = "junit" -> ValidateJunit(c)
       [] c.format = "tap" -> ValidateTap(c)
       [] c.format = "go-json" -> ValidateGoJson(c)
       [] OTHER -> FALSE

\* prepareReport: a report that is already there may be stale.
Prepared(check, x) == check.report /\ x.written.format \in Formats /\ ~x.stale

\* inspectReport.
Proven(check, x) == Prepared(check, x) /\ ValidReport(x.written)
With(status, check, x) ==
  IF Proven(check, x) THEN {t.id : t \in {u \in Tests(x.written) : u.status = status}} ELSE {}

\* countReportedSkips against the report.
SkipsAgree(check, x) ==
  x.skips > 0 => x.skips = Cardinality(With("skipped", check, x))

\* baselineProblem, negated; a check may fail at the base.
BaselineHolds(check, x) ==
  /\ x.ended = "exited" /\ ~x.changed /\ Proven(check, x)
  /\ ~x.zero /\ ~x.focused /\ SkipsAgree(check, x)

\* Mutant: the number of tests is compared, not their names.
InventoriesKeptByCount(check, base, x) ==
  Cardinality(With("passed", check, base))
    <= Cardinality(With("passed", check, x)) + Cardinality(check.declared)

\* compareInventories: what is skipped, or passed at the base and is gone, is
\* exactly what was declared.
InventoriesKept(check, base, x) ==
  check.declared =
    With("skipped", check, x)
      \cup (With("passed", check, base) \ (With("passed", check, x) \cup With("failed", check, x)))

\* #executeAt, and what run makes of it: the check passed on the candidate.
Passes(check, base, x) ==
  /\ x.ended # "timeout" /\ x.exit = 0 /\ ~x.changed
  /\ ~x.zero /\ ~x.focused
  /\ With("failed", check, x) = {} /\ SkipsAgree(check, x)
  /\ IF check.report
     THEN BaselineHolds(check, base) /\ Proven(check, x) /\ InventoriesKept(check, base, x)
     ELSE check.declared = {}

\* resolveManifest, as the orchestrator calls it.
ResolveManifest(configured) == {check \in configured : check.required}

\* run: v is [checks, strict, base, cand], where strict is failOnSkippedCheck.
\* An empty manifest is refused (assertEffectiveVerificationChecks).
MergeReady(v) ==
  LET manifest == ResolveManifest(v.checks)
  IN /\ manifest # {}
     /\ \A check \in manifest :
          /\ check.runs /\ Passes(check, v.base[check.id], v.cand[check.id])
          /\ v.strict => Proven(check, v.cand[check.id])

\* What the orchestrator relies on: every required check ended well on the
\* unchanged candidate and no test that passed at the base is lost without
\* having been declared.
Preserves(v) ==
  \A check \in {c \in v.checks : c.required} :
    LET base == v.base[check.id]
        x == v.cand[check.id]
        Passed(y) == {t.id : t \in {u \in Tests(y.written) : u.status = "passed"}}
    IN /\ x.ended = "exited" /\ x.exit = 0 /\ ~x.changed /\ ~x.zero
       /\ check.report => Passed(base) \subseteq Passed(x) \cup check.declared
       /\ v.strict => check.report /\ ~x.stale
=============================================================================
