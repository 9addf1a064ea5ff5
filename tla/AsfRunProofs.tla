---------------------------- MODULE AsfRunProofs ----------------------------
(***************************************************************************)
(* Proofs about the life cycle of an ASF run, for every number of checks,  *)
(* contexts and fixes, every set of listings and any number of faults.     *)
(*                                                                         *)
(* The inductive invariant RunInv says of the phase the run is in, or      *)
(* comes back to after a pause ("Where"):                                  *)
(*   - Control: who may have the run in it, and that a host that took a    *)
(*     paused run has no more of it than its ownership;                    *)
(*   - Facts: which candidate it is about (Numbered), that the recorded    *)
(*     gates are no better than the reports of the controllers (Recorded), *)
(*     that the coverage checkpoint is current just when all checks have   *)
(*     passed, wherever the run may go on from (Verifying), and the gates  *)
(*     behind the candidate (Vetted);                                      *)
(*   - Owning: what the owner remembers agrees with the record.            *)
(* The store accepts an event only with its gates; that a gate says what a *)
(* controller said, and that the store refuses the owner no event but one  *)
(* in the middle of a report (MidReport), takes all of them together.      *)
(***************************************************************************)
EXTENDS AsfRun, FiniteSetTheorems, TLAPS

-----------------------------------------------------------------------------
(* The inductive invariant. *)

\* The phase the run is in, or comes back to.
Where == IF phase \in Paused THEN resume ELSE phase

Early == {"ADMITTED", "REPOSITORY_LEASED", "IDENTITY_READY", "WORKSPACE_READY",
          "TASK_PACKET_READY", "IMPLEMENTING"}
Delivered == {"PR_DELIVERED", "EVIDENCE_FINALIZED", "COMPLETED"}
Approved == {"DELIVERY_READY", "PUSHED", "PR_OPEN", "CI_WAIT", "PR_REVIEW"} \cup Delivered
Checked == {"LOCAL_REVIEW"} \cup Approved
Numbers == {"CANDIDATE_READY", "LOCAL_VERIFY"} \cup Checked

\* Who has the run, and where it can be: of a paused run a host that was
\* restarted takes no more than the ownership.
Control ==
  /\ phase \in (NormalPhases \ MergePhases) \cup TerminalPhases \cup Paused
  /\ phase \in NormalPhases => resume = "none"
  /\ phase \in Paused => resume \in NormalPhases \ MergePhases
  /\ w.pc # "none" => ~queued
  /\ w.pc # "none" => phase \notin TerminalPhases \/ (phase = "COMPLETED" /\ w.pc = "loop")
  /\ phase \in Paused =>
       w.pc \in {"none", "claimed", "authorized", "dispatch", "loop", "failing"}
  /\ cp = NoCheckpoint => phase = "ADMITTED" /\ w.pc = "none"
  /\ w.pc \in {"claimed", "authorized", "dispatch"} /\ ~w.takeover => phase = "ADMITTED"
  /\ w.pc \in {"recording", "recorded"} => phase = "LOCAL_VERIFY"
  /\ w.pc = "ci" => phase = "CI_WAIT"
  /\ w.pc = "failing" =>
       w.to \in DIRECT_STOP_PHASES \/ (w.to \in Paused /\ phase \in NormalPhases)

\* Candidates are numbered by the fixes.
Numbered ==
  /\ Where \in Early => cand = 0 /\ fixes = 0
  /\ Where = "FIXING" => cand = fixes /\ cand > 0
  /\ Where \in Numbers => cand = fixes + 1

\* The recorded gates are what the controllers reported: of the checks, once all
\* of them have passed.
Recorded ==
  \A c \in Candidates :
    /\ c > cand => gates[c] = NoGates /\ seen[c] = Unseen
    /\ gates[c].review = seen[c].review /\ gates[c].pr = seen[c].pr
    /\ ChecksPassed(gates[c]) => ChecksPassed(seen[c])

\* The pauses that an approval or a reconciliation ends.
MayResumeFrom(p) == phase = p \/ (resume = p /\ (phase = "WAITING_APPROVAL" \/ HasContinuation))

\* All checks of a candidate have passed when its checkpoint is current, and only
\* then, wherever the run may go on from.
Verifying ==
  /\ Where = "CANDIDATE_READY" => \A i \in Checks : gates[cand].check[i] = "none"
  /\ MayResumeFrom("LOCAL_VERIFY") =>
       (ChecksPassed(gates[cand]) => IsCurrent("local-verification-pass"))
  /\ cp.kind = "local-verification-pass" => cp.phase = "LOCAL_VERIFY"
  /\ IsCurrent("local-verification-pass") => cand # 0 /\ ChecksPassed(gates[cand])

\* What the phase says about the candidate.
Vetted ==
  /\ Where \in Checked => ChecksPassed(gates[cand])
  /\ Where \in Approved => gates[cand].review = "approved"
  /\ last = "ci.revalidated" => cand # 0 /\ seen[cand].ci
  /\ Where \in Delivered => gates[cand].pr = "approved" /\ seen[cand].ci
  /\ Where \in {"EVIDENCE_FINALIZED", "COMPLETED"} => bundle = cand

Facts == Numbered /\ Recorded /\ Verifying /\ Vetted

\* What the owner has in hand: its count of fixes misses those that CI asked
\* for, and its report is on record as far as it got.
Owning ==
  /\ w.pc \in {"dispatch", "loop", "recording", "recorded", "reviewed", "ci"} =>
       fixes <= w.fix + MaxFixIterations
  /\ w.pc = "failing" /\ w.to = "WAITING_APPROVAL" => ~IsCurrent("local-verification-pass")
  /\ w.pc = "recording" =>
       /\ w.report = seen[cand].check /\ w.report \in [Checks -> Verdicts]
       /\ \A j \in Checks : j < w.i => gates[cand].check[j] = w.report[j]
       /\ ~IsCurrent("local-verification-pass")
  /\ w.pc = "recorded" =>
       w.to = "BLOCKED_EXTERNAL" \/ \E i \in Checks : gates[cand].check[i] = "failed"

Owners == [pc : {"none", "claimed", "authorized", "dispatch", "loop", "recording", "recorded",
                 "reviewed", "ci", "failing"},
           to : RUN_EVENT_PHASES \cup {"none"}, takeover : BOOLEAN,
           plan : RecoveryActions \cup {"none"}, step : 0 .. Len(TakeoverFencing),
           fix : 0 .. 2 * MaxFixIterations,
           local : BOOLEAN, pr : BOOLEAN, session : BOOLEAN, resume : BOOLEAN,
           report : [Checks -> Verdicts \cup {"none"}], i : Checks]
Gates == [check : [Checks -> Verdicts \cup {"none"}], review : Reviews \cup {"none"},
          remote : [Contexts -> CiOutcomes \cup {"none"}], pr : Reviews \cup {"none"}]
Reports == [check : [Checks -> Verdicts \cup {"none"}], review : Reviews \cup {"none"},
            pr : Reviews \cup {"none"}, ci : BOOLEAN]
Typed == TypeOK /\ seen \in [Candidates -> Reports]

RunInv == Typed /\ Control /\ Facts /\ Owning /\ WorksOnItsOwn

\* A step that keeps it, and the store refuses nothing.
NoRefusal == refused' => refused
Kept == RunInv' /\ NoRefusal

-----------------------------------------------------------------------------
(* The tables. *)

\* The events of the runner are steps of the phase table (assertRunEventTransition).
LEMMA EventsFit ==
  /\ EventStep("repository.lease_acquired", "ADMITTED", "REPOSITORY_LEASED")
  /\ EventStep("identity.leases_acquired", "REPOSITORY_LEASED", "IDENTITY_READY")
  /\ EventStep("workspace.prepared", "IDENTITY_READY", "WORKSPACE_READY")
  /\ EventStep("task_packet.created", "WORKSPACE_READY", "TASK_PACKET_READY")
  /\ EventStep("implementation.started", "TASK_PACKET_READY", "IMPLEMENTING")
  /\ EventStep("candidate.created", "IMPLEMENTING", "CANDIDATE_READY")
  /\ EventStep("candidate.created", "FIXING", "CANDIDATE_READY")
  /\ EventStep("verification.started", "CANDIDATE_READY", "LOCAL_VERIFY")
  /\ EventStep("verification.completed", "LOCAL_VERIFY", "LOCAL_VERIFY")
  /\ EventStep("review.started", "LOCAL_VERIFY", "LOCAL_REVIEW")
  /\ EventStep("review.completed", "LOCAL_REVIEW", "LOCAL_REVIEW")
  /\ \A from \in {"LOCAL_VERIFY", "LOCAL_REVIEW", "CI_WAIT", "PR_REVIEW"} :
       EventStep("fixing.started", from, "FIXING")
  /\ EventStep("delivery.ready", "LOCAL_REVIEW", "DELIVERY_READY")
  /\ EventStep("branch.pushed", "DELIVERY_READY", "PUSHED")
  /\ EventStep("pull_request.opened", "PUSHED", "PR_OPEN")
  /\ EventStep("ci.waiting", "PR_OPEN", "CI_WAIT")
  /\ EventStep("ci.completed", "CI_WAIT", "CI_WAIT")
  /\ EventStep("ci.recheck_completed", "PR_REVIEW", "CI_WAIT")
  /\ EventStep("pr_review.started", "CI_WAIT", "PR_REVIEW")
  /\ EventStep("pr_review.completed", "PR_REVIEW", "PR_REVIEW")
  /\ EventStep("ci.revalidated", "PR_REVIEW", "PR_REVIEW")
  /\ EventStep("pull_request.delivered", "PR_REVIEW", "PR_DELIVERED")
  /\ EventStep("evidence.finalized", "PR_DELIVERED", "EVIDENCE_FINALIZED")
  /\ EventStep("run.completed", "EVIDENCE_FINALIZED", "COMPLETED")
BY DEF EventStep, PhaseStep, RUN_EVENT_FROM_PHASES, NORMAL_PHASE_SUCCESSORS,
       TerminalPhases, DIRECT_STOP_PHASES, CHECKPOINT_SELF_TRANSITIONS

\* Each kind of checkpoint has one policy.
LEMMA PolicyOfRow == \A row \in Policies : PolicyOf(row.kind) = row
<1>1. \A r, s \in Policies : r.kind = s.kind => r = s
  BY DEF Policies, PreparationPolicies, CandidatePolicies, DeliveryPolicies, ClosurePolicies, Row
<1> QED BY <1>1 DEF PolicyOf

\* The checkpoints of the runner's events fit their phase and candidate
\* (semanticCheckpointValidation).
LEMMA CheckpointsFit ==
  /\ CheckpointFits("repository-lease-acquisition", "REPOSITORY_LEASED", 0)
  /\ CheckpointFits("identity-lease-acquisition", "IDENTITY_READY", 0)
  /\ CheckpointFits("workspace-sandbox-proof", "WORKSPACE_READY", 0)
  /\ CheckpointFits("task-packet-creation", "TASK_PACKET_READY", 0)
  /\ CheckpointFits("implementer-session-marker", "IMPLEMENTING", 0)
  /\ \A c \in Nat \ {0} :
       /\ CheckpointFits("candidate-commit-creation", "CANDIDATE_READY", c)
       /\ CheckpointFits("local-verification-pass", "LOCAL_VERIFY", c)
       /\ CheckpointFits("local-review-fixer-iteration", "LOCAL_REVIEW", c)
       /\ CheckpointFits("branch-push-intent-observation", "PUSHED", c)
       /\ CheckpointFits("pull-request-intent-observation", "PR_OPEN", c)
       /\ CheckpointFits("ci-reconciliation-snapshot", "CI_WAIT", c)
       /\ CheckpointFits("pr-review-fixer-iteration", "PR_REVIEW", c)
       /\ CheckpointFits("pr-review-fixer-iteration", "PR_DELIVERED", c)
       /\ CheckpointFits("evidence-finalization-acknowledgement", "EVIDENCE_FINALIZED", c)
       /\ CheckpointFits("lease-release-workspace-cleanup", "COMPLETED", c)
<1>1. \A row \in Policies : \A p \in row.phases : \A c \in Nat :
        (row.cand = "none" => c = 0) /\ (row.cand = "required" => c # 0)
          => CheckpointFits(row.kind, p, c)
  BY PolicyOfRow DEF CheckpointFits
<1>2. ASSUME NEW kind, NEW phases, NEW replay, NEW observe, NEW drop, NEW candidate, NEW roles,
             Row(kind, phases, replay, observe, drop, candidate, roles) \in Policies,
             NEW p \in phases, NEW c \in Nat,
             candidate = "none" => c = 0, candidate = "required" => c # 0
      PROVE  CheckpointFits(kind, p, c)
  BY <1>1, <1>2 DEF Row
<1> QED
  BY <1>2 DEF Policies, PreparationPolicies, CandidatePolicies, DeliveryPolicies, ClosurePolicies,
              TerminalPhases

\* The kinds of the runner's checkpoints.
LEMMA KindsFit ==
  {"work-order-admission", "repository-lease-acquisition", "identity-lease-acquisition",
   "workspace-sandbox-proof", "task-packet-creation", "implementer-session-marker",
   "candidate-commit-creation", "local-verification-pass", "local-review-fixer-iteration",
   "branch-push-intent-observation", "pull-request-intent-observation",
   "ci-reconciliation-snapshot", "pr-review-fixer-iteration",
   "evidence-finalization-acknowledgement", "lease-release-workspace-cleanup"} \subseteq Kinds
<1>1. \A row \in Policies : row.kind \in Kinds
  BY DEF Kinds
<1>2. ASSUME NEW kind, NEW phases, NEW replay, NEW observe, NEW drop, NEW candidate, NEW roles,
             Row(kind, phases, replay, observe, drop, candidate, roles) \in Policies
      PROVE  kind \in Kinds
  BY <1>1, <1>2 DEF Row
<1> QED
  BY <1>2 DEF Policies, PreparationPolicies, CandidatePolicies, DeliveryPolicies, ClosurePolicies

\* How the sets of phases relate.
LEMMA PhaseSets ==
  /\ (NormalPhases \ MergePhases) \cap Paused = {} /\ TerminalPhases \cap Paused = {}
  /\ NormalPhases \cap TerminalPhases = {} /\ NormalPhases \cap DIRECT_STOP_PHASES = {}
  /\ NormalPhases \ MergePhases =
       Early \cup {"FIXING", "CANDIDATE_READY", "LOCAL_VERIFY"} \cup (Checked \ {"COMPLETED"})
  /\ NormalPhases \subseteq RUN_EVENT_PHASES /\ TerminalPhases \subseteq RUN_EVENT_PHASES
  /\ Paused \subseteq RUN_EVENT_PHASES /\ TerminalPhases \cap MergePhases = {}
  /\ Paused \cap MergePhases = {} /\ DIRECT_STOP_PHASES \subseteq TerminalPhases
  /\ "COMPLETED" \in TerminalPhases /\ "COMPLETED" \notin DIRECT_STOP_PHASES
  BY DEF NormalPhases, MergePhases, Paused, TerminalPhases, DIRECT_STOP_PHASES, RUN_EVENT_PHASES,
         INTERRUPTING_PHASES, Early, Checked, Approved, Delivered

-----------------------------------------------------------------------------
(* What CI says. *)

\* The range of a function of a finite domain is finite.
LEMMA ImageIsFinite ==
  ASSUME NEW S, IsFiniteSet(S), NEW f, DOMAIN f = S
  PROVE  IsFiniteSet({f[x] : x \in S})
<1> DEFINE T == {f[x] : x \in S}
           g == [x \in S |-> f[x]]
<1>1. g \in Surjection(S, T)
  BY DEF Surjection
<1> HIDE DEF T, g
<1>2. IsFiniteSet(T)
  BY <1>1, FS_Surjection
<1> QED BY <1>2 DEF T

\* A context has one of four outcomes (normalizedOutcome); "passed" takes rows,
\* all coherent, of one producer, of which the latest passed.
LEMMA OutcomesOfRows ==
  ASSUME NEW rows, IsFiniteSet(rows),
         \A o \in rows : o.outcome \in {"passed", "pending", "failed"} /\ o.at \in Nat
  PROVE  /\ Ci!NormalizedOutcome(rows) \in CiOutcomes
         /\ Ci!NormalizedOutcome(rows) = "passed" =>
              /\ \A o \in rows : o.coherent
              /\ \A o, p \in rows : o.source = p.source /\ o.by = p.by
              /\ \E o \in rows : o.outcome = "passed" /\ \A p \in rows : p.at <= o.at
              /\ \A o \in rows : (\A p \in rows : p.at <= o.at) => o.outcome = "passed"
<1> DEFINE latest == {o \in rows : \A p \in rows : p.at <= o.at}
           outcomes == {o.outcome : o \in latest}
           producers == {<<o.source, o.by>> : o \in rows}
           agree == /\ rows # {} /\ (\A o \in rows : o.coherent) /\ Cardinality(outcomes) = 1
                    /\ Cardinality(producers) = 1
<1>1. Ci!NormalizedOutcome(rows) =
        CASE rows = {} -> "not-scheduled"
          [] agree -> CHOOSE outcome \in outcomes : TRUE
          [] OTHER -> "failed"
  BY DEF Ci!NormalizedOutcome
<1>2. IsFiniteSet(outcomes) /\ IsFiniteSet(producers)
  <2>1. IsFiniteSet(latest)
    BY FS_Subset
  <2> DEFINE f == [o \in latest |-> o.outcome]
             g == [o \in rows |-> <<o.source, o.by>>]
  <2>2. outcomes = {f[o] : o \in latest} /\ producers = {g[o] : o \in rows}
        /\ DOMAIN f = latest /\ DOMAIN g = rows
    OBVIOUS
  <2> HIDE DEF f, g, outcomes, producers, latest
  <2>3. IsFiniteSet({f[o] : o \in latest}) /\ IsFiniteSet({g[o] : o \in rows})
    BY <2>1, <2>2, ImageIsFinite
  <2> QED BY <2>2, <2>3
<1>3. CASE agree
  <2>1. PICK x : outcomes = {x}
    BY <1>2, <1>3, FS_Singleton
  <2>2. PICK y : producers = {y}
    BY <1>2, <1>3, FS_Singleton
  <2>3. x \in outcomes /\ Ci!NormalizedOutcome(rows) = x
    BY <1>1, <1>3, <2>1
  <2>4. PICK o \in latest : o.outcome = x
    BY <2>3
  <2>5. \A u, v \in rows : u.source = v.source /\ u.by = v.by
    <3>1. \A u \in rows : <<u.source, u.by>> = y
      BY <2>2
    <3> QED BY <3>1
  <2>6. \A u \in rows : (\A p \in rows : p.at <= u.at) => u.outcome = x
    BY <2>1
  <2> HIDE DEF outcomes, producers
  <2>7. o \in rows /\ (\A p \in rows : p.at <= o.at) /\ o.outcome = x
    BY <2>4
  <2> QED BY <1>3, <2>3, <2>5, <2>6, <2>7 DEF CiOutcomes
<1>4. CASE ~agree
  BY <1>1, <1>4 DEF CiOutcomes
<1> QED BY <1>3, <1>4

\* What the elements of a listing are.
LEMMA ListedRows ==
  ASSUME NEW l \in Listings
  PROVE  /\ DOMAIN l.runs = 1 .. Len(l.runs) /\ Len(l.runs) \in Nat
         /\ DOMAIN l.statuses = 1 .. Len(l.statuses) /\ Len(l.statuses) \in Nat
         /\ \A i \in DOMAIN l.runs :
              l.runs[i].source = "check-run" /\ l.runs[i].at \in Nat
         /\ \A i \in DOMAIN l.statuses :
              /\ l.statuses[i].source = "commit-status" /\ l.statuses[i].at \in Nat
              /\ l.statuses[i].conclusion = l.statuses[i].status
<1> DEFINE R == ListedRow("check-run")
           S == {row \in ListedRow("commit-status") : row.conclusion = row.status}
<1>1. l.runs \in Seq(R) /\ l.statuses \in Seq(S)
  BY ListingsAssumption
<1>2. (\A row \in R : row.source = "check-run" /\ row.at \in Nat)
      /\ \A row \in S : row.source = "commit-status" /\ row.at \in Nat
                        /\ row.conclusion = row.status
  BY DEF ListedRow
<1> HIDE DEF R, S
<1>3. ASSUME NEW T, NEW s \in Seq(T)
      PROVE  DOMAIN s = 1 .. Len(s) /\ Len(s) \in Nat /\ \A i \in DOMAIN s : s[i] \in T
  OBVIOUS
<1> QED BY <1>1, <1>2, <1>3

\* The controller normalizes a finite number of rows (#observeExactHead).
LEMMA RowsOfListing ==
  ASSUME NEW l \in Listings
  PROVE  /\ IsFiniteSet(Ci!Rows(l))
         /\ \A o \in Ci!Rows(l) : o.outcome \in {"passed", "pending", "failed"} /\ o.at \in Nat
<1>1. IsFiniteSet(DOMAIN l.runs) /\ IsFiniteSet(DOMAIN l.statuses)
  <2>1. \A n \in Nat : IsFiniteSet(1 .. n)
    BY FS_Interval
  <2> QED BY <2>1, ListedRows
<1> DEFINE A == {Ci!NormalizeCheckRun(l.runs[i]) : i \in DOMAIN l.runs}
           B == {Ci!NormalizeCommitStatus(l.statuses[i]) : i \in DOMAIN l.statuses}
<1>2. IsFiniteSet(A) /\ IsFiniteSet(B)
  <2> DEFINE f == [i \in DOMAIN l.runs |-> Ci!NormalizeCheckRun(l.runs[i])]
             g == [i \in DOMAIN l.statuses |-> Ci!NormalizeCommitStatus(l.statuses[i])]
  <2>1. A = {f[i] : i \in DOMAIN l.runs} /\ B = {g[i] : i \in DOMAIN l.statuses}
        /\ DOMAIN f = DOMAIN l.runs /\ DOMAIN g = DOMAIN l.statuses
    OBVIOUS
  <2> HIDE DEF A, B, f, g
  <2> QED BY <1>1, <2>1, ImageIsFinite
<1>3. Ci!Rows(l) = A \cup B
  BY DEF Ci!Rows
<1>4. IsFiniteSet(A \cup B)
  <2> HIDE DEF A, B
  <2> QED BY <1>2, FS_Union
<1>5. ASSUME NEW i \in DOMAIN l.runs
      PROVE  LET o == Ci!NormalizeCheckRun(l.runs[i])
             IN o.outcome \in {"passed", "pending", "failed"} /\ o.at \in Nat
  BY ListedRows DEF Ci!NormalizeCheckRun, Ci!Normalized, Ci!CheckRunOutcome
<1>6. ASSUME NEW i \in DOMAIN l.statuses
      PROVE  LET o == Ci!NormalizeCommitStatus(l.statuses[i])
             IN o.outcome \in {"passed", "pending", "failed"} /\ o.at \in Nat
  BY ListedRows DEF Ci!NormalizeCommitStatus, Ci!Normalized, Ci!CommitStatusOutcome
<1> QED BY <1>3, <1>4, <1>5, <1>6

\* Each context has an outcome (ObserveExactHeadCi).
LEMMA OutcomeTyped ==
  ASSUME NEW l \in Listings, NEW x
  PROVE  Ci!OutcomeOf(l, x) \in CiOutcomes
<1> DEFINE rows == {o \in Ci!Rows(l) : o.context = x}
<1>1. IsFiniteSet(rows) /\ \A o \in rows : o.outcome \in {"passed", "pending", "failed"} /\ o.at \in Nat
  BY RowsOfListing, FS_Subset
<1> HIDE DEF rows
<1>2. Ci!NormalizedOutcome(rows) \in CiOutcomes
  BY <1>1, OutcomesOfRows
<1> QED BY <1>2 DEF rows, Ci!OutcomeOf

\* A context the controller reports as passed is green on GitHub
\* (#observeExactHead, normalizedOutcome).
THEOREM PassedIsGreen ==
  ASSUME NEW l \in Listings, NEW x, Ci!OutcomeOf(l, x) = "passed"
  PROVE  Ci!Green(l, x)
<1> DEFINE rows == {o \in Ci!Rows(l) : o.context = x}
           raw == {r \in {l.runs[i] : i \in DOMAIN l.runs}
                           \cup {l.statuses[i] : i \in DOMAIN l.statuses} : r.context = x}
           norm(r) == IF r.source = "check-run" THEN Ci!NormalizeCheckRun(r)
                      ELSE Ci!NormalizeCommitStatus(r)
<1>1. IsFiniteSet(rows) /\ \A o \in rows : o.outcome \in {"passed", "pending", "failed"} /\ o.at \in Nat
  BY RowsOfListing, FS_Subset
<1>2. /\ \A o \in rows : o.coherent
      /\ \A o, p \in rows : o.source = p.source /\ o.by = p.by
      /\ \E o \in rows : o.outcome = "passed" /\ \A p \in rows : p.at <= o.at
      /\ \A o \in rows : (\A p \in rows : p.at <= o.at) => o.outcome = "passed"
  <2>1. Ci!NormalizedOutcome(rows) = "passed"
    BY DEF Ci!OutcomeOf
  <2> HIDE DEF rows
  <2> QED BY <1>1, <2>1, OutcomesOfRows
<1>3. ASSUME NEW r \in raw
      PROVE  /\ norm(r) \in rows /\ r.at \in Nat
             /\ norm(r).source = r.source /\ norm(r).by = r.by /\ norm(r).at = r.at
             /\ norm(r).coherent => r.by # 0
             /\ norm(r).outcome = "passed" => r.conclusion = "success"
  <2>1. norm(r).source = r.source /\ norm(r).by = r.by /\ norm(r).at = r.at
        /\ (norm(r).coherent => r.by # 0) /\ norm(r).context = x
    BY DEF Ci!NormalizeCheckRun, Ci!NormalizeCommitStatus, Ci!Normalized
  <2>2. CASE \E i \in DOMAIN l.runs : r = l.runs[i]
    <3>2. norm(r) = Ci!NormalizeCheckRun(r) /\ r.at \in Nat
      BY <2>2, ListedRows
    <3>3. norm(r) \in Ci!Rows(l)
      BY <2>2, <3>2 DEF Ci!Rows
    <3>4. norm(r).outcome = "passed" => r.conclusion = "success"
      BY <3>2 DEF Ci!NormalizeCheckRun, Ci!Normalized, Ci!CheckRunOutcome
    <3> HIDE DEF norm
    <3> QED BY <2>1, <3>2, <3>3, <3>4
  <2>3. CASE \E i \in DOMAIN l.statuses : r = l.statuses[i]
    <3>1. r.conclusion = r.status
      BY <2>3, ListedRows
    <3>2. norm(r) = Ci!NormalizeCommitStatus(r) /\ r.at \in Nat
      BY <2>3, ListedRows
    <3>3. norm(r) \in Ci!Rows(l)
      BY <2>3, <3>2 DEF Ci!Rows
    <3>4. norm(r).outcome = "passed" => r.conclusion = "success"
      BY <3>1, <3>2 DEF Ci!NormalizeCommitStatus, Ci!Normalized, Ci!CommitStatusOutcome
    <3> HIDE DEF norm
    <3> QED BY <2>1, <3>2, <3>3, <3>4
  <2> QED BY <2>2, <2>3
<1>4. ASSUME NEW o \in rows PROVE \E r \in raw : o = norm(r)
  <2>1. CASE \E i \in DOMAIN l.runs : o = Ci!NormalizeCheckRun(l.runs[i])
    <3>1. PICK i \in DOMAIN l.runs : o = Ci!NormalizeCheckRun(l.runs[i])
      BY <2>1
    <3>2. l.runs[i].source = "check-run" /\ l.runs[i].context = x
      BY <3>1, ListedRows DEF Ci!NormalizeCheckRun, Ci!Normalized
    <3> QED BY <3>1, <3>2
  <2>2. CASE \E i \in DOMAIN l.statuses : o = Ci!NormalizeCommitStatus(l.statuses[i])
    <3>1. PICK i \in DOMAIN l.statuses : o = Ci!NormalizeCommitStatus(l.statuses[i])
      BY <2>2
    <3>2. l.statuses[i].source = "commit-status" /\ l.statuses[i].context = x
      BY <3>1, ListedRows DEF Ci!NormalizeCommitStatus, Ci!Normalized
    <3> QED BY <3>1, <3>2
  <2> QED BY <2>1, <2>2 DEF Ci!Rows
<1>5. PICK o \in rows : o.outcome = "passed" /\ \A p \in rows : p.at <= o.at
  BY <1>2
<1>6. PICK r \in raw : o = norm(r)
  BY <1>4
<1> HIDE DEF rows, norm, raw
<1>7. r.by # 0 /\ r.conclusion = "success"
  BY <1>2, <1>3, <1>5, <1>6
<1>8. ASSUME NEW q \in raw
      PROVE  /\ q.source = r.source /\ q.by = r.by
             /\ q.at < r.at \/ (q.at = r.at /\ q.conclusion = "success")
  <2>1. norm(q) \in rows /\ norm(q).at = q.at /\ norm(r).at = r.at /\ q.at \in Nat /\ r.at \in Nat
    BY <1>3
  <2>2. q.source = r.source /\ q.by = r.by
    BY <1>2, <1>3, <1>6
  <2>3. q.at <= r.at
    BY <1>5, <1>6, <2>1
  <2>4. q.at = r.at => q.conclusion = "success"
    BY <1>2, <1>3, <1>5, <1>6, <2>1
  <2> QED BY <2>1, <2>2, <2>3, <2>4
<1> QED BY <1>7, <1>8 DEF Ci!Green, raw

-----------------------------------------------------------------------------
(* Owners. *)

\* What the assumptions say of the bounds.
LEMMA Bounds ==
  /\ NChecks \in Nat \ {0} /\ MaxFixIterations \in Nat
  /\ Checks = 1 .. NChecks /\ 1 \in Checks /\ Checks \subseteq Nat
  /\ Candidates = 1 .. 2 * MaxFixIterations + 1 /\ Candidates \subseteq Nat \ {0}
  /\ Len(TakeoverFencing) = 4
  BY AsfRunAssumption DEF Checks, Candidates, TakeoverFencing

\* Nobody and nothing yet, typed.
LEMMA BlanksTyped ==
  /\ NoOwner \in Owners /\ NoGates \in Gates /\ Unseen \in Reports
  /\ NoOwner.pc = "none"
  BY Bounds DEF NoOwner, Owners, NoGates, Gates, Unseen, Reports, NoReport

\* The owner goes on, or throws.
LEMMA OwnerMoves ==
  ASSUME w \in Owners, NEW pc \in {"none", "claimed", "authorized", "dispatch", "loop", "recording",
                                   "recorded", "reviewed", "ci", "failing"},
         NEW to \in RUN_EVENT_PHASES
  PROVE  /\ [w EXCEPT !.pc = pc] \in Owners /\ [w EXCEPT !.pc = pc].pc = pc
         /\ [w EXCEPT !.pc = pc].fix = w.fix /\ [w EXCEPT !.pc = pc].takeover = w.takeover
         /\ [w EXCEPT !.pc = "failing", !.to = to] \in Owners
         /\ [w EXCEPT !.pc = "failing", !.to = to].pc = "failing"
         /\ [w EXCEPT !.pc = "failing", !.to = to].to = to
  BY DEF Owners

\* What the phase says does not change with the owner.
LEMMA FactsKept ==
  ASSUME Facts, UNCHANGED <<phase, resume, cand, fresh, cp, fixes, last, gates, bundle, seen>>
  PROVE  Facts'
<1>1. Where' = Where
  BY DEF Where
<1>2. IsCurrent("local-verification-pass")' = IsCurrent("local-verification-pass")
  BY DEF IsCurrent
<1>3. MayResumeFrom("LOCAL_VERIFY")' = MayResumeFrom("LOCAL_VERIFY")
  BY DEF MayResumeFrom, HasContinuation
<1>4. Numbered'
  BY <1>1 DEF Facts, Numbered
<1>5. Recorded'
  BY DEF Facts, Recorded, ChecksPassed
<1>6. Verifying'
  BY <1>1, <1>2, <1>3 DEF Facts, Verifying, ChecksPassed
<1>7. Vetted'
  BY <1>1 DEF Facts, Vetted, ChecksPassed
<1> QED BY <1>4, <1>5, <1>6, <1>7 DEF Facts

\* The same for its types.
LEMMA TypesKept ==
  ASSUME Typed, UNCHANGED <<phase, resume, cand, fresh, fixes, gates, bundle, ask, approvals, seen>>,
         refused' \in {refused} \cup BOOLEAN,
         w' \in Owners, queued' \in BOOLEAN, held' \in [Resources -> {"none", "prior", "current"}],
         cp' \in [kind : Kinds \cup {"none"}, phase : RUN_EVENT_PHASES,
                  cand : Candidates \cup {0}, session : BOOLEAN],
         head' \in Candidates \cup {0, Foreign}
  PROVE  Typed'
  BY DEF Typed, TypeOK, Owners

\* What the types say, for the proofs below.
LEMMA TypeFacts ==
  ASSUME Typed
  PROVE  /\ w \in Owners /\ held \in [Resources -> {"none", "prior", "current"}]
         /\ queued \in BOOLEAN /\ head \in Candidates \cup {0, Foreign}
         /\ cp \in [kind : Kinds \cup {"none"}, phase : RUN_EVENT_PHASES,
                    cand : Candidates \cup {0}, session : BOOLEAN]
         /\ gates \in [Candidates -> Gates] /\ cand \in Candidates \cup {0} /\ cand \in Nat
         /\ fixes \in 0 .. 2 * MaxFixIterations /\ fixes \in Nat /\ w.fix \in Nat
         /\ seen \in [Candidates -> Reports]
<1>1. /\ w \in Owners /\ held \in [Resources -> {"none", "prior", "current"}]
      /\ queued \in BOOLEAN /\ head \in Candidates \cup {0, Foreign}
      /\ cp \in [kind : Kinds \cup {"none"}, phase : RUN_EVENT_PHASES,
                 cand : Candidates \cup {0}, session : BOOLEAN]
      /\ gates \in [Candidates -> Gates] /\ cand \in Candidates \cup {0}
      /\ fixes \in 0 .. 2 * MaxFixIterations /\ seen \in [Candidates -> Reports]
  BY DEF Typed, TypeOK, Owners, Gates
<1>2. cand \in Nat /\ fixes \in Nat
  BY <1>1, Bounds
<1>3. w.fix \in 0 .. 2 * MaxFixIterations
  BY <1>1 DEF Owners
<1> QED BY <1>1, <1>2, <1>3, Bounds

\* A throw, or a refusal, leaves the run as it is; a pause is thrown where
\* somebody was asked only (#handleError).
LEMMA ThrowKeeps ==
  ASSUME RunInv, w.pc # "none", phase \notin TerminalPhases,
         NEW to \in Paused \cup DIRECT_STOP_PHASES, Throw(to),
         phase \in NormalPhases \/ to \in DIRECT_STOP_PHASES,
         to = "WAITING_APPROVAL" => ~IsCurrent("local-verification-pass"),
         UNCHANGED <<runVars, approvals, queued, envVars>>, refused' \in {refused} \cup BOOLEAN
  PROVE  RunInv'
<1>1. to \in RUN_EVENT_PHASES
  BY DEF RUN_EVENT_PHASES, INTERRUPTING_PHASES, TerminalPhases
<1>2. w' \in Owners /\ w'.pc = "failing" /\ w'.to = to
  BY <1>1, OwnerMoves, TypeFacts DEF RunInv, Throw
<1>3. Typed'
  BY <1>2, TypesKept, TypeFacts DEF RunInv, runVars, envVars
<1>4. Facts'
  BY FactsKept DEF RunInv, runVars, envVars
<1>5. Control'
  BY <1>2, PhaseSets DEF RunInv, Control, runVars, NoCheckpoint
<1>6. Owning'
  BY <1>2 DEF Owning, runVars, IsCurrent
<1>7. WorksOnItsOwn'
  BY <1>2 DEF RunInv, WorksOnItsOwn
<1> QED BY <1>3, <1>4, <1>5, <1>6, <1>7 DEF RunInv

\* The same, without a refusal, in a stage.
LEMMA Throwing ==
  ASSUME RunInv, w.pc # "none", phase \in NormalPhases,
         NEW to \in Paused \cup DIRECT_STOP_PHASES, Throw(to),
         to = "WAITING_APPROVAL" => ~IsCurrent("local-verification-pass"),
         UNCHANGED <<runVars, approvals, queued, envVars, refused>>
  PROVE  Kept
  BY ThrowKeeps, PhaseSets DEF Kept, NoRefusal

\* And in the recovery.
LEMMA Failed ==
  ASSUME RunInv, w.pc \in {"claimed", "authorized"},
         NEW to \in DIRECT_STOP_PHASES, Throw(to),
         UNCHANGED <<runVars, approvals, queued, envVars, refused>>
  PROVE  Kept
<1>1. phase \notin TerminalPhases /\ to # "WAITING_APPROVAL"
  BY PhaseSets DEF RunInv, Control, DIRECT_STOP_PHASES
<1> QED BY <1>1, ThrowKeeps DEF Kept, NoRefusal

\* So does an owner that goes.
LEMMA Going ==
  ASSUME RunInv, w' = NoOwner, queued' \in BOOLEAN,
         UNCHANGED <<runVars, approvals, envVars, refused>>
  PROVE  Kept
<1>1. w' \in Owners /\ w'.pc = "none"
  BY BlanksTyped
<1>2. Typed'
  BY <1>1, TypesKept, TypeFacts DEF RunInv, runVars, envVars
<1>3. Facts'
  BY FactsKept DEF RunInv, runVars, envVars
<1>4. Control'
  BY <1>1 DEF RunInv, Control, runVars, NoCheckpoint
<1>5. Owning' /\ NoRefusal /\ WorksOnItsOwn'
  BY <1>1 DEF RunInv, Owning, NoRefusal, WorksOnItsOwn
<1> QED BY <1>2, <1>3, <1>4, <1>5 DEF RunInv, Kept

-----------------------------------------------------------------------------
(* The steps of ownership and recovery. *)

\* The first claim records the admission (claimAsfRun).
LEMMA Claiming == RunInv /\ Claim => Kept
<1> SUFFICES ASSUME RunInv, Claim PROVE Kept
  OBVIOUS
<1>t. Typed /\ w \in Owners
  BY TypeFacts DEF RunInv
<1>1. /\ w' \in Owners /\ w'.pc = "claimed" /\ w'.takeover = (cp # NoCheckpoint)
  <2>1. (cp # NoCheckpoint) \in BOOLEAN
    OBVIOUS
  <2> QED BY <2>1, BlanksTyped DEF Claim, Owners
<1>2. held' \in [Resources -> {"none", "prior", "current"}]
  BY <1>t, TypeFacts DEF Claim
<1>3. phase \notin TerminalPhases
  BY DEF Claim
<1>4. CASE cp = NoCheckpoint
  <2>1. cp' = [kind |-> "work-order-admission", phase |-> phase, cand |-> cand,
               session |-> SessionKept("work-order-admission", NoOwner)]
    BY <1>4 DEF Claim, Checkpoint
  <2>2. SessionKept("work-order-admission", NoOwner) \in BOOLEAN
    BY DEF SessionKept, KeepsSession
  <2>3. "work-order-admission" \in Kinds
    BY KindsFit
  <2>4. cp' \in [kind : Kinds \cup {"none"}, phase : RUN_EVENT_PHASES,
                 cand : Candidates \cup {0}, session : BOOLEAN]
        /\ cp'.kind = "work-order-admission"
    BY <2>1, <2>2, <2>3, <1>t, TypeFacts DEF Typed, TypeOK
  <2>5. Typed'
    BY <1>1, <1>2, <1>t, <2>4, TypesKept, TypeFacts DEF Claim
  <2>6. phase = "ADMITTED" /\ phase' = phase /\ Where = phase /\ Where' = phase /\ resume' = "none"
    BY <1>4, PhaseSets DEF RunInv, Control, Claim, Where, Paused, NormalPhases
  <2>7. Facts'
    BY <2>4, <2>6, <1>3
       DEF Claim, RunInv, Facts, Numbered, Recorded, Verifying, Vetted, IsCurrent, ChecksPassed,
           Numbers, Checked, Approved, Delivered, MayResumeFrom, HasContinuation
  <2>8. Control'
    BY <1>1, <1>3, <2>4, <2>6 DEF RunInv, Control, Claim, NoCheckpoint
  <2> QED BY <1>1, <2>5, <2>7, <2>8 DEF Claim, RunInv, Kept, Owning, NoRefusal, WorksOnItsOwn
<1>5. CASE cp # NoCheckpoint
  <2>1. cp' = cp
    BY <1>5 DEF Claim
  <2>2. Typed'
    BY <1>1, <1>2, <1>t, <2>1, TypesKept, TypeFacts DEF Claim
  <2>3. Facts'
    BY <2>1, FactsKept DEF Claim, RunInv
  <2>4. Control'
    BY <1>1, <1>3, <1>5, <2>1 DEF RunInv, Control, Claim
  <2> QED BY <1>1, <2>2, <2>3, <2>4 DEF Claim, RunInv, Kept, Owning, NoRefusal, WorksOnItsOwn
<1> QED BY <1>4, <1>5

\* A crash leaves a run that is queued.
LEMMA Crashing == RunInv /\ Crash => Kept
<1> SUFFICES ASSUME RunInv, Crash PROVE Kept
  OBVIOUS
<1> QED BY Going DEF Crash

\* So does an owner that finds the run over.
LEMMA Leaving == RunInv /\ Leave => Kept
<1> SUFFICES ASSUME RunInv, Leave PROVE Kept
  OBVIOUS
<1> QED BY Going, TypeFacts DEF Leave, RunInv

\* A step of the recovery before its dispatch changes the owner alone, and what
\* fencing takes away.
LEMMA Recovering ==
  ASSUME RunInv, w' \in Owners, w.pc # "none", w'.pc \in {"authorized", "dispatch", "loop"},
         w'.takeover = w.takeover,
         w.pc = "dispatch" \/ (w.pc \in {"claimed", "authorized"} /\ w'.pc # "loop"),
         w'.pc \in {"dispatch", "loop"} => fixes <= w'.fix + MaxFixIterations,
         held' \in [Resources -> {"none", "prior", "current"}], WorksOnItsOwn',
         UNCHANGED <<runVars, approvals, queued, head, seen, refused>>
  PROVE  Kept
<1>1. Typed'
  BY TypesKept, TypeFacts DEF RunInv, runVars
<1>2. Facts'
  BY FactsKept DEF RunInv, runVars
<1>3. Control'
  BY DEF RunInv, Control, runVars, NoCheckpoint
<1>4. Owning' /\ NoRefusal
  BY DEF RunInv, Owning, NoRefusal, runVars
<1> QED BY <1>1, <1>2, <1>3, <1>4 DEF RunInv, Kept

\* #recover, with what the authority may authorize.
LEMMA Observing == RunInv /\ Observe => Kept
<1> SUFFICES ASSUME RunInv, Observe PROVE Kept
  OBVIOUS
<1>1. w.pc = "claimed"
  BY DEF Observe
<1>2. PICK action \in Planned :
       IF ~CheckpointBinds THEN Throw("QUARANTINED")
       ELSE IF action = "refused" THEN Throw("FAILED")
       ELSE IF action \in Replays /\ ~fresh THEN Throw("QUARANTINED")
       ELSE w' = [w EXCEPT !.pc = "authorized", !.plan = action]
  BY DEF Observe
<1>3. CASE Throw("QUARANTINED") \/ Throw("FAILED")
  BY <1>1, <1>3, Failed DEF Observe, DIRECT_STOP_PHASES
<1>4. CASE w' = [w EXCEPT !.pc = "authorized", !.plan = action] /\ action # "refused"
  <2>1. action \in RecoveryActions
    BY <1>4 DEF Planned, PlanRecovery, Replay, RecoveryActions, Replays
  <2>2. w' \in Owners /\ w'.pc = "authorized" /\ w'.takeover = w.takeover
    BY <1>4, <2>1, TypeFacts DEF RunInv, Owners
  <2> QED BY <1>1, <2>2, Recovering, TypeFacts DEF Observe, WorksOnItsOwn, RunInv, envVars
<1> QED BY <1>2, <1>3, <1>4

\* ProductionAsfRecoveryController.apply, one operation.
LEMMA Fencing == RunInv /\ Fence => Kept
<1> SUFFICES ASSUME RunInv, Fence PROVE Kept
  OBVIOUS
<1>1. w \in Owners /\ held \in [Resources -> {"none", "prior", "current"}]
  BY TypeFacts DEF RunInv
<1>2. w' \in Owners /\ w'.pc = "authorized" /\ w'.takeover = w.takeover
  <2>1. w.step \in 0 .. 4 /\ w.step < 4
    BY <1>1, Bounds DEF Fence, Owed, Owners
  <2>2. w.step + 1 \in 0 .. Len(TakeoverFencing)
    BY <2>1, Bounds
  <2> QED BY <1>1, <2>2 DEF Fence, Owners
<1>3. held' \in [Resources -> {"none", "prior", "current"}]
  BY <1>1 DEF Fence
<1> QED BY <1>2, <1>3, Recovering DEF Fence, WorksOnItsOwn

\* The rest of apply: the owner counts the fixes on record.
LEMMA Acknowledging == RunInv /\ Acknowledge => Kept
<1> SUFFICES ASSUME RunInv, Acknowledge PROVE Kept
  OBVIOUS
<1>1. w \in Owners /\ fixes \in 0 .. 2 * MaxFixIterations /\ fixes \in Nat
  BY TypeFacts DEF RunInv
<1>2. PICK again, resumes \in BOOLEAN, local, pr \in BOOLEAN :
        w' = [w EXCEPT !.pc = "dispatch", !.plan = "none", !.step = 0, !.fix = fixes,
                !.local = local, !.pr = pr, !.resume = resumes]
  BY DEF Acknowledge
<1>3. w' \in Owners /\ w'.pc = "dispatch" /\ w'.takeover = w.takeover /\ w'.fix = fixes
  <2>1. 0 \in 0 .. Len(TakeoverFencing)
    BY Bounds
  <2> QED BY <1>1, <1>2, <2>1 DEF Owners
<1>4. fixes <= w'.fix + MaxFixIterations
  BY <1>1, <1>3, Bounds
<1> QED BY <1>3, <1>4, Recovering, TypeFacts DEF Acknowledge, WorksOnItsOwn, envVars, RunInv

\* An authorization that went stale fails the invocation (#recover).
LEMMA Refusing == RunInv /\ RecoveryRefused => Kept
<1> SUFFICES ASSUME RunInv, RecoveryRefused PROVE Kept
  OBVIOUS
<1> QED BY Failed DEF RecoveryRefused, DIRECT_STOP_PHASES

\* #dispatchRecovery: a new owner takes what its stage depends on.
LEMMA Dispatching == RunInv /\ Dispatch => Kept
<1> SUFFICES ASSUME RunInv, Dispatch PROVE Kept
  OBVIOUS
<1>1. w \in Owners /\ held \in [Resources -> {"none", "prior", "current"}]
  BY TypeFacts DEF RunInv
<1>2. w' \in Owners /\ w'.pc = "loop" /\ w'.takeover = w.takeover /\ w'.fix = w.fix
  BY <1>1 DEF Dispatch, Go, Owners
<1>3. held' \in [Resources -> {"none", "prior", "current"}]
  BY <1>1 DEF Dispatch
<1>4. fixes <= w'.fix + MaxFixIterations
  BY <1>2 DEF RunInv, Owning, Dispatch
<1>5. phase \in (NormalPhases \ MergePhases) \cup Paused
  BY DEF RunInv, Control, Dispatch
<1>6. WorksOnItsOwn'
  <2>1. CASE w.takeover
    BY <1>5, <2>1 DEF WorksOnItsOwn, Dispatch, RecoveryPrerequisites, Resources, runVars
  <2>2. CASE ~w.takeover
    <3>1. phase = "ADMITTED" /\ phase' = phase
      BY <2>2 DEF RunInv, Control, Dispatch, runVars
    <3> QED BY <3>1 DEF WorksOnItsOwn
  <2> QED BY <2>1, <2>2, <1>1 DEF Owners
<1> QED BY <1>2, <1>3, <1>4, <1>6, Recovering DEF Dispatch

\* A controller throws; who turns to the store alone cannot ask for approval.
LEMMA Stopping == RunInv /\ StopThrown => Kept
<1> SUFFICES ASSUME RunInv, StopThrown PROVE Kept
  OBVIOUS
<1>1. PICK to \in Paused \cup DIRECT_STOP_PHASES : Throw(to) /\ (Alone => to = "BUDGET_EXHAUSTED")
  BY DEF StopThrown
<1>2. to = "WAITING_APPROVAL" => ~IsCurrent("local-verification-pass")
  <2>1. ASSUME to = "WAITING_APPROVAL", IsCurrent("local-verification-pass") PROVE FALSE
    <3>1. phase # "LOCAL_VERIFY"
      BY <1>1, <2>1 DEF Alone
    <3>2. cp.phase = phase /\ cp.phase = "LOCAL_VERIFY"
      BY <2>1 DEF IsCurrent, RunInv, Facts, Verifying
    <3> QED BY <3>1, <3>2
  <2> QED BY <2>1
<1> QED BY <1>1, <1>2, Throwing DEF StopThrown

\* A review without a verdict stops the run (#review).
LEMMA Blocking == RunInv /\ ReviewBlocked => Kept
<1> SUFFICES ASSUME RunInv, ReviewBlocked PROVE Kept
  OBVIOUS
<1>1. phase \in NormalPhases
  BY DEF RunInv, Control, ReviewBlocked
<1> QED BY <1>1, Throwing DEF ReviewBlocked, Quiet, Paused

\* Another hand at the branch is seen by the next stage only (ensureBranch).
LEMMA Pushing == RunInv /\ ForeignPush => Kept
<1> SUFFICES ASSUME RunInv, ForeignPush PROVE Kept
  OBVIOUS
<1>1. Typed'
  BY TypesKept, TypeFacts DEF RunInv, ForeignPush, runVars
<1>2. Facts'
  BY FactsKept DEF RunInv, ForeignPush, runVars
<1>3. Control' /\ Owning' /\ NoRefusal /\ WorksOnItsOwn'
  BY DEF RunInv, Control, Owning, NoRefusal, WorksOnItsOwn, ForeignPush, runVars, IsCurrent
<1> QED BY <1>1, <1>2, <1>3 DEF RunInv, Kept

-----------------------------------------------------------------------------
(* The events. *)

\* What the candidate's gates are before an event without a verdict.
Given == IF cand = 0 THEN NoGates ELSE gates[cand]

\* A checkpoint, typed.
LEMMA CheckpointTyped ==
  ASSUME NEW kind \in Kinds, NEW to \in RUN_EVENT_PHASES, NEW c \in Candidates \cup {0},
         NEW owner \in Owners
  PROVE  /\ Checkpoint(kind, to, c, owner) \in
              [kind : Kinds \cup {"none"}, phase : RUN_EVENT_PHASES,
               cand : Candidates \cup {0}, session : BOOLEAN]
         /\ Checkpoint(kind, to, c, owner).kind = kind
         /\ Checkpoint(kind, to, c, owner).phase = to
         /\ Checkpoint(kind, to, c, owner).cand = c
<1>1. SessionKept(kind, owner) \in BOOLEAN
  BY DEF SessionKept, KeepsSession, Owners
<1> QED BY <1>1 DEF Checkpoint

\* "none" is no kind.
LEMMA NoKind == "none" \notin Kinds
  BY DEF Kinds, Policies, PreparationPolicies, CandidatePolicies, DeliveryPolicies,
         ClosurePolicies, Row

\* Where an accepted event leaves the run and its owner: the types, who has the
\* run, and no refusal (transitionAsfRun).
LEMMA EventKeeps ==
  ASSUME RunInv, phase \in NormalPhases \ MergePhases, w.pc # "none",
         NEW type, NEW to \in (NormalPhases \ MergePhases) \cup {"COMPLETED"},
         NEW with \in Kinds \cup {"none"}, NEW c \in Candidates \cup {0}, NEW g \in Gates,
         NEW owner \in Owners,
         Commits(type, to, with, c, g, owner), w' = owner, approvals' = approvals,
         type = "fixing.started" => fixes < 2 * MaxFixIterations,
         queued' \in BOOLEAN, owner.pc # "none" => ~queued',
         owner.pc \in {"none", "loop", "recording", "recorded", "reviewed", "ci"},
         owner.pc \in {"recording", "recorded"} => to = "LOCAL_VERIFY",
         owner.pc = "ci" => to = "CI_WAIT", to = "COMPLETED" => owner.pc = "loop",
         held' \in [Resources -> {"none", "prior", "current"}],
         head' \in Candidates \cup {0, Foreign}, seen' \in [Candidates -> Reports]
  PROVE  Typed' /\ Control' /\ NoRefusal
<1>1. phase' = to /\ cand' = c /\ UNCHANGED <<bundle, ask, refused>> /\ to \notin Paused
      /\ phase \notin Paused
  BY PhaseSets DEF Commits
<1>2. resume' = resume /\ resume = "none"
  BY <1>1 DEF Commits, RunInv, Control
<1>3. gates' \in [Candidates -> Gates]
  BY TypeFacts DEF Commits, RunInv
<1>4. cp' \in [kind : Kinds \cup {"none"}, phase : RUN_EVENT_PHASES,
               cand : Candidates \cup {0}, session : BOOLEAN]
      /\ (cp'.kind # "none" \/ cp' = cp)
  <2>1. CASE with = "none"
    BY <2>1, TypeFacts DEF Commits, RunInv
  <2>2. CASE with # "none"
    <3>1. to \in RUN_EVENT_PHASES
      BY PhaseSets
    <3> QED BY <2>2, <3>1, CheckpointTyped, NoKind DEF Commits
  <2> QED BY <2>1, <2>2
<1>5. fixes' \in 0 .. 2 * MaxFixIterations
  BY TypeFacts, Bounds DEF Commits, RunInv
<1>6. fresh' \in BOOLEAN
  BY DEF Commits
<1>7. Typed'
  <2>1. phase' \in RUN_EVENT_PHASES \ MergePhases
    BY <1>1, PhaseSets
  <2>2. bundle \in Candidates \cup {0} /\ refused \in BOOLEAN /\ ask \in AskedEffects \cup {"none"}
        /\ approvals \subseteq Envelopes
    BY DEF RunInv, Typed, TypeOK
  <2>3. /\ phase' \in RUN_EVENT_PHASES \ MergePhases /\ resume' = "none"
        /\ cand' \in Candidates \cup {0} /\ bundle' \in Candidates \cup {0}
        /\ refused' \in BOOLEAN /\ ask' \in AskedEffects \cup {"none"} /\ approvals' \subseteq Envelopes
        /\ w' \in Owners
    BY <1>1, <1>2, <2>1, <2>2
  <2> QED BY <1>3, <1>4, <1>5, <1>6, <2>3 DEF Typed, TypeOK, Owners, Gates
<1>8. Control'
  <2>1. cp' # NoCheckpoint
    BY <1>4 DEF RunInv, Control, NoCheckpoint
  <2>2. /\ phase' \in (NormalPhases \ MergePhases) \cup TerminalPhases \cup Paused
        /\ phase' \notin Paused /\ resume' = "none"
    BY <1>1, <1>2, PhaseSets
  <2>3. phase' \notin TerminalPhases \/ (phase' = "COMPLETED" /\ w'.pc = "loop")
    BY <1>1, PhaseSets
  <2>4. /\ w'.pc # "none" => ~queued'
        /\ w'.pc \notin {"claimed", "authorized", "dispatch", "failing"}
        /\ w'.pc \in {"recording", "recorded"} => phase' = "LOCAL_VERIFY"
        /\ w'.pc = "ci" => phase' = "CI_WAIT"
    BY <1>1
  <2> HIDE DEF Paused, TerminalPhases
  <2> QED BY <2>1, <2>2, <2>3, <2>4 DEF Control
<1>9. NoRefusal
  BY <1>1 DEF RunInv, NoRefusal
<1> QED BY <1>7, <1>8, <1>9

\* The events that take the candidate on as it is.
Follows(type, to, with) ==
  /\ type \notin {"ci.revalidated", "candidate.created", "fixing.started"}
  /\ with # "local-verification-pass"
  /\ to \in (Early \ {"ADMITTED"}) \cup {"LOCAL_VERIFY"} \cup Checked
  /\ to \in Early => phase \in Early
  /\ to = "LOCAL_VERIFY" => phase = "CANDIDATE_READY"
  /\ to \in Checked => phase \in {"LOCAL_VERIFY"} \cup Checked /\ ChecksPassed(gates[cand])
  /\ to \in Approved => gates[cand].review = "approved"
  /\ to \in Delivered => gates[cand].pr = "approved" /\ seen[cand].ci
  /\ to \in {"EVIDENCE_FINALIZED", "COMPLETED"} => bundle = cand

\* They keep what the phases say.
LEMMA Following ==
  ASSUME RunInv, phase \in NormalPhases \ MergePhases, NEW type, NEW to, NEW with \in Kinds \cup {"none"},
         NEW owner \in Owners, Follows(type, to, with),
         Commits(type, to, with, cand, Given, owner), seen' = seen
  PROVE  Facts' /\ gates' = gates /\ ~IsCurrent("local-verification-pass")'
<1>1. phase \notin Paused /\ to \notin Paused /\ Where = phase /\ phase' = to /\ Where' = to
  BY PhaseSets DEF Follows, Commits, Where, Early, Checked, Approved, Delivered, Paused
<1>2. cand' = cand /\ fixes' = fixes /\ last' = type /\ bundle' = bundle
  BY DEF Commits, Follows
<1>3. gates' = gates
  <2>1. gates \in [Candidates -> Gates] /\ cand \in Candidates \cup {0}
    BY TypeFacts DEF RunInv
  <2> QED BY <2>1 DEF Commits, Given
<1>4. /\ cp'.kind # "local-verification-pass" \/ (cp' = cp /\ ~fresh')
      /\ cp'.kind # "local-verification-pass" \/ ~fresh'
  BY DEF Commits, Checkpoint, Follows
<1>5. Numbered'
  BY <1>1, <1>2, PhaseSets
     DEF RunInv, Facts, Numbered, Follows, Numbers, Early, Checked, Approved, Delivered
<1>6. Recorded'
  BY <1>2, <1>3 DEF RunInv, Facts, Recorded, ChecksPassed
<1>7. ~IsCurrent("local-verification-pass")'
  BY <1>4 DEF IsCurrent
<1>8. Verifying'
  <2>1. to = "LOCAL_VERIFY" => ~ChecksPassed(gates[cand])
    BY <1>1, Bounds DEF RunInv, Facts, Verifying, Follows, ChecksPassed
  <2> QED BY <1>1, <1>2, <1>3, <1>4, <1>7, <2>1
          DEF RunInv, Facts, Verifying, Follows, Early, Checked, Approved, Delivered, Paused, ChecksPassed,
              MayResumeFrom, HasContinuation
<1>9. Vetted'
  BY <1>1, <1>2, <1>3 DEF RunInv, Facts, Vetted, Follows, ChecksPassed
<1> QED BY <1>3, <1>5, <1>6, <1>7, <1>8, <1>9 DEF Facts

\* Such an event, accepted, keeps the invariant.
LEMMA Advancing ==
  ASSUME RunInv, w.pc = "loop", phase \in NormalPhases \ MergePhases,
         NEW type, NEW to, NEW with \in Kinds \cup {"none"}, Follows(type, to, with),
         NEW owner \in Owners, owner.pc = "loop", owner.fix = w.fix,
         Accepts(type, to, with, cand, Given), Write(type, to, with, cand, Given, owner),
         queued' = queued, approvals' = approvals, seen' = seen,
         held' \in [Resources -> {"none", "prior", "current"}],
         head' \in Candidates \cup {0, Foreign}, phase' = to => WorksOnItsOwn'
  PROVE  Kept /\ phase' = to
<1>1. Commits(type, to, with, cand, Given, owner) /\ w' = owner
  BY DEF Write
<1>3. Given \in Gates /\ cand \in Candidates \cup {0} /\ seen \in [Candidates -> Reports]
  BY TypeFacts, BlanksTyped DEF RunInv, Given
<1>4. to \in (NormalPhases \ MergePhases) \cup {"COMPLETED"}
  BY PhaseSets DEF Follows
<1>5. queued' \in BOOLEAN /\ ~queued'
  BY TypeFacts DEF RunInv, Control
<1>6. type # "fixing.started"
  BY DEF Follows
<1>7. Typed' /\ Control' /\ NoRefusal
  BY <1>1, <1>3, <1>4, <1>5, <1>6, EventKeeps
<1>8. Facts'
  BY <1>1, Following
<1>9. fixes' = fixes /\ phase' = to
  BY <1>1, <1>6 DEF Commits
<1>10. Owning'
  BY <1>1, <1>9 DEF RunInv, Owning
<1> QED BY <1>7, <1>8, <1>9, <1>10 DEF RunInv, Kept

\* So does the stage it belongs to.
LEMMA Staging ==
  ASSUME RunInv, NEW p, NEW prior, NEW type, NEW to, NEW with \in Kinds \cup {"none"},
         Stage(p, prior, type, to, with), phase \in NormalPhases \ MergePhases,
         Prior(prior) => Follows(type, to, with) /\ Accepts(type, to, with, cand, Given),
         to # phase, phase' = phase => held' = held, UNCHANGED <<head, seen>>,
         phase' = to => held' \in [Resources -> {"none", "prior", "current"}] /\ WorksOnItsOwn'
  PROVE  Kept
<1>1. w.pc = "loop"
  BY DEF Stage, At, Owns
<1>2. CASE Throw("QUARANTINED") /\ UNCHANGED <<runVars, refused>>
  <2>1. UNCHANGED envVars
    BY <1>2 DEF runVars, envVars
  <2> QED BY <1>1, <1>2, <2>1, Throwing DEF Stage, Quiet, DIRECT_STOP_PHASES
<1>3. CASE Prior(prior) /\ Advance(type, to, with)
  <2>1. phase' = to
    BY <1>3 DEF Advance, Write, Commits, Given
  <2>2. head' \in Candidates \cup {0, Foreign}
    BY TypeFacts DEF RunInv
  <2> DEFINE owner == [w EXCEPT !.pc = "loop"]
  <2>3. owner \in Owners /\ owner.pc = "loop" /\ owner.fix = w.fix
    BY OwnerMoves, TypeFacts DEF RunInv, RUN_EVENT_PHASES, NormalPhases
  <2>4. Write(type, to, with, cand, Given, owner)
    BY <1>3 DEF Advance, Given
  <2> HIDE DEF owner
  <2> QED BY <1>1, <1>3, <2>1, <2>2, <2>3, <2>4, Advancing DEF Stage, Quiet
<1> QED BY <1>2, <1>3 DEF Stage

-----------------------------------------------------------------------------
(* The stages that take the candidate on. *)

\* Past its preparation a run keeps its leases.
LEMMA HoldsOn ==
  ASSUME RunInv, w.pc \in {"loop", "recording", "recorded", "reviewed", "ci"}, held' = held,
         phase \in NormalPhases \ {"ADMITTED", "REPOSITORY_LEASED", "IDENTITY_READY"}
  PROVE  WorksOnItsOwn'
  BY DEF RunInv, WorksOnItsOwn, Resources

\* #prepare: the three leases, each for the stage after it.
LEMMA Preparing ==
  ASSUME RunInv, RepositoryLease \/ Identities \/ Workspace \/ TaskPacket PROVE Kept
<1> USE EventsFit, CheckpointsFit, KindsFit, PhaseSets
    DEF Follows, Early, Checked, Approved, Delivered, Given, Accepts, LocalGates, DeliveryGates,
        CoverageComplete, CheckpointOf, HasLineage
<1>1. held \in [Resources -> {"none", "prior", "current"}]
  BY TypeFacts DEF RunInv
<1>2. phase \in Early => cand = 0 /\ phase \in NormalPhases \ MergePhases
  BY DEF RunInv, Facts, Numbered, Where
<1>3. CASE RepositoryLease
  <2>1. phase = "ADMITTED" /\ w.pc = "loop"
    BY <1>3 DEF RepositoryLease, Stage, At, Owns
  <2>2. phase' = "REPOSITORY_LEASED" =>
          /\ held' \in [Resources -> {"none", "prior", "current"}]
          /\ held'["repository-lease"] = "current"
    BY <1>1, <1>3, <2>1 DEF RepositoryLease, Obtains, Resources
  <2>3. Follows("repository.lease_acquired", "REPOSITORY_LEASED", "repository-lease-acquisition")
        /\ Accepts("repository.lease_acquired", "REPOSITORY_LEASED", "repository-lease-acquisition",
                   cand, Given)
    BY <1>2, <2>1 DEF TerminalPhases, DIRECT_STOP_PHASES
  <2> QED BY <1>2, <1>3, <2>1, <2>2, <2>3, Staging DEF RepositoryLease, WorksOnItsOwn, Obtains
<1>4. CASE Identities
  <2>1. phase = "REPOSITORY_LEASED" /\ w.pc = "loop"
    BY <1>4 DEF Identities, Stage, At, Owns
  <2>2. phase' = "IDENTITY_READY" =>
          /\ held' \in [Resources -> {"none", "prior", "current"}]
          /\ \A r \in Resources \ {"workspace"} : held'[r] = "current"
    BY <1>1, <1>4, <2>1 DEF Identities, Obtains, Resources, RunInv, WorksOnItsOwn
  <2>3. Follows("identity.leases_acquired", "IDENTITY_READY", "identity-lease-acquisition")
        /\ Accepts("identity.leases_acquired", "IDENTITY_READY", "identity-lease-acquisition",
                   cand, Given)
    BY <1>2, <2>1 DEF TerminalPhases, DIRECT_STOP_PHASES
  <2> QED BY <1>2, <1>4, <2>1, <2>2, <2>3, Staging DEF Identities, WorksOnItsOwn, Obtains
<1>5. CASE Workspace
  <2>1. phase = "IDENTITY_READY" /\ w.pc = "loop"
    BY <1>5 DEF Workspace, Stage, At, Owns
  <2>2. phase' = "WORKSPACE_READY" =>
          /\ held' \in [Resources -> {"none", "prior", "current"}]
          /\ \A r \in Resources : held'[r] = "current"
    BY <1>1, <1>5, <2>1 DEF Workspace, Obtains, Resources, RunInv, WorksOnItsOwn
  <2>3. Follows("workspace.prepared", "WORKSPACE_READY", "workspace-sandbox-proof")
        /\ Accepts("workspace.prepared", "WORKSPACE_READY", "workspace-sandbox-proof", cand, Given)
    BY <1>2, <2>1 DEF TerminalPhases, DIRECT_STOP_PHASES
  <2> QED BY <1>2, <1>5, <2>1, <2>2, <2>3, Staging DEF Workspace, WorksOnItsOwn, Obtains
<1>6. CASE TaskPacket
  <2>1. phase = "WORKSPACE_READY" /\ w.pc = "loop" /\ held' = held /\ UNCHANGED <<head, seen>>
    BY <1>6 DEF TaskPacket, Stage, At, Owns, envVars
  <2>2. WorksOnItsOwn'
    BY <2>1, HoldsOn DEF NormalPhases
  <2>3. Follows("task_packet.created", "TASK_PACKET_READY", "task-packet-creation")
        /\ Accepts("task_packet.created", "TASK_PACKET_READY", "task-packet-creation", cand, Given)
    BY <1>2, <2>1 DEF TerminalPhases, DIRECT_STOP_PHASES
  <2> QED BY <1>1, <1>2, <1>6, <2>1, <2>2, <2>3, Staging DEF TaskPacket
<1> QED BY <1>3, <1>4, <1>5, <1>6

\* The session marker: there is no candidate yet, whose gates could change.
LEMMA Starting == RunInv /\ StartImplementation => Kept
<1> SUFFICES ASSUME RunInv, StartImplementation PROVE Kept
  OBVIOUS
<1>1. phase = "TASK_PACKET_READY" /\ w.pc = "loop" /\ held' = held /\ UNCHANGED <<head, seen>>
  BY DEF StartImplementation, At, Owns, envVars
<1>2. phase \in NormalPhases \ MergePhases /\ cand = 0
  BY <1>1, PhaseSets DEF RunInv, Facts, Numbered, Where, Early
<1>3. CASE Throw("QUARANTINED") /\ UNCHANGED <<runVars, refused>>
  BY <1>1, <1>2, <1>3, Throwing DEF StartImplementation, Quiet, DIRECT_STOP_PHASES, envVars
<1>4. ASSUME NEW s \in Sessions,
             Write("implementation.started", "IMPLEMENTING", "implementer-session-marker", cand,
                   NoGates, [w EXCEPT !.session = s])
      PROVE  Kept
  <2> DEFINE owner == [w EXCEPT !.session = s]
  <2>1. owner \in Owners /\ owner.pc = "loop" /\ owner.fix = w.fix
    BY <1>1, TypeFacts, AsfRunAssumption DEF RunInv, Owners
  <2>2. Write("implementation.started", "IMPLEMENTING", "implementer-session-marker", cand,
              Given, owner)
    BY <1>2, <1>4 DEF Given
  <2>3. Follows("implementation.started", "IMPLEMENTING", "implementer-session-marker")
        /\ Accepts("implementation.started", "IMPLEMENTING", "implementer-session-marker", cand,
                   Given)
    BY <1>1, <1>2, EventsFit, CheckpointsFit
       DEF Follows, Early, Checked, Approved, Delivered, Given, Accepts, LocalGates, DeliveryGates,
           CoverageComplete, CheckpointOf, HasLineage, TerminalPhases, DIRECT_STOP_PHASES
  <2>4. WorksOnItsOwn'
    BY <1>1, HoldsOn DEF NormalPhases
  <2>5. held' \in [Resources -> {"none", "prior", "current"}] /\ head' \in Candidates \cup {0, Foreign}
    BY <1>1, TypeFacts DEF RunInv
  <2>6. queued' = queued /\ approvals' = approvals
    BY DEF StartImplementation, Quiet
  <2> HIDE DEF owner
  <2> QED BY <1>1, <1>2, <2>1, <2>2, <2>3, <2>4, <2>5, <2>6, KindsFit, Advancing
<1> QED BY <1>3, <1>4 DEF StartImplementation

\* A candidate number with what it stands for.
LEMMA CandidateOf ==
  ASSUME RunInv, Where \in Numbers \cup {"FIXING"}
  PROVE  cand \in Candidates /\ cand \in Nat \ {0} /\ cand # 0
<1>1. cand \in Candidates \cup {0} /\ cand \in Nat /\ fixes \in Nat
  BY TypeFacts DEF RunInv
<1>2. cand > 0
  BY <1>1 DEF RunInv, Facts, Numbered, Numbers, Checked, Approved, Delivered
<1> QED BY <1>1, <1>2

\* The stages between a candidate and its delivery that add no verdict.
LEMMA Passing ==
  ASSUME RunInv, LocalVerification \/ LocalReview \/ PullRequest \/ StartCi \/ Evidence
  PROVE  Kept
<1> USE EventsFit, CheckpointsFit, KindsFit, PhaseSets
    DEF Follows, Early, Checked, Approved, Delivered, Numbers, Accepts, LocalGates, DeliveryGates,
        CoverageComplete, CheckpointOf, HasLineage
<1>1. w.pc = "loop" /\ UNCHANGED <<held, head, seen>>
      /\ phase \in {"CANDIDATE_READY", "LOCAL_VERIFY", "PUSHED", "PR_OPEN", "PR_DELIVERED"}
  BY DEF LocalVerification, LocalReview, PullRequest, StartCi, Evidence, Stage, At, Owns, envVars
<1>2. /\ phase \in NormalPhases \ MergePhases
      /\ phase \in NormalPhases \ {"ADMITTED", "REPOSITORY_LEASED", "IDENTITY_READY"}
      /\ Where = phase
  BY <1>1 DEF NormalPhases, Where
<1>3. held' \in [Resources -> {"none", "prior", "current"}] /\ head' \in Candidates \cup {0, Foreign}
      /\ WorksOnItsOwn'
  BY <1>1, <1>2, TypeFacts, HoldsOn DEF RunInv
<1>4. cand \in Nat \ {0} /\ Given = gates[cand]
  BY <1>1, <1>2, CandidateOf DEF Given
<1>5. CASE LocalVerification
  <2>1. phase = "CANDIDATE_READY"
    BY <1>5 DEF LocalVerification, Stage, At
  <2>2. Follows("verification.started", "LOCAL_VERIFY", "none")
        /\ Accepts("verification.started", "LOCAL_VERIFY", "none", cand, Given)
    BY <1>4, <2>1 DEF TerminalPhases, DIRECT_STOP_PHASES
  <2> QED BY <1>1, <1>2, <1>3, <1>5, <2>1, <2>2, Staging DEF LocalVerification
<1>6. CASE LocalReview
  <2>1. phase = "LOCAL_VERIFY"
    BY <1>6 DEF LocalReview, Stage, At
  <2>2. ChecksPassed(gates[cand])
    BY <1>6 DEF LocalReview, RunInv, Facts, Verifying
  <2>3. Follows("review.started", "LOCAL_REVIEW", "none")
        /\ Accepts("review.started", "LOCAL_REVIEW", "none", cand, Given)
    BY <1>4, <2>1, <2>2 DEF TerminalPhases, DIRECT_STOP_PHASES
  <2> QED BY <1>1, <1>2, <1>3, <1>6, <2>1, <2>3, Staging DEF LocalReview
<1>7. CASE PullRequest
  <2>1. phase = "PUSHED"
    BY <1>7 DEF PullRequest, Stage, At
  <2>2. ChecksPassed(gates[cand]) /\ gates[cand].review = "approved"
    BY <1>2, <2>1 DEF RunInv, Facts, Vetted
  <2>3. Follows("pull_request.opened", "PR_OPEN", "pull-request-intent-observation")
        /\ Accepts("pull_request.opened", "PR_OPEN", "pull-request-intent-observation", cand, Given)
    BY <1>4, <2>1, <2>2 DEF TerminalPhases, DIRECT_STOP_PHASES
  <2>4. CASE ~OnePullRequest
    BY <1>1, <1>2, <1>7, <2>4, Throwing DEF PullRequest, Quiet, DIRECT_STOP_PHASES
  <2>5. CASE OnePullRequest
    BY <1>1, <1>2, <1>3, <1>7, <2>1, <2>3, <2>5, Staging DEF PullRequest
  <2> QED BY <2>4, <2>5
<1>8. CASE StartCi
  <2>1. phase = "PR_OPEN"
    BY <1>8 DEF StartCi, At
  <2>2. ChecksPassed(gates[cand]) /\ gates[cand].review = "approved"
    BY <1>2, <2>1 DEF RunInv, Facts, Vetted
  <2>3. Follows("ci.waiting", "CI_WAIT", "none")
        /\ Accepts("ci.waiting", "CI_WAIT", "none", cand, Given)
    BY <1>4, <2>1, <2>2 DEF TerminalPhases, DIRECT_STOP_PHASES
  <2>4. [w EXCEPT !.pc = "loop"] \in Owners /\ [w EXCEPT !.pc = "loop"].pc = "loop"
        /\ [w EXCEPT !.pc = "loop"].fix = w.fix
    BY OwnerMoves, TypeFacts DEF RunInv
  <2>5. Write("ci.waiting", "CI_WAIT", "none", cand, Given, [w EXCEPT !.pc = "loop"])
    BY <1>8 DEF StartCi, Advance, Given
  <2> QED BY <1>1, <1>2, <1>3, <1>8, <2>3, <2>4, <2>5, Advancing DEF StartCi, Quiet
<1>9. CASE Evidence
  <2>1. phase = "PR_DELIVERED" /\ bundle = cand
    BY <1>9 DEF Evidence, Stage, At
  <2>2. ChecksPassed(gates[cand]) /\ gates[cand].review = "approved"
        /\ gates[cand].pr = "approved" /\ seen[cand].ci
    BY <1>2, <2>1 DEF RunInv, Facts, Vetted
  <2>3. Follows("evidence.finalized", "EVIDENCE_FINALIZED", "evidence-finalization-acknowledgement")
        /\ Accepts("evidence.finalized", "EVIDENCE_FINALIZED",
                   "evidence-finalization-acknowledgement", cand, Given)
    BY <1>4, <2>1, <2>2 DEF TerminalPhases, DIRECT_STOP_PHASES
  <2> QED BY <1>1, <1>2, <1>3, <1>9, <2>1, <2>3, Staging DEF Evidence
<1> QED BY <1>5, <1>6, <1>7, <1>8, <1>9

\* The last transition lets go of everything (#performTerminalCleanup).
LEMMA Completing == RunInv /\ Complete => Kept
<1> SUFFICES ASSUME RunInv, Complete PROVE Kept
  OBVIOUS
<1>1. w.pc = "loop" /\ UNCHANGED <<head, seen>> /\ phase = "EVIDENCE_FINALIZED"
  BY DEF Complete, Stage, At, Owns
<1>2. phase \in NormalPhases \ MergePhases /\ Where = phase /\ phase \notin TerminalPhases
  BY <1>1, PhaseSets DEF Where, Checked, Approved, Delivered
<1>3. cand \in Nat \ {0} /\ Given = gates[cand]
  BY <1>1, <1>2, CandidateOf DEF Given, Numbers, Checked, Approved, Delivered
<1>4. ChecksPassed(gates[cand]) /\ gates[cand].review = "approved"
      /\ gates[cand].pr = "approved" /\ seen[cand].ci /\ bundle = cand
  BY <1>1, <1>2 DEF RunInv, Facts, Vetted, Checked, Approved, Delivered
<1>5. Follows("run.completed", "COMPLETED", "lease-release-workspace-cleanup")
      /\ Accepts("run.completed", "COMPLETED", "lease-release-workspace-cleanup", cand, Given)
  BY <1>1, <1>3, <1>4, EventsFit, CheckpointsFit
     DEF Follows, Early, Checked, Approved, Delivered, Accepts, LocalGates, DeliveryGates,
         CoverageComplete, CheckpointOf, HasLineage
<1>6. phase' = "COMPLETED" =>
        held' \in [Resources -> {"none", "prior", "current"}] /\ WorksOnItsOwn'
  BY TypeFacts DEF RunInv, Complete, Released, WorksOnItsOwn, NormalPhases, MergePhases
<1>7. phase' = phase => held' = held
  BY <1>2 DEF Complete, Released
<1> QED BY <1>1, <1>2, <1>5, <1>6, <1>7, KindsFit, Staging DEF Complete

\* The bundle is on record before its event is.
LEMMA Bundling == RunInv /\ RecordBundle => Kept
<1> SUFFICES ASSUME RunInv, RecordBundle PROVE Kept
  OBVIOUS
<1>1. w.pc = "loop" /\ phase = "PR_DELIVERED" /\ UNCHANGED <<held, head, seen>>
      /\ phase \in NormalPhases
  BY DEF RecordBundle, At, Owns, envVars, NormalPhases
<1>2. CASE Throw("QUARANTINED") /\ bundle' = bundle
  BY <1>1, <1>2, Throwing DEF RecordBundle, Quiet, DIRECT_STOP_PHASES, runVars
<1>3. CASE bundle' = cand /\ w' = w
  <2>1. Typed'
    BY <1>3 DEF RunInv, Typed, TypeOK, RecordBundle, Quiet, envVars
  <2>2. Facts'
    BY <1>1, <1>3 DEF RunInv, Facts, Numbered, Recorded, Verifying, Vetted, Where, IsCurrent,
                      ChecksPassed, MayResumeFrom, HasContinuation, RecordBundle
  <2>3. Control' /\ Owning' /\ NoRefusal /\ WorksOnItsOwn'
    BY <1>1, <1>3 DEF RunInv, Control, Owning, NoRefusal, WorksOnItsOwn, RecordBundle, Quiet,
                      IsCurrent
  <2> QED BY <2>1, <2>2, <2>3 DEF RunInv, Kept
<1> QED BY <1>2, <1>3 DEF RecordBundle

\* An event of the loop itself.
LEMMA Looping ==
  ASSUME RunInv, w.pc = "loop", NEW type, NEW to, NEW with \in Kinds \cup {"none"},
         phase \in Checked \ {"COMPLETED"}, Follows(type, to, with),
         Accepts(type, to, with, cand, Given),
         Advance(type, to, with), queued' = queued, approvals' = approvals, held' = held,
         seen' = seen, head' \in Candidates \cup {0, Foreign}
  PROVE  Kept
<1> DEFINE owner == [w EXCEPT !.pc = "loop"]
<1>1. owner \in Owners /\ owner.pc = "loop" /\ owner.fix = w.fix
  BY OwnerMoves, TypeFacts DEF RunInv, RUN_EVENT_PHASES, NormalPhases
<1>2. Write(type, to, with, cand, Given, owner)
  BY DEF Advance, Given
<1>3. phase \in NormalPhases \ MergePhases
      /\ phase \in NormalPhases \ {"ADMITTED", "REPOSITORY_LEASED", "IDENTITY_READY"}
  BY PhaseSets DEF Checked, Approved, Delivered
<1>4. WorksOnItsOwn' /\ held' \in [Resources -> {"none", "prior", "current"}]
  BY <1>3, HoldsOn, TypeFacts DEF RunInv
<1> HIDE DEF owner
<1> QED BY <1>1, <1>2, <1>3, <1>4, Advancing

\* #push and the delivery of the pull request.
LEMMA Delivering == RunInv /\ (Push \/ Deliver) => Kept
<1> SUFFICES ASSUME RunInv, Push \/ Deliver PROVE Kept
  OBVIOUS
<1> USE EventsFit, CheckpointsFit, KindsFit
    DEF Follows, Early, Checked, Approved, Delivered, Numbers, Accepts, LocalGates, DeliveryGates,
        CoverageComplete, CheckpointOf, HasLineage
<1>1. w.pc = "loop" /\ UNCHANGED <<held, seen>> /\ phase \in {"DELIVERY_READY", "PR_REVIEW"}
      /\ queued' = queued /\ approvals' = approvals
  BY DEF Push, Deliver, Reviewed, At, Owns, envVars, Quiet
<1>2. phase \in NormalPhases \ MergePhases /\ Where = phase
  BY <1>1 DEF NormalPhases, Where, MergePhases, Paused
<1>3. cand \in Candidates /\ cand \in Nat \ {0} /\ Given = gates[cand]
  BY <1>1, <1>2, CandidateOf DEF Given
<1>4. ChecksPassed(gates[cand]) /\ gates[cand].review = "approved"
  BY <1>1, <1>2 DEF RunInv, Facts, Vetted
<1>5. CASE Push
  <2>1. phase = "DELIVERY_READY"
    BY <1>5 DEF Push, At
  <2>2. Follows("branch.pushed", "PUSHED", "branch-push-intent-observation")
        /\ Accepts("branch.pushed", "PUSHED", "branch-push-intent-observation", cand, Given)
    BY <1>3, <1>4, <2>1 DEF TerminalPhases, DIRECT_STOP_PHASES
  <2>3. CASE Advance("branch.pushed", "PUSHED", "branch-push-intent-observation") /\ head' = cand
    BY <1>1, <1>3, <2>1, <2>2, <2>3, Looping
  <2>4. CASE ~(Prior("local-review-fixer-iteration") /\ head # Foreign)
    BY <1>1, <1>2, <1>5, <2>4, Throwing DEF Push, Quiet, DIRECT_STOP_PHASES, envVars
  <2> QED BY <1>5, <2>3, <2>4 DEF Push
<1>6. CASE Deliver
  <2>1. phase = "PR_REVIEW" /\ gates[cand].pr = "approved" /\ last = "ci.revalidated"
        /\ head' = head
    BY <1>6 DEF Deliver, Reviewed, At, envVars
  <2>2. seen[cand].ci
    BY <2>1 DEF RunInv, Facts, Vetted
  <2>3. CASE FinalCiSnapshot /\ head = cand
    <3>1. Follows("pull_request.delivered", "PR_DELIVERED", "pr-review-fixer-iteration")
          /\ Accepts("pull_request.delivered", "PR_DELIVERED", "pr-review-fixer-iteration", cand,
                     Given)
      BY <1>3, <1>4, <2>1, <2>2, <2>3 DEF FinalCiSnapshot, TerminalPhases, DIRECT_STOP_PHASES
    <3>2. head' \in Candidates \cup {0, Foreign}
      BY <2>1, TypeFacts DEF RunInv
    <3> QED BY <1>1, <1>6, <2>1, <2>3, <3>1, <3>2, Looping DEF Deliver
  <2>4. CASE ~(FinalCiSnapshot /\ head = cand)
    BY <1>1, <1>2, <1>6, <2>4, Throwing DEF Deliver, Quiet, DIRECT_STOP_PHASES
  <2> QED BY <2>3, <2>4
<1> QED BY <1>5, <1>6

-----------------------------------------------------------------------------
(* Fixing. *)

\* #startFixing: the budget ends the run, or the candidate goes back with its
\* number in the count of fixes.
LEMMA Returning ==
  ASSUME RunInv, NEW count \in Nat, NEW owner, StartFixing(count, owner),
         w.pc \in {"loop", "recorded", "ci"},
         phase \in {"LOCAL_VERIFY", "LOCAL_REVIEW", "CI_WAIT", "PR_REVIEW"}, Fixable,
         count < MaxFixIterations =>
           /\ owner \in Owners /\ owner.pc = "loop"
           /\ fixes + 1 <= owner.fix + MaxFixIterations /\ fixes < 2 * MaxFixIterations,
         UNCHANGED <<approvals, queued, envVars>>
  PROVE  Kept
<1>1. /\ phase \in NormalPhases \ MergePhases /\ Where = phase
      /\ phase \in NormalPhases \ {"ADMITTED", "REPOSITORY_LEASED", "IDENTITY_READY"}
      /\ phase \in Numbers
  BY DEF NormalPhases, MergePhases, Where, Paused, Numbers, Checked, Approved
<1>2. cand \in Candidates /\ cand # 0 /\ gates \in [Candidates -> Gates] /\ gates[cand] \in Gates
  BY <1>1, CandidateOf, TypeFacts DEF RunInv
<1>3. CASE Throw("BUDGET_EXHAUSTED") /\ UNCHANGED <<runVars, refused>>
  BY <1>1, <1>3, Throwing DEF DIRECT_STOP_PHASES
<1>4. CASE count < MaxFixIterations
           /\ Write("fixing.started", "FIXING", "none", cand, gates[cand], owner)
  <2>1. Accepts("fixing.started", "FIXING", "none", cand, gates[cand])
    BY EventsFit DEF Accepts, LocalGates, DeliveryGates, CheckpointOf, CoverageComplete,
                     TerminalPhases, DIRECT_STOP_PHASES
  <2>2. Commits("fixing.started", "FIXING", "none", cand, gates[cand], owner) /\ w' = owner
    BY <1>4, <2>1 DEF Write
  <2>3. UNCHANGED <<held, head, seen, queued, approvals>> /\ ~queued
    BY DEF envVars, RunInv, Control
  <2>4. Typed' /\ Control' /\ NoRefusal
    <3>1. held' \in [Resources -> {"none", "prior", "current"}] /\ queued' \in BOOLEAN
          /\ head' \in Candidates \cup {0, Foreign} /\ seen' \in [Candidates -> Reports]
      BY <2>3, TypeFacts DEF RunInv
    <3>2. "FIXING" \in NormalPhases \ MergePhases
      BY DEF NormalPhases, MergePhases
    <3> QED BY <1>1, <1>2, <1>4, <2>2, <2>3, <3>1, <3>2, EventKeeps
  <2>5. /\ phase' = "FIXING" /\ cand' = cand /\ gates' = gates /\ fresh' = FALSE /\ cp' = cp
        /\ fixes' = fixes + 1 /\ last' = "fixing.started" /\ bundle' = bundle
    BY <1>2, <2>2 DEF Commits
  <2>6. Facts'
    <3>1. Where' = "FIXING" /\ "FIXING" \notin Numbers \cup Early /\ Numbers' = Numbers
      BY <2>5 DEF Where, Paused, Numbers, Checked, Approved, Delivered, Early
    <3>2. Numbered'
      BY <1>1, <1>2, <2>5, <3>1, Bounds, TypeFacts DEF RunInv, Facts, Numbered
    <3>3. Recorded'
      BY <2>3, <2>5 DEF RunInv, Facts, Recorded, ChecksPassed
    <3>4. Verifying' /\ Vetted'
      BY <2>5, <3>1 DEF RunInv, Facts, Verifying, Vetted, IsCurrent, Numbers, Checked, Approved,
                        Delivered, MayResumeFrom, HasContinuation
    <3> QED BY <3>2, <3>3, <3>4 DEF Facts
  <2>7. Owning'
    BY <1>4, <2>2, <2>5 DEF Owning
  <2>8. WorksOnItsOwn'
    BY <1>1, <2>3, HoldsOn
  <2> QED BY <2>4, <2>6, <2>7, <2>8 DEF RunInv, Kept
<1> QED BY <1>3, <1>4 DEF StartFixing

\* The count of the invocation.
LEMMA Counting ==
  ASSUME RunInv, w.pc \in {"loop", "recorded", "ci"}, w.fix < MaxFixIterations
  PROVE  /\ Counted \in Owners /\ Counted.pc = "loop"
         /\ fixes + 1 <= Counted.fix + MaxFixIterations /\ fixes < 2 * MaxFixIterations
<1>1. w \in Owners /\ w.fix \in Nat /\ fixes \in Nat /\ MaxFixIterations \in Nat
      /\ w.fix + 1 \in 0 .. 2 * MaxFixIterations
  BY TypeFacts, Bounds DEF RunInv
<1>2. Counted \in Owners /\ Counted.pc = "loop" /\ Counted.fix = w.fix + 1
  BY <1>1 DEF Counted, Owners
<1>3. fixes <= w.fix + MaxFixIterations
  BY DEF RunInv, Owning
<1> QED BY <1>1, <1>2, <1>3

\* A check that gave no answer stops the run, a failed one is fixed.
LEMMA Failing == RunInv /\ AfterVerification => Kept
<1> SUFFICES ASSUME RunInv, AfterVerification PROVE Kept
  OBVIOUS
<1>1. w.pc = "recorded" /\ phase = "LOCAL_VERIFY" /\ phase \in NormalPhases /\ w.fix \in Nat
      /\ UNCHANGED <<approvals, queued, envVars>>
  BY TypeFacts DEF RunInv, AfterVerification, NormalPhases, Quiet
<1>2. CASE w.to = "BLOCKED_EXTERNAL"
  BY <1>1, <1>2, Throwing DEF AfterVerification, Paused
<1>3. CASE w.to # "BLOCKED_EXTERNAL"
  <2>1. Fixable
    BY <1>1, <1>3 DEF RunInv, Owning, Fixable
  <2>2. StartFixing(w.fix, Counted)
    BY <1>3 DEF AfterVerification
  <2> QED BY <1>1, <2>1, <2>2, Counting, Returning
<1> QED BY <1>2, <1>3

\* The local review decides where the candidate goes.
LEMMA Judging == RunInv /\ AfterLocalReview => Kept
<1> SUFFICES ASSUME RunInv, AfterLocalReview PROVE Kept
  OBVIOUS
<1>1. w.pc = "loop" /\ phase = "LOCAL_REVIEW" /\ phase \in NormalPhases /\ w.fix \in Nat
      /\ UNCHANGED <<approvals, queued, envVars>> /\ Where = phase
  BY TypeFacts DEF RunInv, AfterLocalReview, At, Owns, NormalPhases, Quiet, Where, Paused
<1>2. CASE gates[cand].review = "changes-requested"
  <2>1. Fixable
    BY <1>1, <1>2 DEF Fixable
  <2>2. StartFixing(w.fix, Counted)
    BY <1>2 DEF AfterLocalReview
  <2> QED BY <1>1, <2>1, <2>2, Counting, Returning
<1>3. CASE gates[cand].review = "approved"
  <2>1. cand \in Nat \ {0} /\ Given = gates[cand]
    BY <1>1, CandidateOf DEF Given, Numbers, Checked
  <2>2. ChecksPassed(gates[cand])
    BY <1>1 DEF RunInv, Facts, Vetted, Checked
  <2>3. Follows("delivery.ready", "DELIVERY_READY", "none")
        /\ Accepts("delivery.ready", "DELIVERY_READY", "none", cand, Given)
    BY <1>1, <1>3, <2>1, <2>2, EventsFit
       DEF Follows, Early, Checked, Approved, Delivered, Accepts, LocalGates, DeliveryGates,
           CoverageComplete, CheckpointOf, TerminalPhases, DIRECT_STOP_PHASES
  <2>4. Advance("delivery.ready", "DELIVERY_READY", "none")
    BY <1>3 DEF AfterLocalReview
  <2>5. held' = held /\ seen' = seen /\ head' \in Candidates \cup {0, Foreign}
    BY <1>1, TypeFacts DEF RunInv, envVars
  <2> QED BY <1>1, <2>3, <2>4, <2>5, Looping DEF Checked
<1>4. CASE gates[cand].review \notin {"changes-requested", "approved"}
  <2>1. Throw("QUARANTINED") /\ UNCHANGED <<runVars, refused>>
    BY <1>4 DEF AfterLocalReview
  <2> QED BY <1>1, <2>1, Throwing DEF DIRECT_STOP_PHASES
<1> QED BY <1>2, <1>3, <1>4

-----------------------------------------------------------------------------
(* What CI and the pull-request review decide. *)

\* The aggregate, read back.
LEMMA Aggregate ==
  \A remote : /\ CiOutcome(remote) = "failed" => \E x \in Contexts : remote[x] = "failed"
              /\ CiOutcome(remote) = "passed" => \A x \in Contexts : remote[x] = "passed"
  BY DEF CiOutcome

\* The rest of #completeCi.
LEMMA DecidingCi == RunInv /\ AfterCi => Kept
<1> SUFFICES ASSUME RunInv, AfterCi PROVE Kept
  OBVIOUS
<1>1. w.pc = "ci" /\ UNCHANGED <<approvals, envVars>>
  BY DEF AfterCi
<1>2. phase = "CI_WAIT" /\ phase \in NormalPhases /\ phase \notin Paused
  BY <1>1 DEF RunInv, Control, NormalPhases, Paused
<1>3. fixes \in Nat /\ w.fix \in Nat /\ w \in Owners /\ MaxFixIterations \in Nat
  BY TypeFacts, Bounds DEF RunInv
<1>4. CASE CiOutcome(gates[cand].remote) = "failed"
  <2> DEFINE owner == [w EXCEPT !.pc = "loop"]
  <2>1. StartFixing(fixes, owner) /\ queued' = queued
    BY <1>4 DEF AfterCi
  <2>2. Fixable
    BY <1>2, <1>4, Aggregate DEF Fixable
  <2>3. owner \in Owners /\ owner.pc = "loop" /\ owner.fix = w.fix
    BY <1>3, OwnerMoves DEF RUN_EVENT_PHASES, NormalPhases
  <2>4. fixes < MaxFixIterations =>
          fixes + 1 <= owner.fix + MaxFixIterations /\ fixes < 2 * MaxFixIterations
    BY <1>3, <2>3
  <2> HIDE DEF owner
  <2> QED BY <1>1, <1>2, <1>3, <2>1, <2>2, <2>3, <2>4, Returning
<1>5. CASE CiOutcome(gates[cand].remote) = "passed"
  <2>1. Go("loop") /\ UNCHANGED <<runVars, refused, queued>>
    BY <1>5 DEF AfterCi
  <2>2. w' \in Owners /\ w'.pc = "loop" /\ w'.fix = w.fix /\ w'.takeover = w.takeover
    BY <1>3, <2>1, OwnerMoves DEF Go, RUN_EVENT_PHASES, NormalPhases
  <2>3. Typed'
    BY <1>1, <2>1, <2>2, TypesKept, TypeFacts DEF RunInv, runVars, envVars
  <2>4. Facts'
    BY <1>1, <2>1, FactsKept DEF RunInv, runVars, envVars
  <2>5. Control' /\ Owning' /\ NoRefusal
    BY <1>1, <1>2, <2>1, <2>2 DEF RunInv, Control, Owning, NoRefusal, runVars, NoCheckpoint
  <2>6. WorksOnItsOwn'
    BY <1>1, <2>1, <2>2 DEF RunInv, WorksOnItsOwn, runVars, envVars
  <2> QED BY <2>3, <2>4, <2>5, <2>6 DEF RunInv, Kept
<1>6. CASE CiOutcome(gates[cand].remote) \notin {"failed", "passed"}
  <2>1. w' = NoOwner /\ queued' = PendingCiYield /\ UNCHANGED <<runVars, refused>>
    BY <1>6 DEF AfterCi, RetryLater
  <2>2. queued' \in BOOLEAN
    BY <2>1 DEF PendingCiYield
  <2> QED BY <1>1, <1>2, <2>1, <2>2, Going
<1> QED BY <1>4, <1>5, <1>6

\* A decided snapshot lets the run go on to the review, or sends it back.
LEMMA LeavingCi == RunInv /\ LeaveCi => Kept
<1> SUFFICES ASSUME RunInv, LeaveCi PROVE Kept
  OBVIOUS
<1>1. w.pc = "loop" /\ phase = "CI_WAIT" /\ w.fix \in Nat /\ Where = phase
      /\ UNCHANGED <<approvals, queued, envVars>>
  BY TypeFacts DEF RunInv, LeaveCi, At, Owns, Quiet, Where, Paused
<1>2. CASE CiOutcome(gates[cand].remote) = "failed"
  <2>1. Fixable
    BY <1>1, <1>2, Aggregate DEF Fixable
  <2>2. StartFixing(w.fix, Counted)
    BY <1>2 DEF LeaveCi
  <2> QED BY <1>1, <2>1, <2>2, Counting, Returning
<1>3. CASE CiOutcome(gates[cand].remote) = "passed"
  <2>1. cand \in Nat \ {0} /\ Given = gates[cand]
    BY <1>1, CandidateOf DEF Given, Numbers, Checked, Approved
  <2>2. ChecksPassed(gates[cand]) /\ gates[cand].review = "approved"
    BY <1>1 DEF RunInv, Facts, Vetted, Checked, Approved
  <2>3. RemotePassed(gates[cand])
    BY <1>3, Aggregate DEF RemotePassed
  <2>4. Follows("pr_review.started", "PR_REVIEW", "none")
        /\ Accepts("pr_review.started", "PR_REVIEW", "none", cand, Given)
    BY <1>1, <2>1, <2>2, <2>3, EventsFit
       DEF Follows, Early, Checked, Approved, Delivered, Accepts, LocalGates, DeliveryGates,
           CoverageComplete, CheckpointOf, TerminalPhases, DIRECT_STOP_PHASES
  <2>5. Advance("pr_review.started", "PR_REVIEW", "none")
    BY <1>3 DEF LeaveCi
  <2>6. held' = held /\ seen' = seen /\ head' \in Candidates \cup {0, Foreign}
    BY <1>1, TypeFacts DEF RunInv, envVars
  <2> QED BY <1>1, <2>4, <2>5, <2>6, Looping DEF Checked, Approved
<1> QED BY <1>2, <1>3 DEF LeaveCi

\* #afterPullRequestReview without an approval.
LEMMA Rejecting == RunInv /\ PullRequestReviewRejected => Kept
<1> SUFFICES ASSUME RunInv, PullRequestReviewRejected PROVE Kept
  OBVIOUS
<1>1. w.pc = "loop" /\ phase = "PR_REVIEW" /\ phase \in NormalPhases /\ w.fix \in Nat
      /\ UNCHANGED <<approvals, queued, envVars>>
  BY TypeFacts DEF RunInv, PullRequestReviewRejected, Reviewed, At, Owns, NormalPhases, Quiet
<1>2. CASE gates[cand].pr = "changes-requested" /\ StartFixing(w.fix, Counted)
  <2>1. Fixable
    BY <1>1, <1>2 DEF Fixable
  <2> QED BY <1>1, <1>2, <2>1, Counting, Returning
<1>3. CASE Throw("QUARANTINED") /\ UNCHANGED <<runVars, refused>>
  BY <1>1, <1>3, Throwing DEF DIRECT_STOP_PHASES
<1> QED BY <1>2, <1>3 DEF PullRequestReviewRejected

-----------------------------------------------------------------------------
(* The verdicts of reviews and CI. *)

\* An event that puts a verdict on record, with its checkpoint, as the
\* controller gave it: the checks of the candidate stay what they are.
LEMMA Judgement ==
  ASSUME RunInv, w.pc = "loop", phase \in {"LOCAL_REVIEW", "CI_WAIT", "PR_REVIEW"},
         NEW type, type \notin {"fixing.started", "candidate.created"},
         NEW to \in {"LOCAL_REVIEW", "CI_WAIT", "PR_REVIEW"},
         NEW with \in Kinds, with # "local-verification-pass", with # "none",
         NEW g \in Gates, g.check = gates[cand].check,
         to = "LOCAL_REVIEW" => phase = "LOCAL_REVIEW",
         to # "LOCAL_REVIEW" => phase # "LOCAL_REVIEW" /\ g.review = gates[cand].review,
         NEW owner \in Owners, owner.pc \in {"none", "loop", "reviewed", "ci"},
         owner.pc # "none" => owner.fix = w.fix,
         owner.pc = "ci" => to = "CI_WAIT",
         Commits(type, to, with, cand, g, owner), w' = owner,
         queued' \in BOOLEAN, owner.pc # "none" => ~queued',
         UNCHANGED <<approvals, held, head>>, seen' \in [Candidates -> Reports],
         \A c \in Candidates \ {cand} : seen'[c] = seen[c],
         seen'[cand].check = seen[cand].check, seen'[cand].review = g.review,
         seen'[cand].pr = g.pr, type = "ci.revalidated" => seen'[cand].ci
  PROVE  Kept
<1>1. /\ phase \in NormalPhases \ MergePhases /\ Where = phase
      /\ phase \in NormalPhases \ {"ADMITTED", "REPOSITORY_LEASED", "IDENTITY_READY"}
      /\ phase \in Numbers /\ to \in NormalPhases \ MergePhases /\ to # "COMPLETED"
  BY DEF NormalPhases, MergePhases, Where, Paused, Numbers, Checked, Approved
<1>2. cand \in Candidates /\ cand # 0 /\ cand \in Nat /\ gates \in [Candidates -> Gates]
  BY <1>1, CandidateOf, TypeFacts DEF RunInv
<1>3. Typed' /\ Control' /\ NoRefusal
  <2>1. held' \in [Resources -> {"none", "prior", "current"}] /\ head' \in Candidates \cup {0, Foreign}
    BY TypeFacts DEF RunInv
  <2> QED BY <1>1, <1>2, <2>1, EventKeeps
<1>4. /\ phase' = to /\ cand' = cand /\ fixes' = fixes /\ last' = type /\ bundle' = bundle
      /\ cp'.kind = with /\ gates' = [gates EXCEPT ![cand] = g]
  BY <1>2 DEF Commits, Checkpoint
<1>5. gates'[cand] = g /\ \A c \in Candidates \ {cand} : gates'[c] = gates[c]
  BY <1>2, <1>4
<1>6. Where' = to /\ ~IsCurrent("local-verification-pass")'
  BY <1>4 DEF Where, Paused, IsCurrent
<1>7. Facts'
  <2>1. Numbered'
    BY <1>1, <1>4, <1>6
       DEF RunInv, Facts, Numbered, Numbers, Early, Checked, Approved, Delivered
  <2>2. Recorded'
    <3>1. ASSUME NEW c \in Candidates
          PROVE  /\ c > cand => gates'[c] = NoGates /\ seen'[c] = Unseen
                 /\ gates'[c].review = seen'[c].review /\ gates'[c].pr = seen'[c].pr
                 /\ ChecksPassed(gates'[c]) => ChecksPassed(seen'[c])
      <4>1. CASE c = cand
        BY <1>2, <1>5, <4>1 DEF RunInv, Facts, Recorded, ChecksPassed
      <4>2. CASE c # cand
        BY <1>5, <4>2 DEF RunInv, Facts, Recorded
      <4> QED BY <4>1, <4>2
    <3> QED BY <1>4, <3>1 DEF Recorded, ChecksPassed
  <2>3. Verifying'
    BY <1>4, <1>6 DEF Verifying, MayResumeFrom, HasContinuation
  <2>4. Vetted'
    <3>1. ChecksPassed(gates[cand])
      BY <1>1 DEF RunInv, Facts, Vetted, Checked, Approved
    <3>2. ChecksPassed(g)
      BY <3>1 DEF ChecksPassed
    <3>3. to # "LOCAL_REVIEW" => g.review = "approved"
      BY <1>1 DEF RunInv, Facts, Vetted, Approved
    <3> QED BY <1>2, <1>4, <1>5, <1>6, <3>2, <3>3 DEF Vetted, Checked, Approved, Delivered, ChecksPassed
  <2> QED BY <2>1, <2>2, <2>3, <2>4 DEF Facts
<1>8. Owning'
  BY <1>4 DEF RunInv, Owning
<1>9. WorksOnItsOwn'
  BY <1>1, HoldsOn
<1> QED BY <1>3, <1>7, <1>8, <1>9 DEF RunInv, Kept

\* The verdict of a review, typed.
LEMMA ReviewTyped ==
  ASSUME NEW g \in Gates, NEW r \in Reports, NEW o \in Reviews
  PROVE  /\ [g EXCEPT !.review = o] \in Gates /\ [g EXCEPT !.pr = o] \in Gates
         /\ [r EXCEPT !.review = o] \in Reports /\ [r EXCEPT !.pr = o, !.ci = FALSE] \in Reports
  BY DEF Gates, Reports

\* #review.
LEMMA Reviewing == RunInv /\ CompleteLocalReview => Kept
<1> SUFFICES ASSUME RunInv, CompleteLocalReview PROVE Kept
  OBVIOUS
<1>1. w.pc = "loop" /\ phase = "LOCAL_REVIEW" /\ Where = phase
      /\ UNCHANGED <<approvals, queued, held, head>>
  BY DEF CompleteLocalReview, At, Owns, Where, Paused, Quiet
<1>2. cand \in Candidates /\ cand \in Nat \ {0} /\ gates[cand] \in Gates /\ seen[cand] \in Reports
      /\ seen \in [Candidates -> Reports] /\ w \in Owners /\ queued \in BOOLEAN /\ ~queued
  BY <1>1, CandidateOf, TypeFacts DEF Numbers, Checked, RunInv, Control
<1>3. PICK o \in Reviews :
        /\ Write("review.completed", "LOCAL_REVIEW", "local-review-fixer-iteration", cand,
                 [gates[cand] EXCEPT !.review = o],
                 [w EXCEPT !.local = FALSE, !.pc = IF o = "blocked" THEN "reviewed" ELSE "loop"])
        /\ seen' = [seen EXCEPT ![cand].review = o]
  BY DEF CompleteLocalReview
<1> DEFINE g == [gates[cand] EXCEPT !.review = o]
           owner == [w EXCEPT !.local = FALSE, !.pc = IF o = "blocked" THEN "reviewed" ELSE "loop"]
<1>4. Accepts("review.completed", "LOCAL_REVIEW", "local-review-fixer-iteration", cand, g)
  BY <1>1, <1>2, EventsFit, CheckpointsFit
     DEF Accepts, LocalGates, DeliveryGates, CoverageComplete, CheckpointOf, HasLineage,
         TerminalPhases, DIRECT_STOP_PHASES
<1>5. Commits("review.completed", "LOCAL_REVIEW", "local-review-fixer-iteration", cand, g, owner)
      /\ w' = owner
  BY <1>3, <1>4 DEF Write
<1>6. owner \in Owners /\ owner.fix = w.fix /\ owner.pc \in {"loop", "reviewed"}
  BY <1>2 DEF Owners
<1>7. g \in Gates /\ g.check = gates[cand].check /\ g.review = o /\ g.pr = gates[cand].pr
  BY <1>2, ReviewTyped DEF Gates
<1>8. /\ seen' \in [Candidates -> Reports] /\ seen'[cand] = [seen[cand] EXCEPT !.review = o]
      /\ \A c \in Candidates \ {cand} : seen'[c] = seen[c]
  BY <1>2, <1>3, ReviewTyped
<1>9. seen'[cand].check = seen[cand].check /\ seen'[cand].review = o /\ seen'[cand].pr = seen[cand].pr
  BY <1>2, <1>8 DEF Reports
<1>10. gates[cand].pr = seen[cand].pr
  BY <1>2 DEF RunInv, Facts, Recorded
<1> HIDE DEF g, owner
<1>11. "local-review-fixer-iteration" \in Kinds
  BY KindsFit
<1> QED BY <1>1, <1>2, <1>5, <1>6, <1>7, <1>8, <1>9, <1>10, <1>11, Judgement

\* The pull-request review: what CI said before it is not the last word.
LEMMA PrReviewing == RunInv /\ CompletePullRequestReview => Kept
<1> SUFFICES ASSUME RunInv, CompletePullRequestReview PROVE Kept
  OBVIOUS
<1>1. w.pc = "loop" /\ phase = "PR_REVIEW" /\ Where = phase
      /\ UNCHANGED <<approvals, queued, held, head>>
  BY DEF CompletePullRequestReview, At, Owns, Where, Paused, Quiet
<1>2. cand \in Candidates /\ cand \in Nat \ {0} /\ gates[cand] \in Gates /\ seen[cand] \in Reports
      /\ seen \in [Candidates -> Reports] /\ w \in Owners /\ queued \in BOOLEAN /\ ~queued
  BY <1>1, CandidateOf, TypeFacts DEF Numbers, Checked, Approved, RunInv, Control
<1>3. PICK o \in Reviews :
        /\ Write("pr_review.completed", "PR_REVIEW", "pr-review-fixer-iteration", cand,
                 [gates[cand] EXCEPT !.pr = o],
                 [w EXCEPT !.pr = FALSE, !.pc = IF o = "blocked" THEN "reviewed" ELSE "loop"])
        /\ seen' = [seen EXCEPT ![cand].pr = o, ![cand].ci = FALSE]
  BY DEF CompletePullRequestReview
<1> DEFINE g == [gates[cand] EXCEPT !.pr = o]
           owner == [w EXCEPT !.pr = FALSE, !.pc = IF o = "blocked" THEN "reviewed" ELSE "loop"]
<1>4. Accepts("pr_review.completed", "PR_REVIEW", "pr-review-fixer-iteration", cand, g)
  BY <1>1, <1>2, EventsFit, CheckpointsFit
     DEF Accepts, LocalGates, DeliveryGates, CoverageComplete, CheckpointOf, HasLineage,
         TerminalPhases, DIRECT_STOP_PHASES
<1>5. Commits("pr_review.completed", "PR_REVIEW", "pr-review-fixer-iteration", cand, g, owner)
      /\ w' = owner
  BY <1>3, <1>4 DEF Write
<1>6. owner \in Owners /\ owner.fix = w.fix /\ owner.pc \in {"loop", "reviewed"}
  BY <1>2 DEF Owners
<1>7. g \in Gates /\ g.check = gates[cand].check /\ g.review = gates[cand].review /\ g.pr = o
  BY <1>2, ReviewTyped DEF Gates
<1>8. /\ seen' \in [Candidates -> Reports]
      /\ seen'[cand] = [seen[cand] EXCEPT !.pr = o, !.ci = FALSE]
      /\ \A c \in Candidates \ {cand} : seen'[c] = seen[c]
  <2> DEFINE between == [seen EXCEPT ![cand].pr = o]
  <2>1. /\ DOMAIN between = Candidates /\ between[cand] = [seen[cand] EXCEPT !.pr = o]
        /\ \A c \in Candidates \ {cand} : between[c] = seen[c]
    BY <1>2
  <2>2. seen' = [between EXCEPT ![cand].ci = FALSE]
    BY <1>3
  <2> HIDE DEF between
  <2>3. /\ DOMAIN seen' = Candidates /\ seen'[cand] = [between[cand] EXCEPT !.ci = FALSE]
        /\ \A c \in Candidates \ {cand} : seen'[c] = seen[c]
        /\ seen' = [c \in Candidates |-> seen'[c]]
    BY <1>2, <2>1, <2>2
  <2>4. seen'[cand] = [seen[cand] EXCEPT !.pr = o, !.ci = FALSE]
    BY <2>1, <2>3
  <2>5. \A c \in Candidates : seen'[c] \in Reports
    <3>1. [seen[cand] EXCEPT !.pr = o, !.ci = FALSE] \in Reports
      BY <1>2, ReviewTyped
    <3>2. \A c \in Candidates \ {cand} : seen'[c] \in Reports
      BY <1>2, <2>3
    <3> QED BY <2>4, <3>1, <3>2
  <2> QED BY <2>3, <2>4, <2>5
<1>9. seen'[cand].check = seen[cand].check /\ seen'[cand].review = seen[cand].review
      /\ seen'[cand].pr = o
  BY <1>2, <1>8 DEF Reports
<1>10. gates[cand].review = seen[cand].review
  BY <1>2 DEF RunInv, Facts, Recorded
<1> HIDE DEF g, owner
<1>11. "pr-review-fixer-iteration" \in Kinds
  BY KindsFit
<1> QED BY <1>1, <1>2, <1>5, <1>6, <1>7, <1>8, <1>9, <1>10, <1>11, Judgement

\* A look at CI, typed.
LEMMA ObservedTyped ==
  ASSUME NEW l \in Listings, cand \in Candidates, gates[cand] \in Gates
  PROVE  LET g == Observed(ObserveExactHeadCi(l))
         IN /\ g \in Gates /\ g.check = gates[cand].check /\ g.review = gates[cand].review
            /\ g.pr = gates[cand].pr /\ g.remote = ObserveExactHeadCi(l)
<1>1. ObserveExactHeadCi(l) \in [Contexts -> CiOutcomes \cup {"none"}]
  BY OutcomeTyped DEF ObserveExactHeadCi
<1> QED BY <1>1 DEF Observed, Gates

\* #completeCi.
LEMMA WatchingCi == RunInv /\ CompleteCi => Kept
<1> SUFFICES ASSUME RunInv, CompleteCi PROVE Kept
  OBVIOUS
<1>1. w.pc = "loop" /\ phase = "CI_WAIT" /\ Where = phase /\ phase \in NormalPhases
      /\ UNCHANGED <<approvals, queued, held, head>>
  BY DEF CompleteCi, At, Owns, Where, Paused, Quiet, NormalPhases
<1>2. cand \in Candidates /\ cand \in Nat \ {0} /\ gates[cand] \in Gates
      /\ seen \in [Candidates -> Reports] /\ w \in Owners /\ queued \in BOOLEAN /\ ~queued
  BY <1>1, CandidateOf, TypeFacts DEF Numbers, Checked, Approved, RunInv, Control
<1>3. PICK l \in Listings :
        IF Trusted(l)
        THEN /\ Write("ci.completed", "CI_WAIT", "ci-reconciliation-snapshot", cand,
                      Observed(ObserveExactHeadCi(l)), [w EXCEPT !.pc = "ci"])
             /\ seen' = seen
        ELSE CiRefused
  BY DEF CompleteCi
<1>4. CASE ~Trusted(l)
  <2>1. Throw("FAILED") /\ UNCHANGED <<runVars, refused, seen>>
    BY <1>3, <1>4 DEF CiRefused
  <2> QED BY <1>1, <2>1, Throwing DEF DIRECT_STOP_PHASES, envVars
<1>5. CASE Trusted(l)
  <2> DEFINE g == Observed(ObserveExactHeadCi(l))
             owner == [w EXCEPT !.pc = "ci"]
  <2>1. Accepts("ci.completed", "CI_WAIT", "ci-reconciliation-snapshot", cand, g)
    BY <1>1, <1>2, EventsFit, CheckpointsFit
       DEF Accepts, LocalGates, DeliveryGates, CoverageComplete, CheckpointOf, HasLineage,
           TerminalPhases, DIRECT_STOP_PHASES
  <2>2. Commits("ci.completed", "CI_WAIT", "ci-reconciliation-snapshot", cand, g, owner)
        /\ w' = owner /\ seen' = seen
    BY <1>3, <1>5, <2>1 DEF Write
  <2>3. owner \in Owners /\ owner.fix = w.fix /\ owner.pc = "ci"
    BY <1>2, OwnerMoves DEF RUN_EVENT_PHASES, NormalPhases
  <2>4. g \in Gates /\ g.check = gates[cand].check /\ g.review = gates[cand].review
        /\ g.pr = gates[cand].pr
    BY <1>2, ObservedTyped
  <2>5. gates[cand].review = seen[cand].review /\ gates[cand].pr = seen[cand].pr
    BY <1>2 DEF RunInv, Facts, Recorded
  <2>6. "ci-reconciliation-snapshot" \in Kinds
    BY KindsFit
  <2> HIDE DEF g, owner
  <2> QED BY <1>1, <1>2, <2>2, <2>3, <2>4, <2>5, <2>6, Judgement
<1> QED BY <1>4, <1>5

\* #afterPullRequestReview: CI once more, after the approval.
LEMMA Revalidating == RunInv /\ Revalidate => Kept
<1> SUFFICES ASSUME RunInv, Revalidate PROVE Kept
  OBVIOUS
<1>1. w.pc = "loop" /\ phase = "PR_REVIEW" /\ Where = phase /\ phase \in NormalPhases
      /\ UNCHANGED <<approvals, held, head>> /\ queued' = (w'.pc = "none" /\ PendingCiYield')
  BY DEF Revalidate, Reviewed, At, Owns, Where, Paused, NormalPhases
<1>2. cand \in Candidates /\ cand \in Nat \ {0} /\ gates[cand] \in Gates /\ seen[cand] \in Reports
      /\ seen \in [Candidates -> Reports] /\ w \in Owners /\ queued \in BOOLEAN /\ ~queued
  BY <1>1, CandidateOf, TypeFacts DEF Numbers, Checked, Approved, RunInv, Control
<1>3. queued' \in BOOLEAN /\ (w'.pc # "none" => ~queued')
  BY <1>1 DEF PendingCiYield
<1>4. gates[cand].review = seen[cand].review /\ gates[cand].pr = seen[cand].pr
  BY <1>2 DEF RunInv, Facts, Recorded
<1>5. "ci-reconciliation-snapshot" \in Kinds /\ "pr-review-fixer-iteration" \in Kinds
  BY KindsFit
<1>6. PICK l \in Listings :
        IF ~Trusted(l) THEN CiRefused
        ELSE IF CiOutcome(ObserveExactHeadCi(l)) = "passed"
        THEN /\ Write("ci.revalidated", "PR_REVIEW", "pr-review-fixer-iteration", cand,
                      Observed(ObserveExactHeadCi(l)), [w EXCEPT !.pc = "loop"])
             /\ seen' = [seen EXCEPT ![cand].ci = \A x \in Contexts : Ci!Green(l, x)]
        ELSE /\ Write("ci.recheck_completed", "CI_WAIT", "ci-reconciliation-snapshot", cand,
                      Observed(ObserveExactHeadCi(l)),
                      IF CiOutcome(ObserveExactHeadCi(l)) \in Undecided THEN NoOwner
                      ELSE [w EXCEPT !.pc = "loop"])
             /\ seen' = seen
  BY DEF Revalidate
<1> DEFINE g == Observed(ObserveExactHeadCi(l))
           loop == [w EXCEPT !.pc = "loop"]
<1>7. g \in Gates /\ g.check = gates[cand].check /\ g.review = gates[cand].review
      /\ g.pr = gates[cand].pr
  BY <1>2, ObservedTyped
<1>8. loop \in Owners /\ loop.fix = w.fix /\ loop.pc = "loop"
  BY <1>2, OwnerMoves DEF RUN_EVENT_PHASES, NormalPhases
<1>9. CASE ~Trusted(l)
  <2>1. Throw("FAILED") /\ UNCHANGED <<runVars, refused, seen>>
    BY <1>6, <1>9 DEF CiRefused
  <2>2. w'.pc = "failing"
    BY <1>2, <2>1 DEF Throw, Owners
  <2>3. queued' = queued
    BY <1>1, <1>2, <2>2
  <2> QED BY <1>1, <2>1, <2>3, Throwing DEF DIRECT_STOP_PHASES, envVars
<1>10. CASE Trusted(l) /\ CiOutcome(ObserveExactHeadCi(l)) = "passed"
  <2>1. \A x \in Contexts : Ci!Green(l, x)
    <3>1. \A x \in Contexts : ObserveExactHeadCi(l)[x] = "passed"
      BY <1>10, Aggregate
    <3>2. \A x \in Contexts : Ci!OutcomeOf(l, x) = "passed"
      BY <3>1 DEF ObserveExactHeadCi
    <3> QED BY <3>2, PassedIsGreen
  <2>2. Accepts("ci.revalidated", "PR_REVIEW", "pr-review-fixer-iteration", cand, g)
    BY <1>1, <1>2, EventsFit, CheckpointsFit
       DEF Accepts, LocalGates, DeliveryGates, CoverageComplete, CheckpointOf, HasLineage,
           TerminalPhases, DIRECT_STOP_PHASES
  <2>3. Commits("ci.revalidated", "PR_REVIEW", "pr-review-fixer-iteration", cand, g, loop)
        /\ w' = loop
    BY <1>6, <1>10, <2>2 DEF Write
  <2>4. seen' = [seen EXCEPT ![cand] = [seen[cand] EXCEPT !.ci = TRUE]]
    BY <1>6, <1>10, <2>1
  <2>5. [seen[cand] EXCEPT !.ci = TRUE] \in Reports
    BY <1>2 DEF Reports
  <2>6. /\ seen' \in [Candidates -> Reports] /\ seen'[cand] = [seen[cand] EXCEPT !.ci = TRUE]
        /\ \A c \in Candidates \ {cand} : seen'[c] = seen[c]
    BY <1>2, <2>4, <2>5
  <2>7. seen'[cand].check = seen[cand].check /\ seen'[cand].review = seen[cand].review
        /\ seen'[cand].pr = seen[cand].pr /\ seen'[cand].ci
    BY <1>2, <2>6 DEF Reports
  <2> HIDE DEF g, loop
  <2> QED BY <1>1, <1>2, <1>3, <1>4, <1>5, <1>7, <1>8, <2>3, <2>6, <2>7, Judgement
<1>11. CASE Trusted(l) /\ CiOutcome(ObserveExactHeadCi(l)) # "passed"
  <2>1. PICK owner \in {NoOwner, loop} :
          /\ Write("ci.recheck_completed", "CI_WAIT", "ci-reconciliation-snapshot", cand, g, owner)
          /\ seen' = seen
    BY <1>6, <1>11
  <2>2. Accepts("ci.recheck_completed", "CI_WAIT", "ci-reconciliation-snapshot", cand, g)
    BY <1>1, <1>2, EventsFit, CheckpointsFit
       DEF Accepts, LocalGates, DeliveryGates, CoverageComplete, CheckpointOf, HasLineage,
           TerminalPhases, DIRECT_STOP_PHASES
  <2>3. Commits("ci.recheck_completed", "CI_WAIT", "ci-reconciliation-snapshot", cand, g, owner)
        /\ w' = owner
    BY <2>1, <2>2 DEF Write
  <2>4. owner \in Owners /\ owner.pc \in {"none", "loop"} /\ (owner.pc = "loop" => owner.fix = w.fix)
    BY <1>8, BlanksTyped
  <2> HIDE DEF g, loop
  <2> QED BY <1>1, <1>2, <1>3, <1>4, <1>5, <1>7, <2>1, <2>3, <2>4, Judgement
<1> QED BY <1>9, <1>10, <1>11

-----------------------------------------------------------------------------
(* Candidates and their checks. *)

\* #candidate: the next number, about which nobody has said anything.
LEMMA Creating == RunInv /\ Candidate => Kept
<1> SUFFICES ASSUME RunInv, Candidate PROVE Kept
  OBVIOUS
<1>1. w.pc = "loop" /\ phase \in {"IMPLEMENTING", "FIXING"} /\ Where = phase
      /\ UNCHANGED <<approvals, queued, held, head, seen>>
  BY DEF Candidate, Where, Paused, Quiet, envVars
<1>2. /\ phase \in NormalPhases \ MergePhases /\ phase # "CANDIDATE_READY"
      /\ phase \in NormalPhases \ {"ADMITTED", "REPOSITORY_LEASED", "IDENTITY_READY"}
  BY <1>1 DEF NormalPhases, MergePhases
<1>3. gates \in [Candidates -> Gates] /\ seen \in [Candidates -> Reports] /\ w \in Owners
      /\ fixes \in 0 .. 2 * MaxFixIterations /\ fixes \in Nat /\ cand \in Nat
      /\ queued \in BOOLEAN /\ ~queued
  BY <1>1, TypeFacts DEF RunInv, Control
<1>4. cand = fixes
  BY <1>1 DEF RunInv, Facts, Numbered, Early
<1>5. cand + 1 \in Candidates /\ cand + 1 \in Nat \ {0}
  BY <1>3, <1>4, Bounds
<1>6. CASE ~ResumeFits
  BY <1>1, <1>2, <1>6, Throwing DEF Candidate, Quiet, DIRECT_STOP_PHASES
<1>7. ASSUME NEW s \in Captured,
             Write("candidate.created", "CANDIDATE_READY", "candidate-commit-creation", cand + 1,
                   NoGates, [w EXCEPT !.resume = FALSE, !.session = s])
      PROVE  Kept
  <2> DEFINE owner == [w EXCEPT !.resume = FALSE, !.session = s]
  <2>1. owner \in Owners /\ owner.pc = "loop" /\ owner.fix = w.fix
    <3>1. s \in BOOLEAN
      BY AsfRunAssumption DEF Captured
    <3> QED BY <1>1, <1>3, <3>1 DEF Owners
  <2>2. Accepts("candidate.created", "CANDIDATE_READY", "candidate-commit-creation", cand + 1,
                NoGates)
    BY <1>1, <1>5, EventsFit, CheckpointsFit
       DEF Accepts, LocalGates, DeliveryGates, CoverageComplete, CheckpointOf, HasLineage,
           TerminalPhases, DIRECT_STOP_PHASES
  <2>3. Commits("candidate.created", "CANDIDATE_READY", "candidate-commit-creation", cand + 1,
                NoGates, owner) /\ w' = owner
    BY <1>7, <2>2 DEF Write
  <2> HIDE DEF owner
  <2>4. Typed' /\ Control' /\ NoRefusal
    <3>1. held' \in [Resources -> {"none", "prior", "current"}] /\ seen' \in [Candidates -> Reports]
          /\ head' \in Candidates \cup {0, Foreign} /\ queued' \in BOOLEAN /\ ~queued'
      BY <1>1, <1>3, TypeFacts DEF RunInv
    <3>2. "CANDIDATE_READY" \in NormalPhases \ MergePhases
          /\ "candidate-commit-creation" \in Kinds \cup {"none"}
      BY KindsFit DEF NormalPhases, MergePhases
    <3>3. cand + 1 \in Candidates \cup {0} /\ NoGates \in Gates
      BY <1>5, BlanksTyped
    <3> QED BY <1>1, <1>2, <2>1, <2>3, <3>1, <3>2, <3>3, EventKeeps
  <2>5. /\ phase' = "CANDIDATE_READY" /\ cand' = cand + 1 /\ fixes' = fixes
        /\ last' = "candidate.created" /\ cp'.kind = "candidate-commit-creation"
        /\ gates'[cand + 1] = NoGates /\ \A c \in Candidates \ {cand + 1} : gates'[c] = gates[c]
    BY <1>3, <1>5, <2>3 DEF Commits, Checkpoint
  <2>6. Where' = "CANDIDATE_READY"
    BY <2>5 DEF Where, Paused
  <2>7. Facts'
    <3>1. Numbered'
      BY <1>4, <2>5, <2>6 DEF Numbered, Numbers, Early
    <3>2. ASSUME NEW c \in Candidates
          PROVE  /\ c > cand' => gates'[c] = NoGates /\ seen'[c] = Unseen
                 /\ gates'[c].review = seen'[c].review /\ gates'[c].pr = seen'[c].pr
                 /\ ChecksPassed(gates'[c]) => ChecksPassed(seen'[c])
      <4>1. CASE c = cand + 1
        <5>1. seen'[c] = Unseen /\ gates'[c] = NoGates
          BY <1>1, <1>3, <2>5, <4>1 DEF RunInv, Facts, Recorded
        <5>2. ~ChecksPassed(gates'[c])
          BY <5>1, Bounds DEF NoGates, NoReport, ChecksPassed
        <5> QED BY <2>5, <4>1, <5>1, <5>2 DEF Unseen, NoGates
      <4>2. CASE c # cand + 1
        <5>1. c > cand' => c > cand
          BY <1>3, <2>5, Bounds
        <5> QED BY <1>1, <2>5, <4>2, <5>1 DEF RunInv, Facts, Recorded
      <4> QED BY <4>1, <4>2
    <3>3. Recorded'
      BY <3>2 DEF Recorded, ChecksPassed
    <3>4. Verifying'
      BY <2>5, <2>6 DEF Verifying, IsCurrent, NoGates, NoReport, MayResumeFrom, HasContinuation
    <3>5. Vetted'
      BY <2>5, <2>6 DEF Vetted, Checked, Approved, Delivered
    <3> QED BY <3>1, <3>3, <3>4, <3>5 DEF Facts
  <2>8. Owning'
    BY <1>1, <2>1, <2>3, <2>5 DEF RunInv, Owning
  <2>9. WorksOnItsOwn'
    BY <1>1, <1>2, HoldsOn
  <2> QED BY <2>4, <2>7, <2>8, <2>9 DEF RunInv, Kept
<1> QED BY <1>6, <1>7 DEF Candidate

\* #completeLocalVerification: what is asked is not on record as passed.
LEMMA Checking == RunInv /\ Verify => Kept
<1> SUFFICES ASSUME RunInv, Verify PROVE Kept
  OBVIOUS
<1>1. w.pc = "loop" /\ phase = "LOCAL_VERIFY" /\ ~IsCurrent("local-verification-pass")
      /\ Where = phase /\ UNCHANGED <<runVars, approvals, queued, held, head, refused>>
  BY DEF Verify, At, Owns, Where, Paused, Quiet
<1>2. cand \in Candidates /\ gates[cand] \in Gates /\ seen[cand] \in Reports
      /\ seen \in [Candidates -> Reports] /\ w \in Owners /\ 1 \in Checks /\ cand \in Nat
  BY <1>1, CandidateOf, TypeFacts, Bounds DEF Numbers, RunInv
<1>3. PICK report \in [Checks -> Verdicts] :
        /\ w' = [w EXCEPT !.pc = "recording", !.report = report, !.i = 1]
        /\ seen' = [seen EXCEPT ![cand].check = report]
  BY DEF Verify
<1>4. w' \in Owners /\ w'.pc = "recording" /\ w'.report = report /\ w'.i = 1 /\ w'.fix = w.fix
  <2>1. report \in [Checks -> Verdicts \cup {"none"}]
    OBVIOUS
  <2> QED BY <1>2, <1>3, <2>1 DEF Owners
<1>5. /\ seen' \in [Candidates -> Reports] /\ seen'[cand] = [seen[cand] EXCEPT !.check = report]
      /\ seen'[cand].check = report /\ seen'[cand].review = seen[cand].review
      /\ seen'[cand].pr = seen[cand].pr /\ seen'[cand].ci = seen[cand].ci
      /\ \A c \in Candidates \ {cand} : seen'[c] = seen[c]
  <2>1. [seen[cand] EXCEPT !.check = report] \in Reports
    BY <1>2 DEF Reports
  <2>2. /\ seen' \in [Candidates -> Reports] /\ seen'[cand] = [seen[cand] EXCEPT !.check = report]
        /\ \A c \in Candidates \ {cand} : seen'[c] = seen[c]
    BY <1>2, <1>3, <2>1
  <2> QED BY <1>2, <2>2 DEF Reports
<1>6. Typed'
  BY <1>1, <1>4, <1>5 DEF RunInv, Typed, TypeOK, Owners, runVars
<1>7. Facts'
  <2>1. Where' = phase
    BY <1>1 DEF runVars, Where, Paused
  <2>2. Numbered' /\ Verifying'
    BY <1>1 DEF RunInv, Facts, Numbered, Verifying, Where, IsCurrent, ChecksPassed, MayResumeFrom,
                HasContinuation, runVars
  <2>3. Vetted'
    BY <1>1, <1>5, <2>1 DEF RunInv, Facts, Vetted, runVars, Checked, Approved, Delivered
  <2>4. ~ChecksPassed(gates[cand])
    BY <1>1 DEF RunInv, Facts, Verifying, MayResumeFrom
  <2>5. ASSUME NEW c \in Candidates
        PROVE  /\ c > cand => gates[c] = NoGates /\ seen'[c] = Unseen
               /\ gates[c].review = seen'[c].review /\ gates[c].pr = seen'[c].pr
               /\ ChecksPassed(gates[c]) => ChecksPassed(seen'[c])
    <3>1. /\ c > cand => gates[c] = NoGates /\ seen[c] = Unseen
          /\ gates[c].review = seen[c].review /\ gates[c].pr = seen[c].pr
          /\ ChecksPassed(gates[c]) => ChecksPassed(seen[c])
      BY DEF RunInv, Facts, Recorded
    <3>2. CASE c = cand
      <4>1. ~(c > cand)
        BY <1>2, <3>2
      <4> QED BY <1>5, <2>4, <3>1, <3>2, <4>1
    <3>3. CASE c # cand
      <4>1. seen'[c] = seen[c]
        BY <1>5, <3>3
      <4> QED BY <3>1, <4>1
    <3> QED BY <3>2, <3>3
  <2>6. Recorded'
    BY <1>1, <2>5 DEF Recorded, ChecksPassed, runVars
  <2> QED BY <2>2, <2>3, <2>6 DEF Facts
<1>8. Control'
  <2>1. UNCHANGED <<phase, resume, cp, queued>> /\ phase = "LOCAL_VERIFY" /\ ~queued
    BY <1>1 DEF runVars, RunInv, Control
  <2>2. cp # NoCheckpoint /\ phase \notin Paused /\ phase \notin TerminalPhases
    BY <1>1 DEF RunInv, Control, Paused, TerminalPhases, DIRECT_STOP_PHASES
  <2>3. cp' # NoCheckpoint
    BY <2>1, <2>2 DEF NoCheckpoint
  <2> QED BY <1>4, <2>1, <2>2, <2>3 DEF RunInv, Control
<1>9. Owning'
  <2>1. ~IsCurrent("local-verification-pass")'
    BY <1>1 DEF runVars, IsCurrent
  <2>2. \A j \in Checks : ~(j < 1)
    BY Bounds
  <2> QED BY <1>1, <1>4, <1>5, <2>1, <2>2 DEF RunInv, Owning, runVars
<1>10. NoRefusal /\ WorksOnItsOwn'
  BY <1>1, <1>4 DEF RunInv, NoRefusal, WorksOnItsOwn, runVars
<1> QED BY <1>6, <1>7, <1>8, <1>9, <1>10 DEF RunInv, Kept

-----------------------------------------------------------------------------
(* The events of a report. *)

\* One more check on record.  With the last of a report, all have passed if the
\* report is clean; before it, if an earlier report left this one open alone
\* (#verificationCompletesRequiredCoverage).
LEMMA Covering ==
  ASSUME RunInv, w.pc = "recording", phase = "LOCAL_VERIFY",
         NEW g, g = [gates[cand] EXCEPT !.check[w.i] = w.report[w.i]]
  PROVE  /\ g \in Gates /\ g.review = gates[cand].review /\ g.pr = gates[cand].pr
         /\ \A j \in Checks : j <= w.i => g.check[j] = w.report[j]
         /\ w.i = NChecks => (ChecksPassed(g) <=> \A j \in Checks : w.report[j] = "passed")
         /\ ChecksPassed(g) =>
              /\ w.report[w.i] = "passed"
              /\ {j \in Checks : gates[cand].check[j] # "passed"} = {w.i}
<1>1. Where = phase
  BY DEF Where, Paused
<1>2. cand \in Candidates /\ gates[cand] \in Gates /\ w.i \in Checks
  BY <1>1, CandidateOf, TypeFacts DEF Numbers, RunInv, Owners
<1>3. /\ w.report \in [Checks -> Verdicts]
      /\ \A j \in Checks : j < w.i => gates[cand].check[j] = w.report[j]
      /\ ~IsCurrent("local-verification-pass")
  BY DEF RunInv, Owning
<1>4. /\ g \in Gates /\ g.review = gates[cand].review /\ g.pr = gates[cand].pr
      /\ g.check = [gates[cand].check EXCEPT ![w.i] = w.report[w.i]]
  <2>1. w.report[w.i] \in Verdicts
    BY <1>2, <1>3
  <2>2. [gates[cand].check EXCEPT ![w.i] = w.report[w.i]] \in [Checks -> Verdicts \cup {"none"}]
    BY <1>2, <2>1 DEF Gates
  <2> QED BY <1>2, <2>2 DEF Gates
<1>5. g.check[w.i] = w.report[w.i] /\ \A j \in Checks : j # w.i => g.check[j] = gates[cand].check[j]
  BY <1>2, <1>4 DEF Gates
<1>6. ASSUME NEW j \in Checks, j <= w.i PROVE g.check[j] = w.report[j]
  <2>1. j = w.i \/ (j < w.i /\ j # w.i)
    BY <1>2, <1>6, Bounds
  <2> QED BY <1>3, <1>5, <2>1
<1>7. w.i = NChecks => (ChecksPassed(g) <=> \A j \in Checks : w.report[j] = "passed")
  BY <1>6, Bounds DEF ChecksPassed
<1>8. ASSUME ChecksPassed(g)
      PROVE  /\ w.report[w.i] = "passed"
             /\ {j \in Checks : gates[cand].check[j] # "passed"} = {w.i}
  <2>1. ~ChecksPassed(gates[cand])
    BY <1>3 DEF RunInv, Facts, Verifying, MayResumeFrom
  <2>2. w.report[w.i] = "passed" /\ \A j \in Checks : j # w.i => gates[cand].check[j] = "passed"
    BY <1>2, <1>5, <1>8 DEF ChecksPassed
  <2>3. gates[cand].check[w.i] # "passed"
    BY <2>1, <2>2 DEF ChecksPassed
  <2> QED BY <1>2, <2>2, <2>3
<1> QED BY <1>4, <1>6, <1>7, <1>8

\* Every check of a report is an event of its own.
LEMMA Reporting ==
  RunInv /\ RecordCheck => RunInv' /\ (~refused /\ refused' => MidReport)
<1> SUFFICES ASSUME RunInv, RecordCheck
             PROVE  RunInv' /\ (~refused /\ refused' => MidReport)
  OBVIOUS
<1> DEFINE passed == \A i \in Checks : w.report[i] = "passed"
           end == w.i = NChecks
           with == IF passed /\ end THEN "local-verification-pass" ELSE "none"
           g == [gates[cand] EXCEPT !.check[w.i] = w.report[w.i]]
           owner == [w EXCEPT !.pc = IF ~end THEN "recording" ELSE IF passed THEN "loop" ELSE "recorded",
                        !.i = IF end THEN 1 ELSE w.i + 1,
                        !.report = IF end THEN NoReport ELSE w.report,
                        !.to = IF end /\ \E i \in Checks : w.report[i] = "blocked"
                               THEN "BLOCKED_EXTERNAL" ELSE w.to]
<1>1. /\ w.pc = "recording" /\ phase = "LOCAL_VERIFY" /\ Where = phase
      /\ UNCHANGED <<approvals, queued, held, head, seen>>
      /\ Write("verification.completed", "LOCAL_VERIFY", with, cand, g, owner)
  BY DEF RecordCheck, Where, Paused, Quiet, envVars
<1>2. cand \in Candidates /\ cand \in Nat \ {0} /\ w \in Owners /\ w.i \in Checks
      /\ gates \in [Candidates -> Gates] /\ seen \in [Candidates -> Reports]
      /\ queued \in BOOLEAN /\ ~queued /\ fixes \in Nat
  BY <1>1, CandidateOf, TypeFacts DEF Numbers, RunInv, Owners, Control
<1>3. /\ w.report = seen[cand].check /\ w.report \in [Checks -> Verdicts]
      /\ ~IsCurrent("local-verification-pass")
  BY <1>1 DEF RunInv, Owning
<1>4. /\ g \in Gates /\ g.review = gates[cand].review /\ g.pr = gates[cand].pr
      /\ \A j \in Checks : j <= w.i => g.check[j] = w.report[j]
      /\ end => (ChecksPassed(g) <=> passed)
      /\ ChecksPassed(g) =>
           /\ w.report[w.i] = "passed"
           /\ {j \in Checks : gates[cand].check[j] # "passed"} = {w.i}
  BY <1>1, Covering
<1>5. /\ owner \in Owners /\ owner.fix = w.fix
      /\ owner.pc = IF ~end THEN "recording" ELSE IF passed THEN "loop" ELSE "recorded"
      /\ ~end => owner.i = w.i + 1 /\ owner.report = w.report
      /\ end /\ (\E i \in Checks : w.report[i] = "blocked") => owner.to = "BLOCKED_EXTERNAL"
  <2>1. (IF end THEN 1 ELSE w.i + 1) \in Checks
    BY <1>2, Bounds
  <2>2. (IF end THEN NoReport ELSE w.report) \in [Checks -> Verdicts \cup {"none"}]
    BY <1>3 DEF NoReport
  <2>3. "BLOCKED_EXTERNAL" \in RUN_EVENT_PHASES
    BY DEF RUN_EVENT_PHASES, INTERRUPTING_PHASES, Paused
  <2> HIDE DEF end, passed
  <2> QED BY <1>2, <2>1, <2>2, <2>3 DEF Owners
<1>6. with \in Kinds \cup {"none"} /\ (with = "local-verification-pass" <=> passed /\ end)
  BY KindsFit
<1> HIDE DEF g, owner, with
<1>7. /\ phase = "LOCAL_VERIFY" /\ phase \in NormalPhases /\ phase \notin TerminalPhases
      /\ phase \in NormalPhases \ {"ADMITTED", "REPOSITORY_LEASED", "IDENTITY_READY"}
  BY <1>1 DEF NormalPhases, TerminalPhases, DIRECT_STOP_PHASES
<1>8. Accepts("verification.completed", "LOCAL_VERIFY", with, cand, g)
        <=> (ChecksPassed(g) <=> with = "local-verification-pass")
  <2>1. with # "none" <=> with = "local-verification-pass"
    BY DEF with
  <2> QED BY <1>1, <1>2, <2>1, EventsFit, CheckpointsFit
          DEF Accepts, LocalGates, DeliveryGates, CoverageComplete, CheckpointOf, HasLineage,
              TerminalPhases, DIRECT_STOP_PHASES
<1>9. CASE ~Accepts("verification.completed", "LOCAL_VERIFY", with, cand, g)
  <2>1. refused' = TRUE /\ Throw("FAILED") /\ UNCHANGED runVars
    BY <1>1, <1>9 DEF Write
  <2>2. RunInv'
    BY <1>1, <1>7, <2>1, ThrowKeeps DEF DIRECT_STOP_PHASES, envVars
  <2>3. ~end /\ ChecksPassed(g)
    BY <1>4, <1>6, <1>8, <1>9
  <2>4. w.i < NChecks
    BY <1>2, <2>3, Bounds
  <2> QED BY <1>1, <1>4, <2>2, <2>3, <2>4 DEF MidReport
<1>10. CASE Accepts("verification.completed", "LOCAL_VERIFY", with, cand, g)
  <2>0. ChecksPassed(g) <=> end /\ passed
    BY <1>6, <1>8, <1>10
  <2>1. Commits("verification.completed", "LOCAL_VERIFY", with, cand, g, owner) /\ w' = owner
    BY <1>1, <1>10 DEF Write
  <2>2. /\ phase' = phase /\ cand' = cand /\ fixes' = fixes /\ last' = "verification.completed"
        /\ fresh' = (with # "none") /\ Where' = phase
        /\ gates'[cand] = g /\ \A c \in Candidates \ {cand} : gates'[c] = gates[c]
    BY <1>1, <1>2, <2>1 DEF Commits, Where, Paused
  <2>3. IsCurrent("local-verification-pass")' <=> passed /\ end
    <3>1. CASE with = "none"
      BY <1>6, <2>2, <3>1 DEF IsCurrent
    <3>2. CASE with # "none"
      BY <1>1, <1>6, <2>1, <2>2, <3>2 DEF IsCurrent, Commits, Checkpoint, with
    <3> QED BY <3>1, <3>2
  <2>4. Typed' /\ Control' /\ NoRefusal
    <3>1. held' \in [Resources -> {"none", "prior", "current"}] /\ seen' \in [Candidates -> Reports]
          /\ head' \in Candidates \cup {0, Foreign} /\ queued' \in BOOLEAN /\ ~queued'
      BY <1>1, <1>2, TypeFacts DEF RunInv
    <3>2. "LOCAL_VERIFY" \in NormalPhases \ MergePhases
      BY DEF NormalPhases, MergePhases
    <3>3. owner.pc \in {"recording", "recorded", "loop"}
      BY <1>5
    <3> QED BY <1>1, <1>2, <1>4, <1>5, <1>6, <2>1, <3>1, <3>2, <3>3, EventKeeps
  <2>5. Facts'
    <3>1. Numbered'
      BY <1>1, <2>2 DEF RunInv, Facts, Numbered
    <3>2. ASSUME NEW c \in Candidates
          PROVE  /\ c > cand => gates'[c] = NoGates /\ seen[c] = Unseen
                 /\ gates'[c].review = seen[c].review /\ gates'[c].pr = seen[c].pr
                 /\ ChecksPassed(gates'[c]) => ChecksPassed(seen[c])
      <4>1. CASE c = cand
        <5>1. gates[cand].review = seen[cand].review /\ gates[cand].pr = seen[cand].pr
          BY <1>2 DEF RunInv, Facts, Recorded
        <5>2. ChecksPassed(gates'[c]) => ChecksPassed(seen[c])
          BY <1>3, <2>0, <2>2, <4>1 DEF ChecksPassed
        <5> QED BY <1>2, <1>4, <2>2, <4>1, <5>1, <5>2
      <4>2. CASE c # cand
        BY <2>2, <4>2 DEF RunInv, Facts, Recorded
      <4> QED BY <4>1, <4>2
    <3>3. Recorded'
      BY <1>1, <2>2, <3>2 DEF Recorded, ChecksPassed
    <3>4. Verifying'
      <4>1. ChecksPassed(gates[cand])' <=> passed /\ end
        BY <2>0, <2>2 DEF ChecksPassed
      <4>2. cp'.kind = "local-verification-pass" => cp'.phase = "LOCAL_VERIFY"
        BY <2>1 DEF Commits, Checkpoint, RunInv, Facts, Verifying
      <4>3. cand' # 0 /\ Where' # "CANDIDATE_READY"
        BY <1>1, <1>2, <2>2
      <4> HIDE DEF passed, end
      <4> QED BY <2>3, <4>1, <4>2, <4>3 DEF Verifying
    <3>5. Vetted'
      BY <1>1, <2>2 DEF Vetted, Checked, Approved, Delivered
    <3> QED BY <3>1, <3>3, <3>4, <3>5 DEF Facts
  <2>6. Owning'
    <3>1. fixes' <= w'.fix + MaxFixIterations /\ w'.pc \in {"recording", "recorded", "loop"}
      BY <1>1, <1>5, <2>1, <2>2 DEF RunInv, Owning
    <3>2. CASE ~end
      <4>1. w'.pc = "recording" /\ w'.report = w.report /\ w'.i = w.i + 1
        BY <1>5, <2>1, <3>2
      <4>2. ~IsCurrent("local-verification-pass")'
        BY <2>3, <3>2
      <4>3. \A j \in Checks : j < w.i + 1 => g.check[j] = w.report[j]
        BY <1>2, <1>4, Bounds
      <4> QED BY <1>1, <1>3, <2>2, <3>1, <4>1, <4>2, <4>3 DEF Owning
    <3>3. CASE end
      <4>1. \A j \in Checks : g.check[j] = w.report[j]
        BY <1>4, <3>3, Bounds
      <4>2. w'.pc # "recording" /\ (w'.pc = "recorded" => ~passed)
        BY <1>5, <2>1, <3>3
      <4>3. (\E i \in Checks : w.report[i] = "blocked") => w'.to = "BLOCKED_EXTERNAL"
        BY <1>5, <2>1, <3>3
      <4>4. ~passed => \E i \in Checks : w.report[i] \in {"blocked", "failed"}
        BY <1>3 DEF Verdicts
      <4>5. w'.pc = "recorded" =>
              w'.to = "BLOCKED_EXTERNAL" \/ \E i \in Checks : gates'[cand'].check[i] = "failed"
        BY <2>2, <4>1, <4>2, <4>3, <4>4
      <4> QED BY <3>1, <4>2, <4>5 DEF Owning
    <3> QED BY <3>2, <3>3
  <2>7. WorksOnItsOwn'
    <3>1. phase \in NormalPhases \ {"ADMITTED", "REPOSITORY_LEASED", "IDENTITY_READY"}
      BY <1>1 DEF NormalPhases
    <3> QED BY <1>1, <3>1, HoldsOn
  <2> QED BY <2>4, <2>5, <2>6, <2>7 DEF RunInv, NoRefusal
<1> QED BY <1>9, <1>10

-----------------------------------------------------------------------------
(* Stops and approvals. *)

\* A pause notes where the run comes back to (#handleError); it can be resumed
\* in the verification only if it was asked for, or cut short, there.
LEMMA Interrupting ==
  ASSUME RunInv, w.pc = "failing", NEW to \in Paused, NEW stop \in {"stop", "stop with continuation"},
         Interrupted(to, stop), w' = NoOwner, phase # to,
         to = "WAITING_APPROVAL" => w.to = "WAITING_APPROVAL",
         stop = "stop with continuation" => Unsettled,
         ask' \in AskedEffects \cup {"none"},
         UNCHANGED <<approvals, queued, envVars, refused>>
  PROVE  Kept
<1>1. phase \in (NormalPhases \ MergePhases) \cup Paused /\ ~queued /\ cp # NoCheckpoint
  BY DEF RunInv, Control
<1>2. /\ phase' = to /\ last' = stop /\ fresh' = FALSE
      /\ UNCHANGED <<cand, cp, fixes, gates, bundle, held, head, seen, queued>>
  BY DEF Interrupted, envVars
<1>3. /\ resume' = Where /\ Where' = Where /\ Where \in NormalPhases \ MergePhases
      /\ phase \in NormalPhases => Where = phase
  BY <1>1, <1>2, PhaseSets DEF RunInv, Control, Interrupted, Where, NormalPhases
<1>4. w' \in Owners /\ w'.pc = "none"
  BY BlanksTyped
<1>5. Typed'
  <2>1. phase' \in RUN_EVENT_PHASES \ MergePhases /\ resume' \in NormalPhases \cup {"none"}
    BY <1>2, <1>3, PhaseSets
  <2> QED BY <1>2, <1>4, <2>1 DEF RunInv, Typed, TypeOK, Owners
<1>6. Control'
  BY <1>1, <1>2, <1>3, <1>4, PhaseSets DEF Control
<1>7. Facts'
  <2>1. Numbered' /\ Recorded' /\ Vetted'
    BY <1>2, <1>3 DEF RunInv, Facts, Numbered, Recorded, Vetted, ChecksPassed
  <2>2. Verifying'
    <3>1. ~IsCurrent("local-verification-pass")'
      BY <1>2 DEF IsCurrent
    <3>2. ASSUME Where = "LOCAL_VERIFY", to = "WAITING_APPROVAL" \/ Unsettled
          PROVE  ~ChecksPassed(gates[cand])
      <4>1. phase = "LOCAL_VERIFY"
        BY <1>3, <3>2 DEF RunInv, Control, Unsettled, DIRECT_STOP_PHASES
      <4>2. ~IsCurrent("local-verification-pass")
        BY <3>2, <4>1 DEF RunInv, Owning, Unsettled, Alone
      <4> QED BY <4>1, <4>2 DEF RunInv, Facts, Verifying, MayResumeFrom
    <3>3. MayResumeFrom("LOCAL_VERIFY")' =>
            Where = "LOCAL_VERIFY" /\ (to = "WAITING_APPROVAL" \/ Unsettled)
      BY <1>2, <1>3 DEF MayResumeFrom, HasContinuation, Paused
    <3>4. /\ cp.kind = "local-verification-pass" => cp.phase = "LOCAL_VERIFY"
          /\ Where = "CANDIDATE_READY" => \A i \in Checks : gates[cand].check[i] = "none"
      BY DEF RunInv, Facts, Verifying
    <3>5. ChecksPassed(gates[cand])' <=> ChecksPassed(gates[cand])
      BY <1>2 DEF ChecksPassed
    <3> QED BY <1>2, <1>3, <3>1, <3>2, <3>3, <3>4, <3>5 DEF Verifying
  <2> QED BY <2>1, <2>2 DEF Facts
<1>8. Owning' /\ NoRefusal /\ WorksOnItsOwn'
  BY <1>4 DEF Owning, NoRefusal, WorksOnItsOwn
<1> QED BY <1>5, <1>6, <1>7, <1>8 DEF RunInv, Kept

\* The two ways a stop becomes a pause.
LEMMA Pausing == RunInv /\ (Pause \/ CleanupUnproved) => Kept
<1>1. RunInv /\ Pause => Kept
  BY Interrupting DEF Pause, Quiet
<1>2. ASSUME RunInv, CleanupUnproved PROVE Kept
  <2>1. PICK stop \in {"stop"} \cup (IF Unsettled THEN {"stop with continuation"} ELSE {}) :
          Interrupted("BLOCKED_EXTERNAL", stop)
    BY <1>2 DEF CleanupUnproved
  <2>2. stop \in {"stop", "stop with continuation"} /\ (stop = "stop with continuation" => Unsettled)
    OBVIOUS
  <2> QED BY <1>2, <2>1, <2>2, Interrupting DEF CleanupUnproved, Paused
<1> QED BY <1>1, <1>2

\* A terminal stop lets go of everything (#performTerminalCleanup).
LEMMA Ending == RunInv /\ Stop => Kept
<1> SUFFICES ASSUME RunInv, Stop PROVE Kept
  OBVIOUS
<1>1. /\ w.pc = "failing" /\ w.to \in DIRECT_STOP_PHASES
      /\ phase' = w.to /\ last' = "stop" /\ fresh' = TRUE
      /\ cp' = Checkpoint("lease-release-workspace-cleanup", w.to, cand, w)
      /\ w' = NoOwner /\ ask' = "none" /\ held' = [r \in Resources |-> "none"]
      /\ UNCHANGED <<resume, cand, fixes, gates, bundle, head, seen, refused, approvals, queued>>
  BY DEF Stop, Released, Quiet, TerminalPhases
<1>2. ~queued
  BY <1>1 DEF RunInv, Control
<1>3. w' \in Owners /\ w'.pc = "none"
  BY <1>1, BlanksTyped
<1>4. /\ phase' \in RUN_EVENT_PHASES \ MergePhases /\ phase' \in TerminalPhases
      /\ phase' \notin Paused /\ phase' \notin NormalPhases /\ Where' = phase'
      /\ phase' \notin Early \cup Numbers \cup {"FIXING", "LOCAL_VERIFY", "CANDIDATE_READY"}
      /\ phase' # "WAITING_APPROVAL"
  BY <1>1 DEF TerminalPhases, DIRECT_STOP_PHASES, RUN_EVENT_PHASES, MergePhases, Paused,
              NormalPhases, Where, Early, Numbers, Checked, Approved, Delivered
<1>5. /\ cp' \in [kind : Kinds \cup {"none"}, phase : RUN_EVENT_PHASES,
                 cand : Candidates \cup {0}, session : BOOLEAN]
      /\ cp'.kind = "lease-release-workspace-cleanup"
  <2>1. w \in Owners /\ cand \in Candidates \cup {0}
    BY TypeFacts DEF RunInv
  <2>2. w.to \in RUN_EVENT_PHASES /\ "lease-release-workspace-cleanup" \in Kinds
    BY <1>1, KindsFit DEF RUN_EVENT_PHASES, TerminalPhases
  <2> QED BY <1>1, <2>1, <2>2, CheckpointTyped
<1>6. Typed'
  BY <1>1, <1>2, <1>3, <1>4, <1>5 DEF RunInv, Typed, TypeOK, Owners
<1>7. Control'
  BY <1>1, <1>2, <1>3, <1>4, <1>5 DEF Control, NoCheckpoint
<1>8. Facts'
  <2>1. Numbered' /\ Vetted'
    BY <1>1, <1>4 DEF Numbered, Vetted, Numbers, Checked, Approved, Delivered
  <2>2. Recorded'
    BY <1>1 DEF RunInv, Facts, Recorded
  <2>3. Verifying'
    BY <1>1, <1>4, <1>5 DEF Verifying, IsCurrent, MayResumeFrom, HasContinuation, Paused
  <2> QED BY <2>1, <2>2, <2>3 DEF Facts
<1>9. Owning' /\ NoRefusal /\ WorksOnItsOwn'
  BY <1>1, <1>3 DEF RunInv, Owning, NoRefusal, WorksOnItsOwn
<1> QED BY <1>6, <1>7, <1>8, <1>9 DEF RunInv, Kept

\* A paused run goes back to the phase it was in, for whoever claims it next.
LEMMA Resuming ==
  ASSUME RunInv, phase = "WAITING_APPROVAL" \/ HasContinuation,
         phase' = resume, resume' = "none", fresh' = FALSE, last' = "run.resumed",
         w' = NoOwner, queued' = TRUE, ask' \in AskedEffects \cup {"none"},
         approvals' \subseteq Envelopes,
         UNCHANGED <<cand, cp, fixes, gates, bundle, envVars, refused>>
  PROVE  Kept
<1>1. phase \in Paused /\ resume \in NormalPhases \ MergePhases /\ Where = resume
      /\ cp # NoCheckpoint
  BY DEF RunInv, Control, Where, HasContinuation, Paused
<1>2. phase' \in NormalPhases \ MergePhases /\ phase' \notin Paused /\ Where' = resume
      /\ phase' \in RUN_EVENT_PHASES
  BY <1>1, PhaseSets DEF Where
<1>3. w' \in Owners /\ w'.pc = "none"
  BY BlanksTyped
<1>4. Typed'
  <2>1. phase' \in RUN_EVENT_PHASES \ MergePhases /\ resume' \in NormalPhases \cup {"none"}
        /\ fresh' \in BOOLEAN /\ queued' \in BOOLEAN
    BY <1>2
  <2> QED BY <1>3, <2>1 DEF RunInv, Typed, TypeOK, Owners, envVars
<1>5. Control'
  BY <1>1, <1>2, <1>3 DEF Control
<1>6. Facts'
  <2>1. Numbered' /\ Recorded' /\ Vetted'
    BY <1>1, <1>2 DEF RunInv, Facts, Numbered, Recorded, Vetted, ChecksPassed, envVars
  <2>2. Verifying'
    <3>1. ~IsCurrent("local-verification-pass")'
      BY DEF IsCurrent
    <3>2. ~IsCurrent("local-verification-pass")
      BY <1>1 DEF RunInv, Facts, Verifying, IsCurrent, Paused
    <3>3. resume = "LOCAL_VERIFY" => ~ChecksPassed(gates[cand])
      BY <3>2 DEF RunInv, Facts, Verifying, MayResumeFrom
    <3>4. /\ cp.kind = "local-verification-pass" => cp.phase = "LOCAL_VERIFY"
          /\ resume = "CANDIDATE_READY" => \A i \in Checks : gates[cand].check[i] = "none"
      BY <1>1 DEF RunInv, Facts, Verifying
    <3>5. MayResumeFrom("LOCAL_VERIFY")' => resume = "LOCAL_VERIFY"
      BY <1>2 DEF MayResumeFrom
    <3>6. ChecksPassed(gates[cand])' <=> ChecksPassed(gates[cand])
      BY DEF ChecksPassed
    <3> QED BY <1>2, <3>1, <3>3, <3>4, <3>5, <3>6 DEF Verifying
  <2> QED BY <2>1, <2>2 DEF Facts
<1>7. Owning' /\ NoRefusal /\ WorksOnItsOwn'
  BY <1>3 DEF Owning, NoRefusal, WorksOnItsOwn
<1> QED BY <1>4, <1>5, <1>6, <1>7 DEF RunInv, Kept

\* The approval of what was asked for is one way (recordAsfApproval),
LEMMA Approving == RunInv /\ Approve => Kept
<1> SUFFICES ASSUME RunInv, NEW e \in Envelopes, RecordApproval(e) PROVE Kept
  BY DEF Approve
<1>1. phase = "WAITING_APPROVAL" /\ UNCHANGED <<envVars, refused>> /\ approvals' \subseteq Envelopes
  BY DEF RecordApproval, RunInv, Typed, TypeOK
<1>2. CASE Resumes(e)
  BY <1>1, <1>2, Resuming DEF RecordApproval
<1>3. CASE ~Resumes(e)
  <2>1. UNCHANGED <<runVars, w, queued>>
    BY <1>3 DEF RecordApproval
  <2>2. Typed'
    BY <1>1, <2>1 DEF RunInv, Typed, TypeOK, runVars, envVars
  <2>3. Facts'
    BY <1>1, <2>1, FactsKept DEF RunInv, runVars, envVars
  <2>4. Control' /\ Owning' /\ NoRefusal /\ WorksOnItsOwn'
    BY <1>1, <2>1
       DEF RunInv, Control, Owning, NoRefusal, WorksOnItsOwn, runVars, envVars, IsCurrent
  <2> QED BY <2>2, <2>3, <2>4 DEF RunInv, Kept
<1> QED BY <1>2, <1>3

\* the reconciliation of what was left unsettled the other
\* (#resumeResolvedAsfReconciliation).
LEMMA Reconciling == RunInv /\ Reconcile => Kept
<1> SUFFICES ASSUME RunInv, Reconcile PROVE Kept
  OBVIOUS
<1>1. ask' \in AskedEffects \cup {"none"} /\ approvals' \subseteq Envelopes
  BY DEF Reconcile, RunInv, Typed, TypeOK
<1> QED BY <1>1, Resuming DEF Reconcile, envVars

-----------------------------------------------------------------------------
(* The theorems. *)

\* Every step of the run, its owner and its surroundings keeps the invariant, and
\* is refused in the middle of a report only.
LEMMA NextRunInv ==
  RunInv /\ [Next]_vars => RunInv' /\ (~refused /\ refused' => MidReport)
<1> SUFFICES ASSUME RunInv, [Next]_vars
             PROVE  RunInv' /\ (~refused /\ refused' => MidReport)
  OBVIOUS
<1> USE DEF Kept, NoRefusal
<1>1. CASE Claim
  BY <1>1, Claiming
<1>2. CASE Observe \/ Fence \/ Acknowledge \/ Dispatch \/ Leave
  BY <1>2, Observing, Fencing, Acknowledging, Dispatching, Leaving
<1>3. CASE RepositoryLease \/ Identities \/ Workspace \/ TaskPacket \/ StartImplementation
             \/ Candidate
  BY <1>3, Preparing, Starting, Creating
<1>4. CASE LocalVerification \/ Verify \/ RecordCheck \/ AfterVerification
  BY <1>4, Passing, Checking, Reporting, Failing
<1>5. CASE LocalReview \/ CompleteLocalReview \/ ReviewBlocked \/ AfterLocalReview
  BY <1>5, Passing, Reviewing, Blocking, Judging
<1>6. CASE Push \/ PullRequest \/ StartCi \/ AfterCi \/ LeaveCi
  BY <1>6, Delivering, Passing, DecidingCi, LeavingCi
<1>7. CASE CompletePullRequestReview \/ PullRequestReviewRejected \/ Deliver
  BY <1>7, PrReviewing, Rejecting, Delivering
<1>8. CASE RecordBundle \/ Evidence \/ Complete
  BY <1>8, Bundling, Passing, Completing
<1>9. CASE Pause \/ Stop
  BY <1>9, Pausing, Ending
<1>10. CASE Observes
  BY <1>10, WatchingCi, Revalidating DEF Observes
<1>11. CASE Others
  BY <1>11, Crashing, Refusing, Stopping, Pausing, Approving, Reconciling,
           Pushing DEF Others
<1>12. CASE UNCHANGED vars
  <2>1. UNCHANGED <<runVars, approvals, queued, w, envVars, refused, faults>>
    BY <1>12 DEF vars
  <2>2. Typed'
    BY <2>1 DEF RunInv, Typed, TypeOK, runVars, envVars
  <2>3. Facts'
    BY <2>1, FactsKept DEF RunInv, runVars, envVars
  <2>4. Control' /\ Owning' /\ WorksOnItsOwn'
    BY <2>1 DEF RunInv, Control, Owning, WorksOnItsOwn, runVars, envVars, IsCurrent
  <2> QED BY <2>1, <2>2, <2>3, <2>4 DEF RunInv
<1> QED
  BY <1>1, <1>2, <1>3, <1>4, <1>5, <1>6, <1>7, <1>8, <1>9, <1>10, <1>11, <1>12 DEF Next, Works

\* An admitted run that nobody has claimed.
LEMMA InitRunInv == Init => RunInv
<1> SUFFICES ASSUME Init PROVE RunInv
  OBVIOUS
<1>1. /\ phase = "ADMITTED" /\ Where = "ADMITTED" /\ cand = 0 /\ fixes = 0 /\ w.pc = "none"
      /\ cp = NoCheckpoint /\ resume = "none" /\ last = "work_order.admitted"
      /\ phase \notin Paused /\ phase \in NormalPhases \ MergePhases
  BY BlanksTyped DEF Init, Where, Paused, NormalPhases, MergePhases
<1>2. Typed
  <2>1. cp \in [kind : Kinds \cup {"none"}, phase : RUN_EVENT_PHASES,
                cand : Candidates \cup {0}, session : BOOLEAN]
    BY <1>1, PhaseSets DEF NoCheckpoint
  <2>2. gates \in [Candidates -> Gates] /\ seen \in [Candidates -> Reports] /\ w \in Owners
    BY BlanksTyped DEF Init
  <2>3. fixes \in 0 .. 2 * MaxFixIterations
    BY <1>1, Bounds
  <2>4. phase \in RUN_EVENT_PHASES \ MergePhases
    BY <1>1, PhaseSets
  <2> QED BY <1>1, <2>1, <2>2, <2>3, <2>4 DEF Init, Typed, TypeOK, Owners, Gates
<1>3. Control
  BY <1>1 DEF Control
<1>4. Facts
  <2>1. Numbered /\ Vetted
    BY <1>1 DEF Numbered, Vetted, Early, Numbers, Checked, Approved, Delivered
  <2>2. Recorded
    BY Bounds DEF Init, Recorded, NoGates, Unseen, NoReport, ChecksPassed
  <2>3. Verifying
    BY <1>1 DEF Verifying, IsCurrent, NoCheckpoint, MayResumeFrom, HasContinuation
  <2> QED BY <2>1, <2>2, <2>3 DEF Facts
<1>5. Owning /\ WorksOnItsOwn
  BY <1>1 DEF Init, Owning, WorksOnItsOwn
<1> QED BY <1>2, <1>3, <1>4, <1>5 DEF RunInv

\* The inductive invariant holds: phases, gates and checkpoints, as the runner
\* writes them (ProductionAsfDeliveryRunner) and the store accepts them
\* (transitionAsfRun), say the same about the candidate.
THEOREM RunInvariant == Spec => []RunInv
  BY InitRunInv, NextRunInv, PTL DEF Spec

\* A row of the run and its owner stay within the types the source gives them.
THEOREM TypeCorrect == Spec => []TypeOK
<1>1. RunInv => TypeOK
  BY DEF RunInv, Typed
<1> QED BY <1>1, RunInvariant, PTL

\* What #afterPullRequestReview delivers has passed every check, both reviews
\* approved it, and CI passed after the last approval: whatever the sizes of
\* checks, contexts, budget and listings, and however often the run crashed, was
\* paused or taken over.
THEOREM DeliveredIsVettedHolds == Spec => []DeliveredIsVetted
<1>1. ASSUME RunInv, phase \in {"PR_DELIVERED", "EVIDENCE_FINALIZED", "COMPLETED"}
      PROVE  /\ ChecksPassed(seen[cand]) /\ seen[cand].review = "approved"
             /\ seen[cand].pr = "approved" /\ seen[cand].ci
  <2>1. Where = phase /\ phase \in Delivered /\ phase \in Checked /\ phase \in Approved
        /\ phase \in Numbers
    BY <1>1 DEF Where, Paused, Delivered, Checked, Approved, Numbers
  <2>2. cand \in Candidates
    BY <1>1, <2>1, CandidateOf
  <2>3. ChecksPassed(gates[cand]) /\ gates[cand].review = "approved"
        /\ gates[cand].pr = "approved" /\ seen[cand].ci
    BY <1>1, <2>1 DEF RunInv, Facts, Vetted
  <2>4. /\ gates[cand].review = seen[cand].review /\ gates[cand].pr = seen[cand].pr
        /\ ChecksPassed(gates[cand]) => ChecksPassed(seen[cand])
    BY <1>1, <2>2 DEF RunInv, Facts, Recorded
  <2> QED BY <2>3, <2>4
<1>2. RunInv => DeliveredIsVetted
  BY <1>1 DEF DeliveredIsVetted
<1> QED BY <1>2, RunInvariant, PTL

\* transitionAsfRun accepts every event the runner writes, after any recovery,
\* pause or crash, but for one: neither a gate, nor a phase, nor a checkpoint is
\* missing, unless a check passes in the middle of a report that an earlier report
\* of the candidate had as its only failure.
THEOREM RefusesOnlyMidReportHolds == Spec => RefusesOnlyMidReport
<1>1. RunInv /\ [Next]_vars => [~refused /\ refused' => MidReport]_vars
  BY NextRunInv
<1>2. Spec => [][~refused /\ refused' => MidReport]_vars
  BY <1>1, RunInvariant, PTL DEF Spec
<1> QED BY <1>2 DEF RefusesOnlyMidReport

\* The runner works with leases of its own generation (#recoveryPrerequisites).
THEOREM WorksOnItsOwnHolds == Spec => []WorksOnItsOwn
<1>1. RunInv => WorksOnItsOwn
  BY DEF RunInv
<1> QED BY <1>1, RunInvariant, PTL

\* Of a paused run an owner takes hold at most: it goes on when it is resumed.
LEMMA PausedIsLeftAlone ==
  ASSUME RunInv, phase \in Paused, Next
  PROVE  Approve \/ Reconcile \/ phase' \notin NormalPhases
<1>1. phase \notin NormalPhases /\ w.pc \in {"none", "claimed", "authorized", "dispatch", "loop", "failing"}
  BY PhaseSets DEF RunInv, Control, Paused, NormalPhases, MergePhases
<1>2. Claim \/ Observe \/ Fence \/ Acknowledge \/ Dispatch \/ Leave => phase' = phase
  BY DEF Claim, Observe, Fence, Acknowledge, Dispatch, Leave, runVars
<1>3. /\ ~RepositoryLease /\ ~Identities /\ ~Workspace /\ ~TaskPacket /\ ~StartImplementation
      /\ ~Candidate /\ ~LocalVerification /\ ~Verify /\ ~RecordCheck /\ ~AfterVerification
  BY <1>1 DEF RepositoryLease, Identities, Workspace, TaskPacket, StartImplementation, Candidate,
              LocalVerification, Verify, RecordCheck, AfterVerification, Stage, At, NormalPhases
<1>4. /\ ~LocalReview /\ ~CompleteLocalReview /\ ~ReviewBlocked /\ ~AfterLocalReview
      /\ ~Push /\ ~PullRequest /\ ~StartCi /\ ~AfterCi /\ ~LeaveCi
  BY <1>1 DEF LocalReview, CompleteLocalReview, ReviewBlocked, AfterLocalReview, Push, PullRequest,
              StartCi, AfterCi, LeaveCi, Stage, At, NormalPhases
<1>5. /\ ~CompletePullRequestReview /\ ~PullRequestReviewRejected /\ ~Deliver /\ ~RecordBundle
      /\ ~Evidence /\ ~Complete /\ ~Observes
  BY <1>1 DEF CompletePullRequestReview, PullRequestReviewRejected, Deliver, RecordBundle, Evidence,
              Complete, Observes, CompleteCi, Revalidate, Reviewed, Stage, At, NormalPhases
<1>6. Pause \/ Stop \/ CleanupUnproved => phase' \in Paused \cup DIRECT_STOP_PHASES
  BY DEF Pause, Stop, CleanupUnproved, Interrupted, Paused
<1>7. Crash \/ RecoveryRefused \/ StopThrown \/ ForeignPush \/ UNCHANGED vars => phase' = phase
  BY DEF Crash, RecoveryRefused, StopThrown, ForeignPush, vars, runVars
<1>8. NormalPhases \cap (Paused \cup DIRECT_STOP_PHASES) = {}
  BY DEF NormalPhases, MergePhases, Paused, DIRECT_STOP_PHASES
<1> QED BY <1>1, <1>2, <1>3, <1>4, <1>5, <1>6, <1>7, <1>8 DEF Next, Works, Others

\* A paused run goes on only with an approval of what it asked for, about the
\* candidate it has, of a trusted signer, on record (recordAsfApproval), or when
\* what its stopped owner left unsettled was reconciled, in the phase that was
\* interrupted (#resumeResolvedAsfReconciliation), however often it was claimed
\* again.
THEOREM ResumesWithAuthorityHolds == Spec => ResumesWithAuthority
<1> DEFINE A == (phase \in Paused /\ phase' \in NormalPhases) =>
                  \/ [approved |-> TRUE, effect |-> ask, cand |-> cand, signer |-> "trusted"]
                       \in approvals'
                  \/ phase = "BLOCKED_EXTERNAL" /\ last = "stop with continuation" /\ phase' = resume
<1>1. ASSUME RunInv, phase \in Paused, phase' \in NormalPhases, Approve
      PROVE  [approved |-> TRUE, effect |-> ask, cand |-> cand, signer |-> "trusted"]
               \in approvals'
  <2>1. phase' # phase
    BY <1>1 DEF Paused, NormalPhases, MergePhases
  <2>2. PICK e \in Envelopes : RecordApproval(e)
    BY <1>1 DEF Approve
  <2>3. Resumes(e)
    BY <2>1, <2>2 DEF RecordApproval, runVars
  <2>4. e.approved = TRUE /\ e.effect = ask /\ e.cand = cand /\ e.signer = "trusted"
    BY <2>2, <2>3 DEF RecordApproval, Resumes, ValidApproval, Envelopes
  <2>5. e = [approved |-> e.approved, effect |-> e.effect, cand |-> e.cand, signer |-> e.signer]
    BY DEF Envelopes
  <2>6. e \in approvals'
    BY <2>2 DEF RecordApproval
  <2> QED BY <2>4, <2>5, <2>6
<1>2. RunInv /\ [Next]_vars => [A]_vars
  <2>1. Reconcile => phase = "BLOCKED_EXTERNAL" /\ last = "stop with continuation" /\ phase' = resume
    BY DEF Reconcile, HasContinuation
  <2> QED BY <1>1, <2>1, PausedIsLeftAlone
<1> HIDE DEF A
<1>3. Spec => [][A]_vars
  BY <1>2, RunInvariant, PTL DEF Spec
<1> QED BY <1>3 DEF ResumesWithAuthority, A
====
