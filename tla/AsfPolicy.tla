------------------------------ MODULE AsfPolicy ------------------------------
(***************************************************************************)
(* The tables and pure decisions of the ASF run life cycle: the phases and *)
(* events (src/src/asf/run-event.ts), the recovery policy of every         *)
(* checkpoint kind and the recovery decision                               *)
(* (src/src/asf/checkpoint-policy.ts).  The merge phases exist in the      *)
(* tables; the pull-request runner never enters them.  RECEIVED, where no  *)
(* admitted run ever is, is left out.                                      *)
(***************************************************************************)
EXTENDS Naturals, FiniteSets, Sequences

MergePhases == {"MERGE_QUEUE_WAIT", "MERGE_READY", "MERGED"}
NormalPhases == {"ADMITTED", "REPOSITORY_LEASED", "IDENTITY_READY", "WORKSPACE_READY",
  "TASK_PACKET_READY", "IMPLEMENTING", "CANDIDATE_READY", "LOCAL_VERIFY", "LOCAL_REVIEW",
  "FIXING", "DELIVERY_READY", "PUSHED", "PR_OPEN", "CI_WAIT", "PR_REVIEW", "PR_DELIVERED",
  "EVIDENCE_FINALIZED"} \cup MergePhases
Paused == {"WAITING_APPROVAL", "NEEDS_SPEC", "BLOCKED_EXTERNAL"}
DIRECT_STOP_PHASES == {"BUDGET_EXHAUSTED", "REFUSED", "QUARANTINED", "FAILED"}
INTERRUPTING_PHASES == Paused \cup {"CANCEL_REQUESTED"}
TerminalPhases == DIRECT_STOP_PHASES \cup {"COMPLETED", "CANCELLED"}
RUN_EVENT_PHASES == NormalPhases \cup INTERRUPTING_PHASES \cup {"CANCELLING"} \cup TerminalPhases
CHECKPOINT_SELF_TRANSITIONS == {"IMPLEMENTING", "LOCAL_VERIFY", "LOCAL_REVIEW", "FIXING",
                                "CI_WAIT", "PR_REVIEW", "CANCELLING", "CANCEL_REQUESTED"}

NORMAL_PHASE_SUCCESSORS == {
  <<"ADMITTED", "REPOSITORY_LEASED">>, <<"REPOSITORY_LEASED", "IDENTITY_READY">>,
  <<"IDENTITY_READY", "WORKSPACE_READY">>, <<"WORKSPACE_READY", "TASK_PACKET_READY">>,
  <<"TASK_PACKET_READY", "IMPLEMENTING">>, <<"IMPLEMENTING", "CANDIDATE_READY">>,
  <<"CANDIDATE_READY", "LOCAL_VERIFY">>, <<"LOCAL_VERIFY", "LOCAL_REVIEW">>,
  <<"LOCAL_VERIFY", "FIXING">>, <<"LOCAL_REVIEW", "FIXING">>,
  <<"LOCAL_REVIEW", "DELIVERY_READY">>, <<"FIXING", "CANDIDATE_READY">>,
  <<"DELIVERY_READY", "PUSHED">>, <<"PUSHED", "PR_OPEN">>, <<"PR_OPEN", "CI_WAIT">>,
  <<"CI_WAIT", "PR_REVIEW">>, <<"CI_WAIT", "FIXING">>, <<"PR_REVIEW", "FIXING">>,
  <<"PR_REVIEW", "CI_WAIT">>, <<"PR_REVIEW", "PR_DELIVERED">>,
  <<"PR_DELIVERED", "MERGE_QUEUE_WAIT">>, <<"PR_DELIVERED", "EVIDENCE_FINALIZED">>,
  <<"MERGE_QUEUE_WAIT", "MERGE_READY">>, <<"MERGE_READY", "MERGED">>,
  <<"MERGED", "EVIDENCE_FINALIZED">>, <<"EVIDENCE_FINALIZED", "COMPLETED">>,
  <<"CANCEL_REQUESTED", "CANCELLING">>, <<"CANCELLING", "CANCELLED">>}

\* The source phases of the events the runner writes; an event without an
\* entry has no rule of its own.
RUN_EVENT_FROM_PHASES == {
  <<"repository.lease_acquired", {"ADMITTED"}>>,
  <<"identity.leases_acquired", {"REPOSITORY_LEASED"}>>,
  <<"workspace.prepared", {"IDENTITY_READY"}>>,
  <<"task_packet.created", {"WORKSPACE_READY"}>>,
  <<"implementation.started", {"TASK_PACKET_READY", "IMPLEMENTING"}>>,
  <<"candidate.created", {"IMPLEMENTING", "FIXING"}>>,
  <<"verification.started", {"CANDIDATE_READY"}>>,
  <<"verification.completed", {"LOCAL_VERIFY"}>>,
  <<"review.started", {"LOCAL_VERIFY"}>>,
  <<"review.completed", {"LOCAL_REVIEW"}>>,
  <<"fixing.started", {"LOCAL_VERIFY", "LOCAL_REVIEW", "CI_WAIT", "PR_REVIEW"}>>,
  <<"delivery.ready", {"LOCAL_REVIEW"}>>,
  <<"branch.pushed", {"DELIVERY_READY"}>>,
  <<"pull_request.opened", {"PUSHED"}>>,
  <<"ci.waiting", {"PR_OPEN"}>>,
  <<"ci.completed", {"CI_WAIT"}>>,
  <<"ci.recheck_completed", {"PR_REVIEW"}>>,
  <<"pr_review.started", {"CI_WAIT"}>>,
  <<"pr_review.completed", {"PR_REVIEW"}>>,
  <<"ci.revalidated", {"PR_REVIEW"}>>,
  <<"pull_request.delivered", {"PR_REVIEW"}>>,
  <<"evidence.finalized", {"PR_DELIVERED", "MERGED"}>>,
  <<"run.completed", {"EVIDENCE_FINALIZED"}>>,
  <<"run.resumed", Paused>>,
  <<"cancellation.requested", NormalPhases \cup Paused>>,
  <<"cancellation.started", {"CANCEL_REQUESTED"}>>,
  <<"run.cancelled", {"CANCELLING"}>>}

\* assertRunPhaseTransition.
PhaseStep(from, to) ==
  /\ from \notin TerminalPhases
  /\ \/ <<from, to>> \in NORMAL_PHASE_SUCCESSORS
     \/ from = to /\ from \in CHECKPOINT_SELF_TRANSITIONS
     \/ to \in INTERRUPTING_PHASES \ {from}
     \/ to \in DIRECT_STOP_PHASES
     \/ from \in Paused /\ to \in NormalPhases

\* assertRunEventTransition.
EventStep(type, from, to) ==
  /\ PhaseStep(from, to)
  /\ \A rule \in RUN_EVENT_FROM_PHASES : rule[1] = type => from \in rule[2]

-----------------------------------------------------------------------------
(* The checkpoints. *)

CandidateEvidence == {"local-verification", "local-review", "push-equivalence",
  "pull-request-identity", "ci", "pr-review", "approval", "merge-queue", "merge-readiness",
  "merge-provenance", "evidence-bundle", "asf-acknowledgement"}
DeliveryEvidence == {"ci", "pr-review", "approval", "merge-readiness", "evidence-bundle",
                     "asf-acknowledgement"}

\* phases: where the checkpoint may be written; replay: its replay policy;
\* observe: what must be reconciled first; drop: the evidence a replay
\* invalidates; cand: candidate binding; roles: who may recover from it.
Row(kind, phases, replay, observe, drop, cand, roles) ==
  [kind |-> kind, phases |-> phases, replay |-> replay, observe |-> observe, drop |-> drop,
   cand |-> cand, roles |-> roles \cup {"orchestrator"}]

PreparationPolicies == {
  Row("work-order-admission", {"ADMITTED"}, "replayable", {}, {}, "none", {}),
  Row("repository-lease-acquisition", {"REPOSITORY_LEASED"}, "replayable", {},
      {"repository-lease"}, "none", {}),
  Row("identity-lease-acquisition", {"IDENTITY_READY"}, "reconcile-first",
      {"identity-lease-state"}, {"identity-lease", "implementer-session"}, "none", {}),
  Row("workspace-sandbox-proof", {"WORKSPACE_READY"}, "replayable", {}, {"sandbox-proof"},
      "none", {}),
  Row("task-packet-creation", {"TASK_PACKET_READY"}, "replayable", {}, {"task-packet"},
      "none", {})}

CandidatePolicies == {
  Row("implementer-session-marker", {"IMPLEMENTING"}, "reconcile-first",
      {"provider-session-state", "identity-lease-state"}, {"implementer-session"}, "none",
      {"implementer"}),
  Row("candidate-commit-creation", {"CANDIDATE_READY"}, "replayable", {}, CandidateEvidence,
      "required", {"implementer"}),
  Row("local-verification-pass", {"LOCAL_VERIFY"}, "replayable", {},
      DeliveryEvidence \cup {"local-verification", "local-review", "push-equivalence"},
      "required", {"implementer"}),
  Row("local-review-fixer-iteration", {"LOCAL_REVIEW", "FIXING", "CANDIDATE_READY"},
      "fresh-context", {}, CandidateEvidence, "required", {"implementer", "local-reviewer"})}

DeliveryPolicies == {
  Row("branch-push-intent-observation", {"PUSHED"}, "reconcile-first", {"github-branch-state"},
      DeliveryEvidence \cup {"push-equivalence", "pull-request-identity"}, "required", {}),
  Row("pull-request-intent-observation", {"PR_OPEN"}, "reconcile-first",
      {"github-pull-request-state"}, DeliveryEvidence \cup {"pull-request-identity"},
      "required", {}),
  Row("ci-reconciliation-snapshot", {"CI_WAIT"}, "reconcile-first", {"github-ci-state"},
      DeliveryEvidence, "required", {"implementer"}),
  Row("pr-review-fixer-iteration", {"PR_REVIEW", "PR_DELIVERED", "FIXING", "CANDIDATE_READY"},
      "reconcile-first", {"github-pull-request-state", "github-ci-state"}, CandidateEvidence,
      "required", {"implementer", "pr-reviewer"})}

ClosurePolicies == {
  Row("merge-queue-candidate-state", {"MERGE_QUEUE_WAIT", "MERGE_READY"}, "reconcile-first",
      {"github-merge-queue-state"},
      (DeliveryEvidence \ {"ci", "pr-review"}) \cup {"merge-queue", "merge-provenance"},
      "required", {"implementer"}),
  Row("merge-intent-observation", {"MERGED"}, "reconcile-first", {"github-merge-state"},
      {"merge-readiness", "merge-provenance", "evidence-bundle", "asf-acknowledgement"},
      "required", {}),
  Row("evidence-finalization-acknowledgement", {"EVIDENCE_FINALIZED", "COMPLETED"},
      "reconcile-first", {"asf-acknowledgement-state"},
      {"evidence-bundle", "asf-acknowledgement"}, "required", {}),
  Row("lease-release-workspace-cleanup", TerminalPhases, "reconcile-first",
      {"identity-lease-state", "repository-lease-state"}, {"cleanup"}, "optional", {})}

Policies == PreparationPolicies \cup CandidatePolicies \cup DeliveryPolicies \cup ClosurePolicies
Kinds == {row.kind : row \in Policies}
PolicyOf(kind) == CHOOSE row \in Policies : row.kind = kind

\* semanticCheckpointValidation: the candidate is 0 before there is one.
CheckpointFits(kind, phase, cand) ==
  /\ phase \in PolicyOf(kind).phases
  /\ PolicyOf(kind).cand = "required" => cand # 0
  /\ PolicyOf(kind).cand = "none" => cand = 0

\* implementerSessionResume: a protected provider session is kept with these
\* checkpoints only.
KeepsSession(kind) ==
  \/ \E row \in CandidatePolicies \cup DeliveryPolicies : row.kind = kind
  \/ kind = "merge-queue-candidate-state"

-----------------------------------------------------------------------------
(* The recovery decision. *)

Replays == {"replay-stage", "restart-implementer-fresh", "resume-implementer",
            "restart-reviewer-fresh"}
RecoveryActions == Replays \cup {"continue-from-checkpoint", "continue-after-reconciliation"}
Reviewers == {"local-reviewer", "pr-reviewer"}

\* A directive of the recovery authority: who recovers, resuming or fresh,
\* and whether the stage is to be done again.
Directives == [role : {"orchestrator", "implementer"} \cup Reviewers,
               resume : BOOLEAN, replay : BOOLEAN]

\* authorizeProtectedImplementerResume, where "facts" says that provider,
\* lease, lineage and policy are observed fresh, permitting and exactly bound.
MayResume(kind, session, facts) == KeepsSession(kind) /\ session /\ facts

\* What an actor that does the stage again does.
Replay(policy, d, absent, proven) ==
  IF d.role \in Reviewers THEN "restart-reviewer-fresh"
  ELSE IF d.role = "implementer"
  THEN IF ~d.resume THEN "restart-implementer-fresh"
       ELSE IF absent \cap {"provider-session-state", "identity-lease-state"} # {} \/ ~proven
       THEN "refused" ELSE "resume-implementer"
  ELSE IF policy.replay = "not-replayable" THEN "refused"
  ELSE IF absent = {} /\ policy.observe # {} THEN "continue-after-reconciliation"
  ELSE "replay-stage"

\* planAsfCheckpointRecovery, where "absent" are the observations that found
\* their effect not applied, "unclear" those without a definite answer and
\* "proven" says that the protected session may be resumed.
PlanRecovery(kind, d, absent, unclear, proven) ==
  LET policy == PolicyOf(kind)
  IN IF \/ d.role \notin policy.roles
        \/ d.role \in Reviewers /\ d.resume
        \/ unclear # {}
        \/ ~d.replay /\ d.role # "orchestrator"
     THEN "refused"
     ELSE IF d.replay \/ absent # {} THEN Replay(policy, d, absent, proven)
     ELSE IF policy.observe = {} THEN "continue-from-checkpoint"
     ELSE "continue-after-reconciliation"

\* The evidence the plan drops, and the fencing a takeover owes, in order.
Invalidated(kind, action) == IF action \in Replays THEN PolicyOf(kind).drop ELSE {}
TakeoverFencing == <<"fence-prior-worker-generation", "abort-prior-provider-and-tool-work",
                     "revoke-prior-identity-leases", "reconcile-in-flight-external-effects">>
Revokes(operation, r) == operation = "revoke-prior-identity-leases" /\ r = "identity-leases"
=============================================================================
