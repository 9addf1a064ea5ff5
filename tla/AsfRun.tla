------------------------------- MODULE AsfRun -------------------------------
(***************************************************************************)
(* The life cycle of one ASF run: the delivery runner                      *)
(* (src/src/asf/delivery-runner.ts) drives candidates through checks,      *)
(* reviews, push, CI and delivery; the store (src/src/state/store.ts)      *)
(* accepts a transition only with its gates and its atomic checkpoint; a   *)
(* new owner recovers from the latest checkpoint                           *)
(* (src/src/asf/recovery-controller.ts); people approve                    *)
(* (src/src/asf/approval.ts).                                              *)
(*                                                                         *)
(* Abstractions.  A stage's intent, its effect and its confirmation are    *)
(* one step here: AsfEffects is about them.  The worker that lost its      *)
(* fence can write nothing, so only the owner is a process.  Event         *)
(* sequence numbers are compared in one place only, with the number of the *)
(* latest checkpoint, so "fresh" stands for them.  Every claim takes a new *)
(* generation, so a claim of a run with a checkpoint is a takeover, and a  *)
(* recovery plan is acknowledged at most once.  A protected session of an  *)
(* earlier generation enters no later checkpoint, so the owner forgets it. *)
(* The terminal plan and its evidence are one step; commits are numbered.  *)
(* Cancellation, and how a reconciliation settles what a stopped owner     *)
(* left, are left to AsfEffects.                                           *)
(***************************************************************************)
EXTENDS AsfPolicy, Integers

CONSTANTS NChecks,          \* required local checks, in the order they are reported
          Contexts,         \* required remote checks
          Listings,         \* what GitHub may list for a candidate
          Sessions,         \* whether the provider's session can be resumed
          MaxFixIterations, \* budget of the effective policy
          AskedEffects,     \* effects somebody may have to approve
          MaxApprovals,     \* bound on recorded approvals
          MaxFaults         \* bound on crashes, thrown stops and foreign pushes

ASSUME AsfRunAssumption ==
  /\ {NChecks, MaxFixIterations, MaxApprovals, MaxFaults} \subseteq Nat
  /\ NChecks > 0
  /\ Sessions \subseteq BOOLEAN /\ Sessions # {}

\* GitHub lists check runs, and commit statuses, whose conclusion is their state.
ListedRow(source) == [id : Nat, source : {source}, context : STRING, by : Nat,
                      status : STRING, conclusion : STRING, at : Nat]
ASSUME ListingsAssumption ==
  \A l \in Listings :
    /\ l.runs \in Seq(ListedRow("check-run"))
    /\ l.statuses \in Seq({row \in ListedRow("commit-status") : row.conclusion = row.status})

Checks == 1 .. NChecks
\* The first candidate, and one for every fix: the budget can be overrun.
Candidates == 1 .. 2 * MaxFixIterations + 1
Verdicts == {"passed", "failed", "blocked"}
Reviews == {"approved", "changes-requested", "blocked"}
CiOutcomes == {"passed", "failed", "pending", "not-scheduled"}
Resources == {"repository-lease", "identity-leases", "workspace"}
Foreign == 0 - 1

VARIABLES phase, resume, cand, fresh, cp, fixes, last, gates, bundle,
          ask,        \* the effect the run waits for an approval of
          approvals,  \* recorded approvals
          queued,     \* the service will look at the run
          w,          \* the owner
          held,       \* held[r]: whose lease of resource r is live
          head,       \* head of the pull-request branch
          seen,       \* seen[c]: what the controllers really reported about c
          refused,    \* the store has refused a transition of its owner
          faults

runVars == <<phase, resume, cand, fresh, cp, fixes, last, gates, bundle, ask>>
envVars == <<held, head, seen>>
vars == <<runVars, approvals, queued, w, envVars, refused, faults>>

Envelopes == [approved : BOOLEAN, effect : AskedEffects, cand : Candidates,
              signer : {"trusted", "unknown"}]
Ci == INSTANCE AsfCi

NoReport == [i \in Checks |-> "none"]
NoOwner == [pc |-> "none", to |-> "none", takeover |-> FALSE, plan |-> "none", step |-> 0,
            fix |-> 0, local |-> FALSE, pr |-> FALSE, session |-> FALSE, resume |-> FALSE,
            report |-> NoReport, i |-> 1]
NoCheckpoint == [kind |-> "none", phase |-> "ADMITTED", cand |-> 0, session |-> FALSE]
NoGates == [check |-> NoReport, review |-> "none",
            remote |-> [x \in Contexts |-> "none"], pr |-> "none"]
Unseen == [check |-> NoReport, review |-> "none", pr |-> "none",
           ci |-> FALSE]

TypeOK ==
  /\ phase \in RUN_EVENT_PHASES \ MergePhases /\ resume \in NormalPhases \cup {"none"}
  /\ cand \in Candidates \cup {0} /\ bundle \in Candidates \cup {0}
  /\ fresh \in BOOLEAN /\ refused \in BOOLEAN
  /\ cp \in [kind : Kinds \cup {"none"}, phase : RUN_EVENT_PHASES,
             cand : Candidates \cup {0}, session : BOOLEAN]
  /\ fixes \in 0 .. 2 * MaxFixIterations
  /\ gates \in [Candidates -> [check : [Checks -> Verdicts \cup {"none"}],
                               review : Reviews \cup {"none"},
                               remote : [Contexts -> CiOutcomes \cup {"none"}],
                               pr : Reviews \cup {"none"}]]
  /\ ask \in AskedEffects \cup {"none"}
  /\ approvals \subseteq Envelopes
  /\ w \in [pc : {"none", "claimed", "authorized", "dispatch", "loop", "recording", "recorded",
                  "reviewed", "ci", "failing"},
            to : RUN_EVENT_PHASES \cup {"none"}, takeover : BOOLEAN,
            plan : RecoveryActions \cup {"none"}, step : 0 .. Len(TakeoverFencing),
            fix : 0 .. 2 * MaxFixIterations,
            local : BOOLEAN, pr : BOOLEAN, session : BOOLEAN, resume : BOOLEAN,
            report : [Checks -> Verdicts \cup {"none"}], i : Checks]
  /\ queued \in BOOLEAN
  /\ held \in [Resources -> {"none", "prior", "current"}]
  /\ head \in Candidates \cup {0, Foreign}

Init ==
  /\ phase = "ADMITTED" /\ resume = "none" /\ cand = 0 /\ fresh = TRUE
  /\ cp = NoCheckpoint
  /\ fixes = 0 /\ last = "work_order.admitted" /\ bundle = 0 /\ ask = "none"
  /\ gates = [c \in Candidates |-> NoGates] /\ seen = [c \in Candidates |-> Unseen]
  /\ approvals = {} /\ queued = TRUE /\ w = NoOwner
  /\ held = [r \in Resources |-> "none"] /\ head = 0
  /\ refused = FALSE /\ faults = 0

Go(pc) == w' = [w EXCEPT !.pc = pc]
\* The invocation throws; #handleError will write the stop "to".
Throw(to) == w' = [w EXCEPT !.pc = "failing", !.to = to]

-----------------------------------------------------------------------------
(* The store's side of a transition. *)

\* The aggregate of the observations of a CI snapshot.
CiOutcome(remote) ==
  IF \A x \in Contexts : remote[x] = "passed" THEN "passed"
  ELSE IF \E x \in Contexts : remote[x] = "failed" THEN "failed"
  ELSE IF \E x \in Contexts : remote[x] = "not-scheduled" THEN "not-scheduled"
  ELSE "pending"

\* #requirePassedGates.
ChecksPassed(g) == \A i \in Checks : g.check[i] = "passed"
RemotePassed(g) == \A x \in Contexts : g.remote[x] = "passed"

\* The gate that sends the candidate back must be the one of the phase.
Fixable ==
  LET g == gates[cand]
  IN CASE phase = "LOCAL_REVIEW" -> g.review = "changes-requested"
       [] phase = "PR_REVIEW" -> g.pr = "changes-requested"
       [] phase = "LOCAL_VERIFY" -> \E i \in Checks : g.check[i] = "failed"
       [] OTHER -> \E x \in Contexts : g.remote[x] = "failed"

\* #assertAsfGatePrerequisites, up to the push
LocalGates(type) ==
  CASE type = "review.started" -> ChecksPassed(gates[cand])
    [] type = "delivery.ready" -> gates[cand].review = "approved"
    [] OTHER -> TRUE

\* and after it.
DeliveryGates(type) ==
  CASE type = "pr_review.started" -> RemotePassed(gates[cand])
    [] type = "pull_request.delivered" ->
         /\ gates[cand].pr = "approved" /\ RemotePassed(gates[cand])
         /\ last = "ci.revalidated"
    [] type \in {"evidence.finalized", "run.completed"} -> bundle = cand
    [] type = "fixing.started" -> Fixable
    [] OTHER -> TRUE

\* ASF_EVENT_CHECKPOINT_REQUIREMENTS: events that need their checkpoint.
CheckpointOf(type) ==
  CASE type = "repository.lease_acquired" -> "repository-lease-acquisition"
    [] type = "identity.leases_acquired" -> "identity-lease-acquisition"
    [] type = "workspace.prepared" -> "workspace-sandbox-proof"
    [] type = "task_packet.created" -> "task-packet-creation"
    [] type = "implementation.started" -> "implementer-session-marker"
    [] type = "candidate.created" -> "candidate-commit-creation"
    [] type = "review.completed" -> "local-review-fixer-iteration"
    [] type = "branch.pushed" -> "branch-push-intent-observation"
    [] type = "pull_request.opened" -> "pull-request-intent-observation"
    [] type \in {"ci.completed", "ci.recheck_completed"} -> "ci-reconciliation-snapshot"
    [] type \in {"pr_review.completed", "ci.revalidated"} -> "pr-review-fixer-iteration"
    [] type = "evidence.finalized" -> "evidence-finalization-acknowledgement"
    [] OTHER -> "none"

\* #verificationCompletesRequiredCoverage, with g the gates after the event.
CoverageComplete(type, g) == type = "verification.completed" /\ ChecksPassed(g)

\* #candidateLineageDigestForCheckpoint: a checkpoint names a candidate whose
\* lineage an event, or an earlier checkpoint, has recorded.
HasLineage(type, c) == c \in {0, cand, cp.cand} \/ type = "candidate.created"

\* #protectedResumeForCheckpoint: the session goes into the checkpoints that
\* may keep one.
SessionKept(kind, owner) == KeepsSession(kind) /\ owner.session

\* #createAsfBoundCheckpoint.
Checkpoint(kind, to, c, owner) ==
  [kind |-> kind, phase |-> to, cand |-> c, session |-> SessionKept(kind, owner)]

\* transitionAsfRun accepts the event with the checkpoint kind "with" ("none"
\* without one), where c is the candidate and g its gates after the event.
Accepts(type, to, with, c, g) ==
  /\ EventStep(type, phase, to)
  /\ LocalGates(type) /\ DeliveryGates(type)
  /\ with = "local-verification-pass" => CoverageComplete(type, g)
  /\ LET required == IF CheckpointOf(type) # "none" THEN CheckpointOf(type)
                     ELSE IF CoverageComplete(type, g) THEN "local-verification-pass"
                     ELSE "none"
     IN required # "none" => with = required
  /\ to \in TerminalPhases => with = "lease-release-workspace-cleanup"
  /\ with # "none" => CheckpointFits(with, to, c) /\ HasLineage(type, c)

\* What the transaction writes: the run, the event, the gate result and the
\* checkpoint, together.
Commits(type, to, with, c, g, owner) ==
  /\ phase' = to /\ cand' = c /\ last' = type
  /\ gates' = IF c = 0 THEN gates ELSE [gates EXCEPT ![c] = g]
  /\ fresh' = (with # "none")
  /\ cp' = IF with = "none" THEN cp ELSE Checkpoint(with, to, c, owner)
  /\ fixes' = IF type = "fixing.started" THEN fixes + 1 ELSE fixes
  /\ resume' = IF to \in Paused /\ resume = "none" THEN phase ELSE resume
  /\ UNCHANGED <<bundle, ask, refused>>

\* A transition of the owner; a refusal fails the invocation.
Write(type, to, with, c, g, owner) ==
  \/ /\ Accepts(type, to, with, c, g) /\ Commits(type, to, with, c, g, owner) /\ w' = owner
  \/ /\ ~Accepts(type, to, with, c, g)
     /\ refused' = TRUE /\ Throw("FAILED") /\ UNCHANGED runVars

\* An event about the current candidate that records no verdict.
Advance(type, to, with) ==
  Write(type, to, with, cand, IF cand = 0 THEN NoGates ELSE gates[cand],
        [w EXCEPT !.pc = "loop"])

\* #requirePriorCheckpoint: without it the stage refuses.
Prior(kind) == cp.kind = kind /\ cp.cand = cand

\* #checkpointIsCurrent.
IsCurrent(kind) == cp.kind = kind /\ fresh /\ cp.phase = phase /\ cp.cand = cand

-----------------------------------------------------------------------------
(* Ownership and recovery. *)

\* claimAsfRun, from the queue of the service; the first claim records the
\* admission's checkpoint.
Claim ==
  /\ queued /\ w.pc = "none" /\ phase \notin TerminalPhases
  /\ queued' = FALSE
  /\ w' = [NoOwner EXCEPT !.pc = "claimed", !.takeover = cp # NoCheckpoint]
  /\ cp' = IF cp = NoCheckpoint THEN Checkpoint("work-order-admission", phase, cand, NoOwner) ELSE cp
  /\ held' = [r \in Resources |-> IF held[r] = "current" THEN "prior" ELSE held[r]]
  /\ UNCHANGED <<phase, resume, cand, fresh, fixes, last, gates, bundle, ask>>
  /\ refused' = FALSE /\ UNCHANGED <<approvals, head, seen, faults>>

\* The process dies, or the owner is found stale: the next start, or another
\* host, looks at the run, as every start does at a run that is paused.
Crash ==
  /\ w.pc # "none" \/ phase \in Paused
  /\ faults < MaxFaults
  /\ faults' = faults + 1 /\ queued' = TRUE /\ w' = NoOwner
  /\ UNCHANGED <<runVars, approvals, envVars, refused>>

\* #assertCheckpointBinding, but for the sequence number and the generation.
CheckpointBinds == cp.cand = cand

\* ProductionAsfRecoveryController.observe: the authority gives a directive,
\* the world is observed, and these are the actions it may come to authorise.
Unclear(absent) == {{}} \cup {{o} : o \in PolicyOf(cp.kind).observe \ absent}
Planned ==
  UNION {{PlanRecovery(cp.kind, d, absent, unclear, MayResume(cp.kind, cp.session, facts))
            : unclear \in Unclear(absent)}
         : d \in Directives, absent \in SUBSET PolicyOf(cp.kind).observe, facts \in BOOLEAN}

\* #recover.  A plan that replays a checkpoint older than the latest event is
\* refused.
Observe ==
  /\ w.pc = "claimed"
  /\ \E action \in Planned :
       IF ~CheckpointBinds THEN Throw("QUARANTINED")
       ELSE IF action = "refused" THEN Throw("FAILED")
       ELSE IF action \in Replays /\ ~fresh THEN Throw("QUARANTINED")
       ELSE w' = [w EXCEPT !.pc = "authorized", !.plan = action]
  /\ UNCHANGED <<runVars, approvals, queued, envVars, refused, faults>>

\* #assertPlanBinding: a takeover owes every operation, in order.
Owed == IF w.takeover THEN Len(TakeoverFencing) ELSE 0

\* ProductionAsfRecoveryController.apply: one operation and its receipt.  One
\* of them changes a resource; the next owner repeats them all.
Fence ==
  /\ w.pc = "authorized" /\ w.step < Owed
  /\ w' = [w EXCEPT !.step = w.step + 1]
  /\ held' = [r \in Resources |->
                IF held[r] = "prior" /\ Revokes(TakeoverFencing[w.step + 1], r) THEN "none"
                ELSE held[r]]
  /\ UNCHANGED <<runVars, approvals, queued, head, seen, refused, faults>>

\* The rest of apply: evidence is invalidated, the plan acknowledged, and the
\* runner starts from it.
Acknowledge ==
  /\ w.pc = "authorized" /\ w.step = Owed
  /\ LET again == w.plan \in {"replay-stage", "restart-reviewer-fresh"}
     IN w' = [w EXCEPT !.pc = "dispatch", !.plan = "none", !.step = 0, !.fix = fixes,
                !.local = again /\ cp.kind = "local-review-fixer-iteration",
                !.pr = again /\ cp.kind = "pr-review-fixer-iteration",
                !.resume = w.plan = "resume-implementer"]
  /\ UNCHANGED <<runVars, approvals, queued, envVars, refused, faults>>

\* The authorization is stale, or the acknowledgement names other evidence than
\* what the plan drops.
RecoveryRefused ==
  /\ w.pc = "authorized" /\ faults < MaxFaults
  /\ \E acknowledged \in {{}, CandidateEvidence} : acknowledged # Invalidated(cp.kind, w.plan)
  /\ faults' = faults + 1 /\ Throw("FAILED")
  /\ UNCHANGED <<runVars, approvals, queued, envVars, refused>>

\* Mutant: a run in FIXING is taken over without its workspace.
PrerequisitesButForFixing ==
  CASE phase = "REPOSITORY_LEASED" -> {"repository-lease"}
    [] phase = "IDENTITY_READY" -> {"repository-lease", "identity-leases"}
    [] phase \in NormalPhases \ {"ADMITTED", "FIXING"} -> Resources
    [] OTHER -> {}

\* #recoveryPrerequisites.
RecoveryPrerequisites ==
  CASE phase = "REPOSITORY_LEASED" -> {"repository-lease"}
    [] phase = "IDENTITY_READY" -> {"repository-lease", "identity-leases"}
    [] phase \in NormalPhases \ {"ADMITTED"} -> Resources
    [] OTHER -> {}

\* #dispatchRecovery.
Dispatch ==
  /\ w.pc = "dispatch" /\ Go("loop")
  /\ held' = [r \in Resources |->
                IF w.takeover /\ r \in RecoveryPrerequisites THEN "current" ELSE held[r]]
  /\ UNCHANGED <<runVars, approvals, queued, head, seen, refused, faults>>

\* A paused or finished run is left alone.
Leave ==
  /\ w.pc = "loop" /\ phase \in Paused \cup TerminalPhases
  /\ w' = NoOwner
  /\ UNCHANGED <<runVars, approvals, queued, envVars, refused, faults>>

-----------------------------------------------------------------------------
(* The stages. *)

\* #admission: the loop reads the run under its own fence; what was admitted
\* never changes.
Owns == w.pc = "loop"
At(p) == Owns /\ phase = p
Quiet == UNCHANGED <<approvals, queued, faults>>

\* A stage that needs the checkpoint of the stage before it.
Stage(p, prior, type, to, with) ==
  /\ At(p) /\ Quiet
  /\ \/ Prior(prior) /\ Advance(type, to, with)
     \/ ~Prior(prior) /\ Throw("QUARANTINED") /\ UNCHANGED <<runVars, refused>>
Obtains(r) == held' = IF phase' = phase THEN held ELSE [held EXCEPT ![r] = "current"]

RepositoryLease ==
  /\ Stage("ADMITTED", "work-order-admission", "repository.lease_acquired",
           "REPOSITORY_LEASED", "repository-lease-acquisition")
  /\ Obtains("repository-lease") /\ UNCHANGED <<head, seen>>
Identities ==
  /\ Stage("REPOSITORY_LEASED", "repository-lease-acquisition", "identity.leases_acquired",
           "IDENTITY_READY", "identity-lease-acquisition")
  /\ Obtains("identity-leases") /\ UNCHANGED <<head, seen>>
Workspace ==
  /\ Stage("IDENTITY_READY", "identity-lease-acquisition", "workspace.prepared",
           "WORKSPACE_READY", "workspace-sandbox-proof")
  /\ Obtains("workspace") /\ UNCHANGED <<head, seen>>
TaskPacket ==
  /\ Stage("WORKSPACE_READY", "workspace-sandbox-proof", "task_packet.created",
           "TASK_PACKET_READY", "task-packet-creation")
  /\ UNCHANGED envVars

\* #validateSessionCheckpointResume: the marker of a new session may bring
\* what is needed to resume it.
StartImplementation ==
  /\ At("TASK_PACKET_READY") /\ Quiet
  /\ \/ /\ Prior("task-packet-creation")
        /\ \E s \in Sessions :
             Write("implementation.started", "IMPLEMENTING", "implementer-session-marker", cand,
                   NoGates, [w EXCEPT !.session = s])
     \/ ~Prior("task-packet-creation") /\ Throw("QUARANTINED") /\ UNCHANGED <<runVars, refused>>
  /\ UNCHANGED envVars

Fixing == phase = "FIXING"

\* #resumeDescriptor: a session is resumed in the implementation it belongs
\* to, and nowhere else.
ResumeFits == w.resume => ~Fixing

\* #captureProtectedResume: a fixer's session is never kept.
Captured == IF Fixing THEN {FALSE} ELSE Sessions

\* #candidate: a commit on top of the current one, or of the base.
Candidate ==
  /\ w.pc = "loop" /\ phase \in {"IMPLEMENTING", "FIXING"} /\ Quiet
  /\ IF ResumeFits
     THEN \E s \in Captured :
            Write("candidate.created", "CANDIDATE_READY", "candidate-commit-creation",
                  cand + 1, NoGates, [w EXCEPT !.resume = FALSE, !.session = s])
     ELSE Throw("QUARANTINED") /\ UNCHANGED <<runVars, refused>>
  /\ UNCHANGED envVars

LocalVerification ==
  /\ Stage("CANDIDATE_READY", "candidate-commit-creation", "verification.started",
           "LOCAL_VERIFY", "none")
  /\ UNCHANGED envVars

\* #completeLocalVerification: every required check reports.  The key of the
\* intent has the latest event in it, so who asks again gets the same report
\* until a check of it is recorded, and another intent after that;
Verify ==
  /\ At("LOCAL_VERIFY") /\ ~IsCurrent("local-verification-pass")
  /\ \E report \in [Checks -> Verdicts] :
       /\ last = "verification.started" /\ seen[cand].check # NoReport
            => report = seen[cand].check
       /\ w' = [w EXCEPT !.pc = "recording", !.report = report, !.i = 1]
       /\ seen' = [seen EXCEPT ![cand].check = report]
  /\ Quiet /\ UNCHANGED <<runVars, held, head, refused>>

\* Mutant: every report of a clean pass brings the checkpoint.
RecordCheckTooEarly ==
  /\ w.pc = "recording" /\ phase = "LOCAL_VERIFY"
  /\ LET passed == \A i \in Checks : w.report[i] = "passed"
         end == w.i = NChecks
     IN Write("verification.completed", "LOCAL_VERIFY",
              IF passed THEN "local-verification-pass" ELSE "none",
              cand, [gates[cand] EXCEPT !.check[w.i] = w.report[w.i]],
              [w EXCEPT !.pc = IF ~end THEN "recording" ELSE IF passed THEN "loop" ELSE "recorded",
                        !.i = IF end THEN 1 ELSE w.i + 1,
                        !.report = IF end THEN NoReport ELSE w.report,
                        !.to = IF end /\ \E i \in Checks : w.report[i] = "blocked"
                               THEN "BLOCKED_EXTERNAL" ELSE w.to])
  /\ Quiet /\ UNCHANGED envVars

\* every check is an event of its own, the last with the checkpoint if all of
\* them passed.
RecordCheck ==
  /\ w.pc = "recording" /\ phase = "LOCAL_VERIFY"
  /\ LET passed == \A i \in Checks : w.report[i] = "passed"
         end == w.i = NChecks
     IN Write("verification.completed", "LOCAL_VERIFY",
              IF passed /\ end THEN "local-verification-pass" ELSE "none",
              cand, [gates[cand] EXCEPT !.check[w.i] = w.report[w.i]],
              [w EXCEPT !.pc = IF ~end THEN "recording" ELSE IF passed THEN "loop" ELSE "recorded",
                        !.i = IF end THEN 1 ELSE w.i + 1,
                        !.report = IF end THEN NoReport ELSE w.report,
                        !.to = IF end /\ \E i \in Checks : w.report[i] = "blocked"
                               THEN "BLOCKED_EXTERNAL" ELSE w.to])
  /\ Quiet /\ UNCHANGED envVars

\* #startFixing, with the number of iterations the caller counts.
StartFixing(count, owner) ==
  \/ count >= MaxFixIterations /\ Throw("BUDGET_EXHAUSTED") /\ UNCHANGED <<runVars, refused>>
  \/ /\ count < MaxFixIterations
     /\ Write("fixing.started", "FIXING", "none", cand, gates[cand], owner)
Counted == [w EXCEPT !.pc = "loop", !.fix = w.fix + 1]

\* A check that gave no answer stops the run, a failed one is fixed.
AfterVerification ==
  /\ w.pc = "recorded" /\ phase = "LOCAL_VERIFY"
  /\ IF w.to = "BLOCKED_EXTERNAL" THEN Throw(w.to) /\ UNCHANGED <<runVars, refused>>
     ELSE StartFixing(w.fix, Counted)
  /\ Quiet /\ UNCHANGED envVars

LocalReview ==
  /\ IsCurrent("local-verification-pass")
  /\ Stage("LOCAL_VERIFY", "local-verification-pass", "review.started", "LOCAL_REVIEW", "none")
  /\ UNCHANGED envVars

\* #review: the verdict and its checkpoint, then the stop if there is none.
CompleteLocalReview ==
  /\ At("LOCAL_REVIEW") /\ (w.local \/ ~IsCurrent("local-review-fixer-iteration"))
  /\ \E o \in Reviews :
       /\ Write("review.completed", "LOCAL_REVIEW", "local-review-fixer-iteration", cand,
                [gates[cand] EXCEPT !.review = o],
                [w EXCEPT !.local = FALSE, !.pc = IF o = "blocked" THEN "reviewed" ELSE "loop"])
       /\ seen' = [seen EXCEPT ![cand].review = o]
  /\ Quiet /\ UNCHANGED <<held, head>>

ReviewBlocked ==
  /\ w.pc = "reviewed" /\ Throw("BLOCKED_EXTERNAL")
  /\ Quiet /\ UNCHANGED <<runVars, envVars, refused>>

AfterLocalReview ==
  /\ At("LOCAL_REVIEW") /\ ~w.local /\ IsCurrent("local-review-fixer-iteration")
  /\ CASE gates[cand].review = "changes-requested" -> StartFixing(w.fix, Counted)
       [] gates[cand].review = "approved" -> Advance("delivery.ready", "DELIVERY_READY", "none")
       [] OTHER -> Throw("QUARANTINED") /\ UNCHANGED <<runVars, refused>>
  /\ Quiet /\ UNCHANGED envVars

-----------------------------------------------------------------------------
(* Delivery. *)

\* #push: the branch moves only from #previousPushedCandidate, a commit of
\* this run; ensureBranch overwrites nothing else.
Push ==
  /\ At("DELIVERY_READY") /\ Quiet
  /\ IF Prior("local-review-fixer-iteration") /\ head # Foreign
     THEN Advance("branch.pushed", "PUSHED", "branch-push-intent-observation") /\ head' = cand
     ELSE /\ Throw(IF head = Foreign THEN "FAILED" ELSE "QUARANTINED")
          /\ UNCHANGED <<runVars, refused, head>>
  /\ UNCHANGED <<held, seen>>

\* #observePullRequests: the one pull request of the branch has the candidate
\* for its head.
OnePullRequest == head = cand

PullRequest ==
  /\ IF OnePullRequest
     THEN Stage("PUSHED", "branch-push-intent-observation", "pull_request.opened", "PR_OPEN",
                "pull-request-intent-observation")
     ELSE At("PUSHED") /\ Quiet /\ Throw("FAILED") /\ UNCHANGED <<runVars, refused>>
  /\ UNCHANGED envVars
StartCi ==
  /\ At("PR_OPEN") /\ Advance("ci.waiting", "CI_WAIT", "none")
  /\ Quiet /\ UNCHANGED envVars

\* #assertPullRequestHead: nothing is said about another head.
PullRequestHead == head = cand

\* #observeExactHeadCi: the outcome of every context, of a listing that can be
\* trusted.
ObserveExactHeadCi(l) == [x \in Contexts |-> Ci!OutcomeOf(l, x)]
Trusted(l) == PullRequestHead /\ Ci!Complete(l)

\* A refusal of the controller is not a structured stop.
CiRefused == Throw("FAILED") /\ UNCHANGED <<runVars, refused, seen>>

Undecided == {"pending", "not-scheduled"}
Observed(remote) == [gates[cand] EXCEPT !.remote = remote]

\* #completeCi, up to its event.
CompleteCi ==
  /\ At("CI_WAIT")
  /\ IsCurrent("ci-reconciliation-snapshot") => CiOutcome(gates[cand].remote) \in Undecided
  /\ \E l \in Listings :
       IF Trusted(l)
       THEN /\ Write("ci.completed", "CI_WAIT", "ci-reconciliation-snapshot", cand,
                     Observed(ObserveExactHeadCi(l)), [w EXCEPT !.pc = "ci"])
            /\ seen' = seen
       ELSE CiRefused
  /\ Quiet /\ UNCHANGED <<held, head>>

\* Mutant: the run is given up and forgotten.
RetryForgotten == w' = NoOwner /\ queued' = queued /\ UNCHANGED <<runVars, refused>>

\* #isCurrentPendingCiYield: the latest event is the undecided snapshot.
PendingCiYield ==
  /\ phase = "CI_WAIT" /\ last \in {"ci.completed", "ci.recheck_completed"}
  /\ CiOutcome(gates[cand].remote) \in Undecided

\* AsfPendingCiRetryError: the service gives the run up and comes back.
RetryLater == w' = NoOwner /\ queued' = PendingCiYield /\ UNCHANGED <<runVars, refused>>

\* The rest of #completeCi; it counts the fixes in the store and leaves the
\* count of the invocation alone.
AfterCi ==
  /\ w.pc = "ci"
  /\ CASE CiOutcome(gates[cand].remote) = "failed" ->
            StartFixing(fixes, [w EXCEPT !.pc = "loop"]) /\ queued' = queued
       [] CiOutcome(gates[cand].remote) = "passed" ->
            Go("loop") /\ UNCHANGED <<runVars, refused, queued>>
       [] OTHER -> RetryLater
  /\ UNCHANGED <<approvals, faults, envVars>>

\* The case CI_WAIT of the loop, with a decided snapshot on record.
LeaveCi ==
  /\ At("CI_WAIT") /\ IsCurrent("ci-reconciliation-snapshot")
  /\ CASE CiOutcome(gates[cand].remote) = "failed" -> StartFixing(w.fix, Counted)
       [] CiOutcome(gates[cand].remote) = "passed" ->
            Advance("pr_review.started", "PR_REVIEW", "none")
       [] OTHER -> FALSE
  /\ Quiet /\ UNCHANGED envVars

\* The case PR_REVIEW of the loop.
ReviewDue == w.pr \/ ~IsCurrent("pr-review-fixer-iteration")
CompletePullRequestReview ==
  /\ At("PR_REVIEW") /\ ReviewDue
  /\ \E o \in Reviews :
       /\ Write("pr_review.completed", "PR_REVIEW", "pr-review-fixer-iteration", cand,
                [gates[cand] EXCEPT !.pr = o],
                [w EXCEPT !.pr = FALSE, !.pc = IF o = "blocked" THEN "reviewed" ELSE "loop"])
       /\ seen' = [seen EXCEPT ![cand].pr = o, ![cand].ci = FALSE]
  /\ Quiet /\ UNCHANGED <<held, head>>

Reviewed == At("PR_REVIEW") /\ ~ReviewDue

\* #afterPullRequestReview without an approval.
PullRequestReviewRejected ==
  /\ Reviewed /\ gates[cand].pr # "approved"
  /\ \/ gates[cand].pr = "changes-requested" /\ StartFixing(w.fix, Counted)
     \/ /\ gates[cand].pr # "changes-requested"
        /\ Throw("QUARANTINED") /\ UNCHANGED <<runVars, refused>>
  /\ Quiet /\ UNCHANGED envVars

\* Mutant: the snapshot that let the review start is taken for the final one.
RevalidateFromRecord ==
  /\ Reviewed /\ gates[cand].pr = "approved" /\ last # "ci.revalidated"
  /\ Write("ci.revalidated", "PR_REVIEW", "pr-review-fixer-iteration", cand, gates[cand],
           [w EXCEPT !.pc = "loop"])
  /\ Quiet /\ UNCHANGED envVars

\* #afterPullRequestReview: CI is looked at once more after the approval.
Revalidate ==
  /\ Reviewed /\ gates[cand].pr = "approved" /\ last # "ci.revalidated"
  /\ \E l \in Listings :
       LET remote == ObserveExactHeadCi(l)
       IN IF ~Trusted(l) THEN CiRefused
          ELSE IF CiOutcome(remote) = "passed"
          THEN /\ Write("ci.revalidated", "PR_REVIEW", "pr-review-fixer-iteration", cand,
                        Observed(remote), [w EXCEPT !.pc = "loop"])
               /\ seen' = [seen EXCEPT ![cand].ci = \A x \in Contexts : Ci!Green(l, x)]
          ELSE /\ Write("ci.recheck_completed", "CI_WAIT", "ci-reconciliation-snapshot", cand,
                        Observed(remote),
                        IF CiOutcome(remote) \in Undecided THEN NoOwner
                        ELSE [w EXCEPT !.pc = "loop"])
               /\ seen' = seen
  /\ queued' = (w'.pc = "none" /\ PendingCiYield')
  /\ UNCHANGED <<approvals, faults, held, head>>

\* #durableFinalCiSnapshot: the event itself proves that everything passed.
FinalCiSnapshot == last = "ci.revalidated" /\ RemotePassed(gates[cand])

\* #afterPullRequestReview: the pull request is looked at and delivered.
Deliver ==
  /\ Reviewed /\ gates[cand].pr = "approved" /\ last = "ci.revalidated"
  /\ IF FinalCiSnapshot /\ head = cand
     THEN Advance("pull_request.delivered", "PR_DELIVERED", "pr-review-fixer-iteration")
     ELSE Throw("QUARANTINED") /\ UNCHANGED <<runVars, refused>>
  /\ Quiet /\ UNCHANGED envVars

\* #evidence: the bundle is on record before its event is.
RecordBundle ==
  /\ At("PR_DELIVERED") /\ bundle # cand
  /\ IF Prior("pr-review-fixer-iteration")
     THEN bundle' = cand /\ w' = w
     ELSE Throw("QUARANTINED") /\ bundle' = bundle
  /\ Quiet /\ UNCHANGED <<phase, resume, cand, fresh, cp, fixes, last, gates, ask, envVars, refused>>
Evidence ==
  /\ bundle = cand
  /\ Stage("PR_DELIVERED", "pr-review-fixer-iteration", "evidence.finalized",
           "EVIDENCE_FINALIZED", "evidence-finalization-acknowledgement")
  /\ UNCHANGED envVars

\* What a terminal transition leaves behind: #performTerminalCleanup.
Released == held' = IF phase' \in TerminalPhases THEN [r \in Resources |-> "none"] ELSE held
Complete ==
  /\ Stage("EVIDENCE_FINALIZED", "evidence-finalization-acknowledgement", "run.completed",
           "COMPLETED", "lease-release-workspace-cleanup")
  /\ Released /\ UNCHANGED <<head, seen>>

-----------------------------------------------------------------------------
(* Stops and approvals. *)

\* The stages that turn to nobody but the store.
Alone ==
  \/ phase = "PR_OPEN"
  \/ phase = "LOCAL_VERIFY" /\ IsCurrent("local-verification-pass")
  \/ phase = "LOCAL_REVIEW" /\ IsCurrent("local-review-fixer-iteration") /\ ~w.local
  \/ /\ phase = "CI_WAIT" /\ IsCurrent("ci-reconciliation-snapshot")
     /\ CiOutcome(gates[cand].remote) \notin Undecided

\* A controller throws one of the structured stops, or the budget does.
StopThrown ==
  /\ w.pc = "loop" /\ phase \in NormalPhases /\ faults < MaxFaults
  /\ \E to \in Paused \cup DIRECT_STOP_PHASES : Throw(to) /\ (Alone => to = "BUDGET_EXHAUSTED")
  /\ faults' = faults + 1
  /\ UNCHANGED <<runVars, approvals, queued, envVars, refused>>

\* The stop of a paused run, with the phase to come back to.
Interrupted(to, stop) ==
  /\ phase' = to /\ last' = stop /\ fresh' = FALSE
  /\ resume' = IF resume = "none" THEN phase ELSE resume
  /\ UNCHANGED <<cand, cp, fixes, gates, bundle>>

\* #handleError: a pause is one transition.
Pause ==
  /\ w.pc = "failing" /\ w.to \in Paused /\ phase # w.to
  /\ Interrupted(w.to, "stop")
  /\ ask' \in IF w.to = "WAITING_APPROVAL" THEN AskedEffects ELSE {"none"}
  /\ w' = NoOwner
  /\ Quiet /\ UNCHANGED <<envVars, refused>>

\* The stage that was interrupted may have left an intent that nobody settled.
Unsettled == phase \in NormalPhases /\ ~Alone

\* A terminal stop cleans up first; a cleanup that cannot be proved, as with an
\* unsettled intent, makes the service block the run (#recordRunnerFailure), and
\* the store adds a continuation bound to what is unsettled.
Stop ==
  /\ w.pc = "failing" /\ w.to \in DIRECT_STOP_PHASES
  /\ phase' = w.to /\ last' = "stop" /\ fresh' = TRUE
  /\ cp' = Checkpoint("lease-release-workspace-cleanup", w.to, cand, w)
  /\ w' = NoOwner /\ ask' = "none" /\ Released
  /\ Quiet /\ UNCHANGED <<resume, cand, fixes, gates, bundle, head, seen, refused>>
CleanupUnproved ==
  /\ w.pc = "failing" /\ w.to \in DIRECT_STOP_PHASES /\ phase # "BLOCKED_EXTERNAL"
  /\ faults < MaxFaults /\ faults' = faults + 1
  /\ \E stop \in {"stop"} \cup (IF Unsettled THEN {"stop with continuation"} ELSE {}) :
       Interrupted("BLOCKED_EXTERNAL", stop)
  /\ ask' = "none" /\ w' = NoOwner
  /\ UNCHANGED <<approvals, queued, envVars, refused>>

\* Mutant: an approval of another effect resumes the run.
ResumesAnything(e) == phase = "WAITING_APPROVAL" /\ e.approved

\* #approvalResumeTarget.
Resumes(e) == phase = "WAITING_APPROVAL" /\ e.approved /\ e.effect = ask

\* validateApproval.
ValidApproval(e) == e.signer = "trusted" /\ e.cand = cand

\* recordAsfApproval: an envelope about the present candidate is recorded and
\* resumes the run that waits for it.  Recorded elsewhere it is a row that
\* nothing here reads.
RecordApproval(e) ==
  /\ ValidApproval(e) /\ phase = "WAITING_APPROVAL"
  /\ approvals' = approvals \cup {e} /\ Cardinality(approvals') <= MaxApprovals
  /\ IF Resumes(e)
     THEN /\ phase' = resume /\ resume' = "none" /\ fresh' = FALSE /\ last' = "run.resumed"
          /\ ask' = "none" /\ w' = NoOwner /\ queued' = TRUE
          /\ UNCHANGED <<cand, cp, fixes, gates, bundle>>
     ELSE e \notin approvals /\ UNCHANGED <<runVars, w, queued>>
  /\ UNCHANGED <<envVars, refused, faults>>
Approve == \E e \in Envelopes : RecordApproval(e)

\* The latest event is the block that carries the continuation.
HasContinuation == phase = "BLOCKED_EXTERNAL" /\ last = "stop with continuation"

\* #resumeResolvedAsfReconciliation: everything unsettled was observed by a
\* controller that owns the run meanwhile, and the run goes on where it was
\* interrupted; AsfEffects is about how it is settled.
Reconcile ==
  /\ HasContinuation
  /\ phase' = resume /\ resume' = "none" /\ fresh' = FALSE /\ last' = "run.resumed"
  /\ w' = NoOwner /\ queued' = TRUE
  /\ UNCHANGED <<cand, cp, fixes, gates, bundle, ask, approvals, envVars, refused, faults>>

\* Somebody else pushes to the branch.
ForeignPush ==
  /\ head \notin {0, Foreign} /\ faults < MaxFaults
  /\ head' = Foreign /\ faults' = faults + 1
  /\ UNCHANGED <<runVars, approvals, queued, w, held, seen, refused>>

-----------------------------------------------------------------------------
Observes == CompleteCi \/ Revalidate
Works ==
  \/ Observe \/ Fence \/ Acknowledge \/ Dispatch \/ Leave
  \/ RepositoryLease \/ Identities \/ Workspace \/ TaskPacket \/ StartImplementation \/ Candidate
  \/ LocalVerification \/ Verify \/ RecordCheck \/ AfterVerification
  \/ LocalReview \/ CompleteLocalReview \/ ReviewBlocked \/ AfterLocalReview
  \/ Push \/ PullRequest \/ StartCi \/ AfterCi \/ LeaveCi
  \/ CompletePullRequestReview \/ PullRequestReviewRejected \/ Deliver
  \/ RecordBundle \/ Evidence \/ Complete
  \/ Pause \/ Stop
Others ==
  \/ Crash \/ RecoveryRefused \/ StopThrown \/ CleanupUnproved \/ Approve \/ Reconcile
  \/ ForeignPush

Finished == phase \in TerminalPhases
Next == Claim \/ Works \/ Observes \/ Others \/ (Finished /\ UNCHANGED vars)

\* The service claims what is queued, the owner's stage ends, and CI decides
\* at last.
Decides == CiOutcome(gates'[cand].remote) \notin Undecided
Spec ==
  /\ Init /\ [][Next]_vars
  /\ WF_vars(Claim) /\ WF_vars(Works) /\ WF_vars(Observes) /\ SF_vars(CompleteCi /\ Decides)
  /\ SF_vars(Revalidate /\ Decides)

-----------------------------------------------------------------------------
(* Properties. *)

\* What is delivered passed every required check, was approved by both
\* reviews, and CI passed after the last approval - whatever was recorded
\* about earlier candidates, and however often the run was taken over.
DeliveredIsVetted ==
  phase \in {"PR_DELIVERED", "EVIDENCE_FINALIZED", "COMPLETED"} =>
    /\ ChecksPassed(seen[cand]) /\ seen[cand].review = "approved"
    /\ seen[cand].pr = "approved" /\ seen[cand].ci

\* A check passes that an earlier report of the candidate has as the only one that
\* did not, and it is not the last of its report.
MidReport ==
  /\ w.pc = "recording" /\ w.i < NChecks /\ w.report[w.i] = "passed"
  /\ {i \in Checks : gates[cand].check[i] # "passed"} = {w.i}

\* Runner and store agree on gates, phases and checkpoints but for one case: the
\* store wants the coverage checkpoint with the check that completes the coverage
\* (transitionAsfRun), and the runner has it for the last check of its report
\* (#completeLocalVerification).
RefusesOnlyMidReport == [][~refused /\ refused' => MidReport]_vars

\* The owner works with the leases of its own generation only, and has every
\* lease its stage depends on.
WorksOnItsOwn ==
  w.pc \in {"loop", "recording", "recorded", "reviewed", "ci"} =>
    /\ phase \in {"REPOSITORY_LEASED"} => held["repository-lease"] = "current"
    /\ phase = "IDENTITY_READY" => \A r \in Resources \ {"workspace"} : held[r] = "current"
    /\ phase \in NormalPhases \ {"ADMITTED", "REPOSITORY_LEASED", "IDENTITY_READY"} =>
         \A r \in Resources : held[r] = "current"

\* A run comes back from a pause only for an approval on record of what it asked
\* for, about the candidate it has, by a trusted signer, or because what the
\* stopped owner left unsettled was reconciled, and then to the phase that was
\* interrupted: no restart lets it go on.  The approval is not bound to the stop:
\* one envelope may bring the run back from two stops that ask for the same.
ResumesWithAuthority ==
  [][(phase \in Paused /\ phase' \in NormalPhases) =>
       \/ [approved |-> TRUE, effect |-> ask, cand |-> cand, signer |-> "trusted"]
            \in approvals'
       \/ phase = "BLOCKED_EXTERNAL" /\ last = "stop with continuation" /\ phase' = resume]_vars

\* Every run ends, or waits for a person.
Settles == <>[](phase \in TerminalPhases \cup Paused)
=============================================================================
