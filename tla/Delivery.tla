------------------------------ MODULE Delivery ------------------------------
(***************************************************************************)
(* Orchestrator.run and #runPrReview                                       *)
(* (src/src/orchestrator/orchestrator.ts): successive runs of one daemon   *)
(* on one issue, from selection to a terminal state, over one state store  *)
(* (src/src/state/store.ts).                                               *)
(*                                                                         *)
(* A step ends where the code awaits.  Every awaited call can fail, every  *)
(* reply can be lost after the remote acted, a request can land after its  *)
(* caller gave up, the process can die anywhere, other people can amend,   *)
(* close or merge the pull request, and another worker can come to own     *)
(* the lease.  Commits are numbered: 0 is the base, n + 1 the commit made  *)
(* on top of n.  Effects follow the protocol of module Outbox.             *)
(***************************************************************************)
EXTENDS Integers, FiniteSetsExt

CONSTANTS MaxRuns,  \* bound on the number of runs
          Configs,  \* the configurations to consider
          Verifications,  \* checks, with what running them may bring
          Assessments     \* reviews, each with its change and the policy

Limits == {"total", "implementer", "localReview", "fixer", "prReview", "prFixer"}

ASSUME DeliveryAssumption ==
  /\ MaxRuns \in Nat /\ IsFiniteSet(Configs) /\ Configs # {}
  /\ \A c \in Configs :
       /\ c.autonomy \in {"observe", "pr-only", "merge"}
       /\ {c.assigns, c.delivers, c.completes, c.draft} \subseteq BOOLEAN
       /\ c.fixes \in Nat                \* review.max_fix_iterations
       /\ c.cap \in [Limits -> Nat]      \* budgets.max_agent_invocations
       /\ c.polls \in Nat                \* bound on CI polls (deadline / interval)
       /\ c.runs \in 0 .. MaxRuns        \* bound on the runs of this configuration
       /\ c.rivals \in BOOLEAN           \* whether other workers and people interfere

\* A command has an exit status only if it exited or its timer fired: one that
\* was killed or denied has none (sandbox.ts).
ASSUME VerificationsAssumption ==
  \A v \in Verifications : \A check \in v.checks :
    v.cand[check.id].exit = 0 => v.cand[check.id].ended \in {"exited", "timeout"}

Runs == 1 .. MaxRuns
Shas == 0 .. Max({c.fixes + 1 + c.cap["prFixer"] : c \in Configs})
NoSha == -1     \* no branch, no evidence
Foreign == -2   \* a commit somebody else put on the branch
Other == -1     \* another worker, as the owner of the lease

Restores == {"restore-assignee", "restore-state"}
BacklogOps == Restores \cup {"transition-claim", "assign-claim", "transition-delivered",
                             "comment-delivered", "transition-complete"}
ForgeOps == {"push", "open-pr", "mark-ready", "push-pr-fix", "merge"}
EffectPcs == BacklogOps \cup ForgeOps

\* Operation and target: a PR-review fix is keyed by its commit.
Ops == ((EffectPcs \ {"push-pr-fix"}) \X {0}) \cup ({"push-pr-fix"} \X Shas)

RunStates == {"DISCOVERED", "ELIGIBILITY_CHECKED", "CLAIMED", "WORKSPACE_READY",
              "TASK_PACKET_READY", "IMPLEMENTING", "LOCAL_VERIFY", "LOCAL_REVIEW", "FIXING",
              "PR_READY", "PUSHED", "PR_OPEN", "CI_WAIT", "PR_REVIEW", "MERGE_READY",
              "MERGED", "BACKLOG_UPDATED", "PR_DELIVERED", "COMPLETED",
              "AWAITING_APPROVAL", "NEEDS_HUMAN", "QUARANTINED"}

\* Where run is, named for what it does next; effect operations name themselves.
BodyPcs == (EffectPcs \ Restores) \cup
           {"workspace", "packet", "implement", "agent", "verify", "review", "head-check",
            "ci", "ci-pause", "evidence", "pr-review", "pr-fix", "reverify", "head-after-fix", "deliver",
            "merge-check", "release"}
Pcs == BodyPcs \cup Restores \cup {"idle", "acquire", "final-release"}

VARIABLES cfg,       \* the configuration
          run,       \* the latest run started
          pc,        \* where that run stands, "idle" when its process is done
          call,      \* where its #withOutbox call stands, as in Outbox
          loc,       \* the local variables of run and #runPrReview
          st,        \* st[r]: the persisted state of run r
          row,       \* row[e]: the side_effects row of effect e
          leaseRow,  \* the run named by the store's lease row, 0 if none
          lease,     \* the run named by the lease ref, 0 if absent
          issue,     \* the backlog issue: workflow state and assignee
          branch,    \* branch[r]: the head of run r's branch on the forge
          pr,        \* pr[r]: state and head of run r's pull request
          applied,   \* the effects the remote systems carried out
          cand,      \* cand[r]: candidateSha
          proof,     \* proof[r]: the commits the evidence so far is about
          attended   \* the runs after which an operator put something right

vars == <<cfg, run, pc, call, loc, st, row, leaseRow, lease, issue, branch, pr, applied,
          cand, proof, attended>>
remote == <<issue, branch, pr, applied, attended>>
evidence == <<cand, proof>>

MaxReviews == Max({cfg.cap["prReview"], 1})

TypeOK ==
  /\ cfg \in Configs
  /\ run \in 0 .. MaxRuns
  /\ pc \in Pcs
  /\ call \in {"idle", "fence", "act", "reply"}
  /\ loc \in [held : BOOLEAN, claimed : BOOLEAN, assigned : BOOLEAN, opened : BOOLEAN,
              assignee : {"none", "bot"}, iter : 0 .. cfg.fixes,
              attempt : 0 .. MaxReviews, polls : 0 .. cfg.polls, count : [Limits -> Nat]]
  /\ st \in [Runs -> RunStates]
  /\ row \in [Runs \X Ops -> {"none", "intended", "inFlight", "confirmed", "failed",
                              "notApplied"}]
  /\ leaseRow \in 0 .. MaxRuns
  /\ lease \in {Other} \cup 0 .. MaxRuns
  /\ issue \in [state : {"prior", "claimed", "delivered", "completed"},
                assignee : {"none", "bot"}]
  /\ branch \in [Runs -> {NoSha, Foreign} \cup Shas]
  /\ pr \in [Runs -> [state : {"none", "draft", "open", "closed", "merged"},
                      head : {NoSha, Foreign} \cup Shas]]
  /\ applied \subseteq Runs \X Ops
  /\ attended \subseteq Runs
  /\ cand \in [Runs -> Shas]
  /\ proof \in [Runs -> [verified : {NoSha} \cup Shas, ci : {NoSha} \cup Shas,
                         reviewed : {NoSha} \cup Shas, allowed : {NoSha} \cup Shas]]

FreshLocals(assignee) ==
  [held |-> FALSE, claimed |-> FALSE, assigned |-> FALSE, opened |-> FALSE,
   assignee |-> assignee, iter |-> 0, attempt |-> 0, polls |-> 0,
   count |-> [x \in Limits |-> 0]]

Init ==
  /\ cfg \in Configs
  /\ run = 0
  /\ pc = "idle"
  /\ call = "idle"
  /\ loc = FreshLocals("none")
  /\ st = [r \in Runs |-> "DISCOVERED"]
  /\ row = [e \in Runs \X Ops |-> "none"]
  /\ leaseRow = 0
  /\ lease = 0
  /\ issue = [state |-> "prior", assignee |-> "none"]
  /\ branch = [r \in Runs |-> NoSha]
  /\ pr = [r \in Runs |-> [state |-> "none", head |-> NoSha]]
  /\ applied = {}
  /\ attended = {}
  /\ cand = [r \in Runs |-> 0]
  /\ proof = [r \in Runs |-> [verified |-> NoSha, ci |-> NoSha, reviewed |-> NoSha,
                           allowed |-> NoSha]]

-----------------------------------------------------------------------------
(* Leaving the body of run *)

\* #advance: persist the state of the current run.
Advance(s) == st' = [st EXCEPT ![run] = s]

\* A mutant: the issue is handed back although a pull request exists.
UnwindTargetIgnoresPr ==
  CASE ~loc.held                    -> "idle"
    [] loc.held /\ ~loc.claimed     -> "final-release"
    [] loc.claimed /\ loc.assigned  -> "restore-assignee"
    [] OTHER                        -> "restore-state"

\* The finally block: a held claim without a pull request is restored first.
UnwindTarget ==
  CASE ~loc.held                                       -> "idle"
    [] loc.held /\ (~loc.claimed \/ loc.opened)        -> "final-release"
    [] loc.held /\ loc.claimed /\ ~loc.opened /\ loc.assigned  -> "restore-assignee"
    [] OTHER                                           -> "restore-state"

\* finish(s) on a path that is not clean, then the finally block.
Unwind(s) ==
  /\ Advance(s)
  /\ pc' = UnwindTarget
  /\ UNCHANGED loc

\* Where the body awaits a call, checks a budget or reads a file and so may
\* throw, outside of an effect.
ThrowPcs == (BodyPcs \ (EffectPcs \cup {"ci-pause", "release"})) \cup
            {"push", "open-pr", "mark-ready", "push-pr-fix"}

\* An error thrown by the body is caught and classified: budget exhaustion
\* needs a human, everything else quarantines; an early return that gives up
\* also needs a human.
BodyThrows ==
  /\ pc \in ThrowPcs
  /\ call = "idle"
  /\ \/ Unwind("QUARANTINED")
     \/ pc \notin {"workspace", "packet"} /\ Unwind("NEEDS_HUMAN")
  /\ UNCHANGED <<cfg, run, call, row, leaseRow, lease, remote, evidence>>

\* A failing effect: in the clean-up it is logged, in the body it quarantines.
EffectThrows ==
  IF pc \in Restores
  THEN pc' = "final-release" /\ UNCHANGED <<st, loc>>
  ELSE Unwind("QUARANTINED")

-----------------------------------------------------------------------------
(* Selection, entry checks and the claim *)

\* pendingSideEffects
Pending == {e \in Runs \X Ops : row[e] \in {"intended", "inFlight", "failed"}}

\* The entry check of run.
NothingInDoubt == Pending = {}

\* The daemon selects the issue (eligible state, no lease row) and run passes
\* its entry checks; a run that finds pending effects changes nothing.
StartRun ==
  /\ pc = "idle"
  /\ run < cfg.runs
  /\ issue.state = "prior"
  /\ leaseRow = 0
  /\ NothingInDoubt
  /\ run' = run + 1
  /\ pc' = "acquire"
  /\ st' = [st EXCEPT ![run + 1] = "ELIGIBILITY_CHECKED"]
  /\ loc' = FreshLocals(issue.assignee)
  /\ UNCHANGED <<cfg, call, row, leaseRow, lease, remote, evidence>>

\* observe stops before the lease, which is the first remote mutation.
Observes ==
  /\ pc = "acquire"
  /\ cfg.autonomy = "observe"
  /\ Advance("COMPLETED")
  /\ pc' = "idle"
  /\ UNCHANGED <<cfg, run, call, loc, row, leaseRow, lease, remote, evidence>>

Acquires ==
  /\ pc = "acquire"
  /\ cfg.autonomy # "observe"
  /\ lease = 0
  /\ lease' = run
  /\ leaseRow' = run
  /\ loc' = [loc EXCEPT !.held = TRUE]
  /\ Advance("CLAIMED")
  /\ pc' = "transition-claim"
  /\ UNCHANGED <<cfg, run, call, row, remote, evidence>>

\* acquire throws; the ref may have been created and its reply lost.
AcquireFails ==
  /\ pc = "acquire"
  /\ cfg.autonomy # "observe"
  /\ \/ Unwind("QUARANTINED") /\ lease' \in (IF lease = 0 THEN {0, run} ELSE {lease})
     \/ Unwind("NEEDS_HUMAN") /\ UNCHANGED lease
  /\ UNCHANGED <<cfg, run, call, row, leaseRow, remote, evidence>>

-----------------------------------------------------------------------------
(* Effects: #withOutbox *)

CurOp == <<pc, IF pc = "push-pr-fix" THEN cand[run] + 1 ELSE 0>>
Current == <<run, CurOp>>

Intend ==
  /\ pc \in EffectPcs
  /\ call = "idle"
  /\ row' = [row EXCEPT ![Current] = "intended"]
  /\ call' = "fence"
  /\ UNCHANGED <<cfg, run, pc, loc, st, leaseRow, lease, remote, evidence>>

FencePasses ==
  /\ call = "fence"
  /\ lease = run
  /\ row' = [row EXCEPT ![Current] = "inFlight"]
  /\ call' = "act"
  /\ UNCHANGED <<cfg, run, pc, loc, st, leaseRow, lease, remote, evidence>>

\* The lease moved, or reading it failed.
FenceRefuses ==
  /\ call = "fence"
  /\ row' = [row EXCEPT ![Current] = "notApplied"]
  /\ call' = "idle"
  /\ EffectThrows
  /\ UNCHANGED <<cfg, run, leaseRow, lease, remote, evidence>>

\* What the remote systems do with effect e, when they accept it: the forge
\* takes a push only as a fast-forward, opens one pull request for a branch,
\* and merges only the head commit the request names.
Land(e) ==
  LET r == e[1]
      op == e[2][1]
      sha == e[2][2]
      SetIssue(f, v) == issue' = [issue EXCEPT ![f] = v] /\ UNCHANGED <<branch, pr>>
      SetHead(h) == /\ branch' = [branch EXCEPT ![r] = h]
                    /\ pr' = [pr EXCEPT ![r].head =
                                IF pr[r].state \in {"draft", "open"} THEN h ELSE @]
                    /\ UNCHANGED issue
      SetPr(s) == /\ pr' = [pr EXCEPT ![r] = [state |-> s, head |-> branch[r]]]
                  /\ UNCHANGED <<issue, branch>>
  IN /\ applied' = applied \cup {e}
     /\ \/ op = "transition-claim" /\ SetIssue("state", "claimed")
        \/ op = "assign-claim" /\ SetIssue("assignee", "bot")
        \/ op = "transition-delivered" /\ SetIssue("state", "delivered")
        \/ op = "transition-complete" /\ SetIssue("state", "completed")
        \/ op = "restore-assignee" /\ SetIssue("assignee", "none")
        \/ op = "restore-state" /\ SetIssue("state", "prior")
        \/ op = "comment-delivered" /\ UNCHANGED <<issue, branch, pr>>
        \/ op = "push" /\ branch[r] = NoSha /\ SetHead(cand[r])
        \/ op = "push-pr-fix" /\ branch[r] = sha - 1 /\ SetHead(sha)
        \/ /\ op = "open-pr"
           /\ branch[r] # NoSha
           /\ pr[r].state = "none"
           /\ SetPr(IF cfg.draft THEN "draft" ELSE "open")
        \/ op = "mark-ready" /\ pr[r].state = "draft" /\ SetPr("open")
        \/ op = "merge" /\ pr[r] = [state |-> "open", head |-> cand[r]] /\ SetPr("merged")

RemoteApplies ==
  /\ call = "act"
  /\ Land(Current)
  /\ call' = "reply"
  /\ UNCHANGED <<cfg, run, pc, loc, st, row, leaseRow, lease, attended, evidence>>

\* The merge is refused and the adapter's second look finds the pull request
\* merged at the expected head, by somebody else or by a lost request.
MergeFoundDone ==
  /\ call = "act"
  /\ pc = "merge"
  /\ pr[run] = [state |-> "merged", head |-> cand[run]]
  /\ applied' = applied \cup {Current}
  /\ call' = "reply"
  /\ UNCHANGED <<cfg, run, pc, loc, st, row, leaseRow, lease, issue, branch, pr,
                 attended, evidence>>

\* Where run goes once an effect is confirmed.
AfterEffect ==
  CASE pc = "transition-claim" ->
         IF cfg.assigns /\ loc.assignee # "bot" THEN "assign-claim" ELSE "workspace"
    [] pc = "assign-claim" -> "workspace"
    [] pc = "push" -> "open-pr"
    [] pc = "open-pr" -> IF cfg.draft THEN "mark-ready" ELSE "head-check"
    [] pc = "mark-ready" -> "head-check"
    [] pc = "push-pr-fix" -> "head-after-fix"
    [] pc = "transition-delivered" -> "comment-delivered"
    [] pc = "merge" -> IF cfg.completes THEN "transition-complete" ELSE "release"
    [] pc \in {"comment-delivered", "transition-complete"} -> "release"
    [] pc = "restore-assignee" -> "restore-state"
    [] pc = "restore-state" -> "final-release"

\* The state persisted after it.
StateAfter ==
  CASE pc = "push" -> "PUSHED"
    [] pc = "open-pr" -> "PR_OPEN"
    [] pc = "merge" -> IF cfg.completes THEN "MERGED" ELSE "BACKLOG_UPDATED"
    [] pc = "transition-complete" -> "BACKLOG_UPDATED"
    [] OTHER -> st[run]

ReplyArrives ==
  /\ call = "reply"
  /\ row' = [row EXCEPT ![Current] = "confirmed"]
  /\ call' = "idle"
  /\ pc' = AfterEffect
  /\ Advance(StateAfter)
  /\ loc' = [loc EXCEPT !.claimed = @ \/ pc = "transition-claim",
                        !.assigned = @ \/ pc = "assign-claim",
                        !.opened = @ \/ pc = "open-pr"]
  /\ cand' = [cand EXCEPT ![run] = IF pc = "push-pr-fix" THEN @ + 1 ELSE @]
  /\ UNCHANGED <<cfg, run, leaseRow, lease, remote, proof>>

\* A mutant: an error is taken to mean that nothing happened.
FailedStatusOptimistic == "notApplied"

\* failSideEffect
FailedStatus == "failed"

\* A refusal, a time-out, or a reply lost after the remote acted.
ActFails ==
  /\ call \in {"act", "reply"}
  /\ row' = [row EXCEPT ![Current] = FailedStatus]
  /\ call' = "idle"
  /\ EffectThrows
  /\ UNCHANGED <<cfg, run, leaseRow, lease, remote, evidence>>

\* BacklogMutationNotStartedError
NotStarted ==
  /\ call = "act"
  /\ pc \in BacklogOps
  /\ row' = [row EXCEPT ![Current] = "notApplied"]
  /\ call' = "idle"
  /\ EffectThrows
  /\ UNCHANGED <<cfg, run, leaseRow, lease, remote, evidence>>

-----------------------------------------------------------------------------
(* Implement, verify, review *)

\* RunBudget.beginInvocation: both the total and the role have room.
CanInvoke(role) ==
  /\ loc.count["total"] < cfg.cap["total"]
  /\ loc.count[role] < cfg.cap[role]

Invoked(role) == [loc.count EXCEPT !["total"] = @ + 1, ![role] = @ + 1]

\* A step of the body that touches neither the outbox nor the remote.
Local == UNCHANGED <<cfg, run, call, row, leaseRow, lease, remote>>

CreateWorkspace ==
  /\ pc = "workspace"
  /\ Advance("WORKSPACE_READY")
  /\ pc' = "packet"
  /\ UNCHANGED <<loc, evidence>> /\ Local

BuildPacket ==
  /\ pc = "packet"
  /\ Advance("TASK_PACKET_READY")
  /\ pc' = "implement"
  /\ UNCHANGED <<loc, evidence>> /\ Local

ImplementRole == IF loc.iter = 0 THEN "implementer" ELSE "fixer"

StartAgent ==
  /\ pc = "implement"
  /\ CanInvoke(ImplementRole)
  /\ Advance(IF loc.iter = 0 THEN "IMPLEMENTING" ELSE "FIXING")
  /\ loc' = [loc EXCEPT !.count = Invoked(ImplementRole)]
  /\ pc' = "agent"
  /\ UNCHANGED evidence /\ Local

\* The agent succeeded; the checkpoint makes a commit if anything changed.
AgentReturns ==
  /\ pc = "agent"
  /\ \E new \in {0, 1} : cand' = [cand EXCEPT ![run] = @ + new]
  /\ Advance("LOCAL_VERIFY")
  /\ pc' = "verify"
  /\ UNCHANGED <<loc, proof>> /\ Local

\* Another iteration, unless this was the last one.
Retry ==
  /\ loc.iter < cfg.fixes
  /\ loc' = [loc EXCEPT !.iter = @ + 1]
  /\ pc' = "implement"

\* What VerificationEngine.run may come to, and whether it is so.
Engine == INSTANCE Verification
Verdicts == {[ready |-> Engine!MergeReady(v), holds |-> Engine!Preserves(v)] : v \in Verifications}
Verified(sha) ==
  \E v \in Verdicts : /\ v.ready
                      /\ proof' = [proof EXCEPT ![run].verified = IF v.holds THEN sha ELSE NoSha]

VerifyPasses ==
  /\ pc = "verify"
  /\ CanInvoke("localReview")
  /\ Verified(cand[run])
  /\ Advance("LOCAL_REVIEW")
  /\ loc' = [loc EXCEPT !.count = Invoked("localReview")]
  /\ pc' = "review"
  /\ UNCHANGED cand /\ Local

VerifyFails ==
  /\ pc = "verify" /\ \E v \in Verdicts : ~v.ready
  /\ Retry
  /\ UNCHANGED <<st, evidence>> /\ Local

\* What a review may come to, and what it says in truth.
Policy == INSTANCE ReviewPolicy
Opinions == {[says |-> Policy!Conclusion(a.review, a.change, a.policy),
              approves |-> Policy!Approves(a.review, a.change, a.policy)] : a \in Assessments}

ReviewPasses ==
  /\ pc = "review" /\ \E o \in Opinions : o.says = "clean"
  /\ Advance("PR_READY")
  /\ pc' = "push"
  /\ UNCHANGED <<loc, evidence>> /\ Local

ReviewBlocks ==
  /\ pc = "review" /\ \E o \in Opinions : o.says = "blocking"
  /\ Retry
  /\ UNCHANGED <<st, evidence>> /\ Local

-----------------------------------------------------------------------------
(* The pull request, CI and the PR review *)

\* #pullRequestAtCandidate: open, and at the exact candidate.
AtCandidate ==
  /\ pr[run].state \in {"draft", "open"}
  /\ pr[run].head = cand[run]

\* A mutant: the CI evidence of the previous commit is kept after a fix.
AfterHeadSkipsCi == IF pc = "head-after-fix" THEN "evidence" ELSE "ci"

AfterHead == "ci"

HeadChecked ==
  /\ pc \in {"head-check", "head-after-fix"}
  /\ AtCandidate
  /\ Advance("CI_WAIT")
  /\ loc' = [loc EXCEPT !.polls = 0]
  /\ pc' = AfterHead
  /\ UNCHANGED evidence /\ Local

\* A mutant: the attempts are not counted.
PolledUncounted == loc.polls

Polled == loc.polls + 1

\* #waitForCi: required contexts are still waiting, and the lease is held.
CiWaits ==
  /\ pc = "ci"
  /\ loc.polls < cfg.polls
  /\ lease = run
  /\ pc' = "ci-pause"
  /\ UNCHANGED <<loc, st, evidence>> /\ Local

CiPolls ==
  /\ pc = "ci-pause"
  /\ loc' = [loc EXCEPT !.polls = Polled]
  /\ pc' = "ci"
  /\ UNCHANGED <<st, evidence>> /\ Local

CiSatisfied ==
  /\ pc = "ci"
  /\ proof' = [proof EXCEPT ![run].ci = cand[run]]
  /\ pc' = "evidence"
  /\ UNCHANGED <<st, loc, cand>> /\ Local

StartPrReview ==
  /\ pc = "evidence"
  /\ loc.attempt < MaxReviews
  /\ AtCandidate
  /\ CanInvoke("prReview")
  /\ Advance("PR_REVIEW")
  /\ loc' = [loc EXCEPT !.count = Invoked("prReview"), !.attempt = @ + 1]
  /\ pc' = "pr-review"
  /\ UNCHANGED evidence /\ Local

PrReviewPasses ==
  /\ pc = "pr-review"
  /\ \E o \in Opinions :
       /\ o.says = "clean"
       /\ proof' = [proof EXCEPT ![run].reviewed = IF o.approves THEN cand[run] ELSE NoSha]
  /\ pc' = "deliver"
  /\ UNCHANGED <<st, loc, cand>> /\ Local

\* Blocking findings: a fixer runs, while the fix budget lasts.
PrReviewBlocks ==
  /\ pc = "pr-review" /\ \E o \in Opinions : o.says = "blocking"
  /\ loc.attempt <= cfg.cap["prFixer"]
  /\ CanInvoke("prFixer")
  /\ Advance("FIXING")
  /\ loc' = [loc EXCEPT !.count = Invoked("prFixer")]
  /\ pc' = "pr-fix"
  /\ UNCHANGED evidence /\ Local

\* The fixer changed something: the checkpoint is the commit after cand.
PrFixReturns ==
  /\ pc = "pr-fix"
  /\ Advance("LOCAL_VERIFY")
  /\ pc' = "reverify"
  /\ UNCHANGED <<loc, evidence>> /\ Local

\* A mutant: the fix is pushed without being verified again.
ReverifySkipped == UNCHANGED proof

RecordReverified == Verified(cand[run] + 1)

ReverifyPasses ==
  /\ pc = "reverify"
  /\ RecordReverified
  /\ pc' = "push-pr-fix"
  /\ UNCHANGED <<st, loc, cand>> /\ Local

-----------------------------------------------------------------------------
(* Delivering or merging *)

DeliverPr ==
  /\ pc = "deliver"
  /\ cfg.autonomy = "pr-only"
  /\ pc' = IF cfg.delivers THEN "transition-delivered" ELSE "comment-delivered"
  /\ UNCHANGED <<st, loc, evidence>> /\ Local

\* evaluateAutomaticMergeRisk on the final diff.
Risks == {[says |-> Policy!MergeRisk(a.policy, a.change),
           sensitive |-> Policy!Sensitive(a.policy, a.change)] : a \in Assessments}

\* The rules or the risk policy require a human approval.
AwaitsApproval ==
  /\ pc = "deliver"
  /\ cfg.autonomy = "merge"
  /\ Unwind("AWAITING_APPROVAL")
  /\ UNCHANGED evidence /\ Local

\* The credential, the rules and the risk policy allow an automatic merge.
MergeAllowed ==
  /\ pc = "deliver"
  /\ cfg.autonomy = "merge"
  /\ \E k \in Risks :
       /\ k.says = "allow"
       /\ proof' = [proof EXCEPT ![run].allowed = IF k.sensitive THEN NoSha ELSE cand[run]]
  /\ Advance("MERGE_READY")
  /\ pc' = "merge-check"
  /\ UNCHANGED <<loc, cand>> /\ Local

\* Fence, head and mergeability once more.
MergeChecked ==
  /\ pc = "merge-check"
  /\ lease = run
  /\ AtCandidate
  /\ pc' = "merge"
  /\ UNCHANGED <<st, loc, evidence>> /\ Local

\* #releaseLease on the clean path: the ref is deleted, the row cleared, and
\* the run finishes.
Releases ==
  /\ pc = "release"
  /\ lease = run
  /\ lease' = 0
  /\ leaseRow' = IF leaseRow = run THEN 0 ELSE leaseRow
  /\ loc' = FreshLocals("none")
  /\ Advance(IF cfg.autonomy = "pr-only" THEN "PR_DELIVERED" ELSE "COMPLETED")
  /\ pc' = "idle"
  /\ UNCHANGED <<cfg, run, call, row, remote, evidence>>

\* A mutant: the error of the release is swallowed and the run finishes.
ReleaseErrorSwallowed ==
  /\ Advance(IF cfg.autonomy = "pr-only" THEN "PR_DELIVERED" ELSE "COMPLETED")
  /\ pc' = "idle"
  /\ UNCHANGED loc

ReleaseError == Unwind("QUARANTINED")

\* release throws, deleted or not; the row is cleared all the same.
ReleaseFails ==
  /\ pc = "release"
  /\ lease' \in (IF lease = run THEN {0, run} ELSE {lease})
  /\ leaseRow' = IF leaseRow = run THEN 0 ELSE leaseRow
  /\ ReleaseError
  /\ UNCHANGED <<cfg, run, call, row, remote, evidence>>

\* The last step of the finally block: errors are swallowed.
FinalRelease ==
  /\ pc = "final-release"
  /\ lease' \in (IF lease = run THEN {0, run} ELSE {lease})
  /\ leaseRow' = IF leaseRow = run THEN 0 ELSE leaseRow
  /\ pc' = "idle"
  /\ loc' = FreshLocals("none")
  /\ UNCHANGED <<cfg, run, call, st, row, remote, evidence>>

-----------------------------------------------------------------------------
(* The environment *)

Alive(r) == r = run /\ pc # "idle"

\* The process dies, and the local variables with it.
Crash ==
  /\ pc # "idle"
  /\ pc' = "idle"
  /\ call' = "idle"
  /\ loc' = FreshLocals("none")
  /\ UNCHANGED <<cfg, run, st, row, leaseRow, lease, remote, evidence>>

\* A request its caller gave up on reaches the remote after all.
LandsLate(e) ==
  /\ e \notin applied
  /\ row[e] = "failed" \/ (row[e] = "inFlight" /\ ~Alive(e[1]))
  /\ Land(e)
  /\ UNCHANGED <<cfg, run, pc, call, loc, st, row, leaseRow, lease, attended, evidence>>

\* Somebody pushes to, closes or merges the pull request of the latest run.
\* (No run looks at the pull request of an earlier one: the branch name holds
\* the attempt number.)
HumanTouchesPr ==
  /\ cfg.rivals
  /\ run > 0
  /\ pr[run].state \in {"draft", "open"}
  /\ \/ /\ pr' = [pr EXCEPT ![run].head = Foreign]
        /\ branch' = [branch EXCEPT ![run] = Foreign]
     \/ pr' = [pr EXCEPT ![run].state = "closed"] /\ UNCHANGED branch
     \/ pr' = [pr EXCEPT ![run].state = "merged"] /\ UNCHANGED branch
  /\ UNCHANGED <<cfg, run, pc, call, loc, st, row, leaseRow, lease, issue, applied, attended,
                 evidence>>

\* The lease passes to another worker, and that worker gives it up.
LeaseMoves ==
  /\ cfg.rivals
  /\ lease' = IF lease = Other THEN 0 ELSE Other
  /\ UNCHANGED <<cfg, run, pc, call, loc, st, row, leaseRow, remote, evidence>>

\* The documented recovery, step by step, once the process is known to be
\* over: `effects resolve`; for an abandoned claim, move the issue back, then
\* delete the ref, then `leases resolve` (which refuses while the ref exists).
OperatorResolves(e) ==
  /\ ~Alive(e[1])
  /\ e \in Pending
  /\ row' = [row EXCEPT ![e] = IF e \in applied THEN "confirmed" ELSE "notApplied"]
  /\ attended' = attended \cup {e[1]}
  /\ UNCHANGED <<cfg, run, pc, call, loc, st, leaseRow, lease, issue, branch, pr, applied,
                 evidence>>

OperatorDeletesRef ==
  /\ pc = "idle"
  /\ issue.state # "claimed"
  /\ lease \in Runs
  /\ lease' = 0
  /\ UNCHANGED <<cfg, run, pc, call, loc, st, row, leaseRow, remote, evidence>>

OperatorResolvesLease ==
  /\ pc = "idle"
  /\ issue.state # "claimed"
  /\ leaseRow # 0
  /\ lease = 0
  /\ leaseRow' = 0
  /\ UNCHANGED <<cfg, run, pc, call, loc, st, row, lease, remote, evidence>>

OperatorRestoresIssue ==
  /\ pc = "idle"
  /\ issue.state = "claimed"
  /\ issue' = [state |-> "prior", assignee |-> "none"]
  /\ attended' = attended \cup {run}
  /\ UNCHANGED <<cfg, run, pc, call, loc, st, row, leaseRow, lease, branch, pr, applied,
                 evidence>>

-----------------------------------------------------------------------------

RunStep ==
  \/ Observes \/ Acquires \/ AcquireFails \/ BodyThrows
  \/ Intend \/ FencePasses \/ FenceRefuses \/ RemoteApplies \/ MergeFoundDone
  \/ ReplyArrives \/ ActFails \/ NotStarted
  \/ CreateWorkspace \/ BuildPacket \/ StartAgent \/ AgentReturns
  \/ VerifyPasses \/ VerifyFails \/ ReviewPasses \/ ReviewBlocks
  \/ HeadChecked \/ CiWaits \/ CiPolls \/ CiSatisfied
  \/ StartPrReview \/ PrReviewPasses \/ PrReviewBlocks \/ PrFixReturns \/ ReverifyPasses
  \/ DeliverPr \/ AwaitsApproval \/ MergeAllowed \/ MergeChecked
  \/ Releases \/ ReleaseFails \/ FinalRelease

Environment ==
  \/ Crash
  \/ LeaseMoves
  \/ OperatorDeletesRef
  \/ OperatorResolvesLease
  \/ OperatorRestoresIssue
  \/ HumanTouchesPr
  \/ \E e \in Runs \X Ops : LandsLate(e) \/ OperatorResolves(e)

Next == StartRun \/ RunStep \/ Environment

Spec == Init /\ [][Next]_vars

\* Every call of a run is bounded by a time-out, so a run that can go on does.
FairSpec == Spec /\ WF_vars(RunStep)

-----------------------------------------------------------------------------
(* Properties *)

\* A commit is merged only with its own evidence: it is the head of the pull
\* request, it lost no test of the base in local verification, passed its own
\* CI, a PR reviewer really approved it and nothing in it is kept for a
\* person, however often the candidate was fixed and whoever touched the
\* branch meanwhile (#runPrReview, expectedHeadSha).
MergedIsVetted ==
  \A r \in Runs :
    <<r, <<"merge", 0>>>> \in applied =>
      /\ pr[r] = [state |-> "merged", head |-> cand[r]]
      /\ proof[r] = [verified |-> cand[r], ci |-> cand[r], reviewed |-> cand[r],
                     allowed |-> cand[r]]

\* A run that ends PR_DELIVERED or COMPLETED has given the lease back in both
\* places, left no effect in doubt, and its pull request exists or was merged:
\* a failure on the way out never looks like a success.
CleanExitIsComplete ==
  \A r \in Runs :
    st[r] \in {"PR_DELIVERED", "COMPLETED"} /\ cfg.autonomy # "observe" =>
      /\ lease # r /\ leaseRow # r
      /\ \A e \in Pending : e[1] # r
      /\ <<r, <<"open-pr", 0>>>> \in applied
      /\ st[r] = "COMPLETED" => <<r, <<"merge", 0>>>> \in applied

\* Runs do not repeat each other's work: once a run has brought a pull request
\* into being, even by a request whose reply was lost or that landed late, a
\* later run opens another only after an operator has looked at the first.
OnePullRequestPerIssue ==
  \A r, q \in Runs :
    r < q /\ pr[r].state # "none" /\ pr[q].state # "none" => r \in attended

\* The runs carry out the outbox protocol.
Outboxes ==
  INSTANCE Outbox WITH
    Runs <- Runs, Ops <- Ops, NoOp <- <<"none", 0>>,
    phase <- [r \in Runs |-> CASE r > run -> "new" [] Alive(r) -> "running" [] OTHER -> "over"],
    call <- [r \in Runs |-> IF r = run THEN call ELSE "idle"],
    cur <- [r \in Runs |-> IF r = run /\ call # "idle" THEN CurOp ELSE <<"none", 0>>]

\* Orchestrator.run implements the outbox: every external mutation follows
\* its protocol, and so inherits what Outbox guarantees.
ImplementsOutbox == Outboxes!Spec

\* Every run ends: the fix, review and polling loops are all bounded.
RunEnds == pc # "idle" ~> pc = "idle"
=============================================================================
