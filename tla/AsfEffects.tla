----------------------------- MODULE AsfEffects -----------------------------
(***************************************************************************)
(* One ASF run from its delivery stages to a terminal phase: the fenced    *)
(* ledgers of the store (src/src/state/store.ts: delivery intents, GitHub  *)
(* effects, reconciliation requests, cancellation, the terminal plan), the *)
(* delivery runner (src/src/asf/delivery-runner.ts) under the worker       *)
(* service (src/src/asf/service.ts), the GitHub effects controller         *)
(* (src/src/asf/github-effects.ts), the reconciliation service             *)
(* (src/src/asf/reconciliation.ts) and the start of the host               *)
(* (src/src/asf/worker-host.ts), over one database and an outside world    *)
(* whose requests are lost or land late.                                   *)
(*                                                                         *)
(* Abstractions.  The ordinary phases are one phase DELIVERING with a      *)
(* position, the stage to do next; a stage has one candidate, so an effect *)
(* key is the position and the event cursor.  FAILED stands for the four   *)
(* stops FAILED, REFUSED, QUARANTINED and BUDGET_EXHAUSTED.  An owner may  *)
(* turn stale at any time, so a claim never waits; each claim takes a new  *)
(* generation, so the generation names the owner.  Digests of equal things *)
(* are equal and of different things different.                            *)
(***************************************************************************)
EXTENDS Integers, FiniteSets

CONSTANTS Hosts,       \* worker processes on the database
          Stages,      \* number of delivery stages
          GitHub,      \* the stages done through the GitHub effects controller
          MaxVersion,  \* bound on events
          MaxGen,      \* bound on ownership generations
          MaxCrashes   \* bound on crashes

ASSUME AsfEffectsAssumption ==
  /\ Stages \in Nat \ {0}
  /\ GitHub \subseteq 1 .. Stages
  /\ {MaxVersion, MaxGen, MaxCrashes} \subseteq Nat

Outcomes == {"pending", "confirmed", "not_applied"}
Open == {"intended", "in_flight", "ambiguous"}
Terminal == {"COMPLETED", "FAILED", "CANCELLED"}
Phases == {"DELIVERING", "BLOCKED_EXTERNAL", "CANCEL_REQUESTED", "CANCELLING"} \cup Terminal
Keys == (1 .. Stages) \X Nat
Effects == ({"delivery-intent"} \X Keys) \cup ({"github-effect"} \X (1 .. Stages))
NoBlock == [on |-> FALSE, set |-> {}, cursor |-> 0, resume |-> "none"]
NoResult == [cursor |-> 0, absent |-> {}]

VARIABLES phase, pos, version, gen, owned,
          resume,     \* resume_phase
          flag,       \* requires_reconciliation
          cancel,     \* mode and origin of the effective cancellation
          block,      \* continuation authority in the latest event
          result,     \* reconciliation result in the latest event
          started,    \* the latest event is cancellation.started
          intents,    \* keys of the recorded delivery intents, with
          outcome,    \* outcome[k]: observation_outcome
          replay,     \* replay[k]: the event whose replay grant was consumed
          github,     \* github[p]: status of the GitHub effect
          plan,       \* terminal evidence plan
          op,         \* the active reconciliation request
          worker,     \* worker[h]: the run's delivery worker on h
          recon,      \* recon[h]: the reconciliation service on h
          up,         \* up[h]: h has started
          crashes,
          inflight,   \* inflight[p]: requests on their way
          applied,    \* applied[p]: how often the outside world applied stage p
          overtaken   \* overtaken[p]: p was found absent with a request to come

runVars == <<phase, pos, version, gen, owned, resume, flag, cancel, block, result, started>>
ledger == <<intents, outcome, replay, github>>
world == <<inflight, applied, overtaken>>
procs == <<worker, recon, up, crashes>>
vars == <<runVars, ledger, plan, op, procs, world>>

Idle == [pc |-> "idle", gen |-> 0, key |-> <<0, 0>>, apply |-> FALSE]
Asleep == [pc |-> "idle", gen |-> 0]

TypeOK ==
  /\ phase \in Phases /\ pos \in 1 .. Stages + 1 /\ version \in Nat /\ gen \in Nat
  /\ owned \in BOOLEAN /\ flag \in BOOLEAN /\ started \in BOOLEAN
  /\ resume \in {"none", "DELIVERING", "CANCELLING", "CANCEL_REQUESTED"}
  /\ cancel \in [mode : {"none", "graceful", "forced"},
                 origin : {"none", "preexisting", "durable-effects", "forced-cancellation-cleanup"}]
  /\ block \in [on : BOOLEAN, set : SUBSET Effects, cursor : Nat,
                resume : {"none", "DELIVERING", "CANCELLING", "CANCEL_REQUESTED"}]
  /\ result \in [cursor : Nat, absent : SUBSET Keys]
  /\ intents \subseteq Keys
  /\ outcome \in [intents -> Outcomes] /\ replay \in [intents -> Nat]
  /\ github \in [GitHub -> Open \cup {"none", "confirmed", "not_applied"}]
  /\ plan \in [status : {"none", "open", "sealed"}, to : Terminal \cup {"none"}]
  /\ op \in [status : {"none", "queued", "running"}, set : SUBSET Effects, gen : Nat]
  /\ worker \in [Hosts -> [pc : {"idle", "running", "invoke", "observe", "begin", "begun",
                                 "sent", "confirm", "advance", "cancelling", "failing",
                                 "planned", "sealed", "done"},
                           gen : Nat, key : (0 .. Stages) \X Nat, apply : BOOLEAN]]
  /\ recon \in [Hosts -> [pc : {"idle", "claimed", "github", "intents", "finish", "blocked",
                                "release"}, gen : Nat]]
  /\ up \in [Hosts -> BOOLEAN] /\ crashes \in Nat
  /\ inflight \in [1 .. Stages -> Nat] /\ applied \in [1 .. Stages -> Nat]
  /\ overtaken \in [1 .. Stages -> BOOLEAN]

Init ==
  /\ phase = "DELIVERING" /\ pos = 1 /\ version = 1 /\ gen = 0
  /\ owned = FALSE /\ flag = FALSE /\ started = FALSE
  /\ resume = "none" /\ cancel = [mode |-> "none", origin |-> "none"]
  /\ block = NoBlock /\ result = NoResult
  /\ intents = {} /\ outcome = <<>> /\ replay = <<>>
  /\ github = [p \in GitHub |-> "none"]
  /\ plan = [status |-> "none", to |-> "none"]
  /\ op = [status |-> "none", set |-> {}, gen |-> 0]
  /\ worker = [h \in Hosts |-> Idle] /\ recon = [h \in Hosts |-> Asleep]
  /\ up = [h \in Hosts |-> FALSE] /\ crashes = 0
  /\ inflight = [p \in 1 .. Stages |-> 0] /\ applied = [p \in 1 .. Stages |-> 0]
  /\ overtaken = [p \in 1 .. Stages |-> FALSE]

-----------------------------------------------------------------------------
(* What the ledgers say. *)

\* Mutant: the query passes over an intent that was reopened for its replay.
OpenIntentsFresh == {k \in intents : outcome[k] = "pending" /\ replay[k] = 0}

OpenIntents == {k \in intents : outcome[k] = "pending"}
OpenGitHub == {p \in GitHub : github[p] \in Open}

\* #canonicalAsfPendingSet, without the cleanup intent of an open plan.
Pending == ({"delivery-intent"} \X OpenIntents) \cup ({"github-effect"} \X OpenGitHub)

\* #asfPendingReconciliationCounts.
NothingPending == Pending = {}

\* discoverPendingAsfReconciliationRuns returns the run.
Discovered == ~NothingPending

Active == op.status # "none"
Fence(h) == owned /\ gen = worker[h].gen
ReconFence(h) == owned /\ gen = recon[h].gen

\* prepareAsfTerminalEffectLedger: every effect of both ledgers is resolved,
\* and every reconciliation is over.
IntentsSettled == OpenIntents = {}
\* Mutant of ReconciliationsSettled: an active request is not looked for.
RequestsIgnored == TRUE
GitHubSettled == OpenGitHub = {}
ReconciliationsSettled == ~Active
LedgersSettled == IntentsSettled /\ GitHubSettled /\ ReconciliationsSettled

\* A forced cancellation may consume the flag it raised itself.
ConsumesForced(to) ==
  /\ to = "CANCELLED"
  /\ cancel = [mode |-> "forced", origin |-> "forced-cancellation-cleanup"]

\* The rows of the plan and of its seal.  A reader derives the ledger again
\* and refuses a plan that it no longer fits.
OpenPlan(to) == [status |-> "open", to |-> to]
SealedPlan == [plan EXCEPT !.status = "sealed"]
PlanUnsealed == plan.status = "open" /\ LedgersSettled
PlanSealed == plan.status = "sealed" /\ LedgersSettled

\* A plan owns the next event: no other transition supersedes it.
PlanAllows(to) == plan.status = "none" \/ to = plan.to

\* The plan is refused unless nothing is left to reconcile.
CanPlan(to) ==
  /\ phase \in IF to = "CANCELLED" THEN {"CANCELLING"} ELSE {"DELIVERING", "CANCELLING"}
  /\ LedgersSettled
  /\ ~flag \/ ConsumesForced(to)

-----------------------------------------------------------------------------
(* Steps that several actions share. *)

\* The stage in hand and its authority last until the stage is over.
InStage == {"invoke", "observe", "begin", "begun", "sent", "confirm"}
Go(h, pc) ==
  worker' = [worker EXCEPT ![h] =
               IF pc \in InStage THEN [worker[h] EXCEPT !.pc = pc]
               ELSE [Idle EXCEPT !.pc = pc, !.gen = worker[h].gen]]
GoRecon(h, pc) == recon' = [recon EXCEPT ![h].pc = pc]
Leave(h) == worker' = [worker EXCEPT ![h] = Idle]

\* A new event: the authority carried by the one before it is gone.
Event(to, continuation, res, isStart) ==
  /\ version < MaxVersion /\ PlanAllows(to)
  /\ phase' = to /\ version' = version + 1
  /\ block' = continuation /\ result' = res /\ started' = isStart

\* What an observer can report of stage p.
Observed(p) == {IF applied[p] > 0 THEN "confirmed" ELSE "not_applied", "ambiguous"}

\* A request for stage p is on its way, or a worker has the authority to make
\* one: the fence was checked when the intent was recorded, and the call
\* itself cannot be fenced.
MayLand(p) == \/ inflight[p] > 0
              \/ \E h \in Hosts :
                   /\ worker[h].key[1] = p
                   /\ \/ worker[h].pc = "begun"
                      \/ worker[h].pc = "invoke" /\ worker[h].apply /\ p \notin GitHub

\* An absence that such a request will belie.
Overtake(absent) ==
  overtaken' = [p \in 1 .. Stages |-> overtaken[p] \/ (p \in absent /\ MayLand(p))]

-----------------------------------------------------------------------------
(* The host: AsfWorkerHost.start and its crash. *)

\* recordAsfReconciliationRequest refuses a second active request, and a run
\* whose terminal plan owns its next event.
Requestable == ~Active /\ plan.status = "none"
Queued(set) == [status |-> "queued", set |-> set, gen |-> 0]

\* recover() asks for a reconciliation of every run with something pending;
\* for a run with an open plan the store refuses, and the start fails.
Start(h) ==
  /\ ~up[h] /\ plan.status # "open"
  /\ up' = [up EXCEPT ![h] = TRUE]
  /\ op' = IF Discovered /\ Requestable THEN Queued(Pending) ELSE op
  /\ UNCHANGED <<runVars, ledger, plan, worker, recon, crashes, world>>

Crash(h) ==
  /\ up[h] /\ crashes < MaxCrashes
  /\ crashes' = crashes + 1
  /\ up' = [up EXCEPT ![h] = FALSE]
  /\ worker' = [worker EXCEPT ![h] = Idle] /\ recon' = [recon EXCEPT ![h] = Asleep]
  /\ UNCHANGED <<runVars, ledger, plan, op, world>>

-----------------------------------------------------------------------------
(* The worker service: claim, release. *)

Claim(h) ==
  /\ up[h] /\ worker[h].pc = "idle" /\ phase \notin Terminal /\ gen < MaxGen
  /\ gen' = gen + 1 /\ owned' = TRUE
  /\ worker' = [worker EXCEPT ![h] = [Idle EXCEPT !.pc = "running", !.gen = gen + 1]]
  /\ UNCHANGED <<phase, pos, version, resume, flag, cancel, block, result, started,
                 ledger, plan, op, recon, up, crashes, world>>

\* The lease is lost, or the runner returned: the service lets go of the run
\* if it still owns it.
Release(h) ==
  /\ \/ worker[h].pc = "done"
     \/ worker[h].pc # "idle" /\ ~Fence(h)
  /\ Leave(h)
  /\ owned' = (owned /\ ~Fence(h))
  /\ UNCHANGED <<phase, pos, version, gen, resume, flag, cancel, block, result, started,
                 ledger, plan, op, recon, up, crashes, world>>

-----------------------------------------------------------------------------
(* The runner: the stages. *)

\* #finishPendingTerminalPlan goes on where the plan is.
FinishPlan(h) == \/ PlanUnsealed /\ Go(h, "planned")
                 \/ PlanSealed /\ Go(h, "sealed")

\* The first decision of run(): a plan is finished first, then a
\* cancellation, and a paused run is left alone.
Resume(h) ==
  /\ worker[h].pc = "running" /\ Fence(h)
  /\ \/ FinishPlan(h)
     \/ plan.status = "none" /\ phase = "BLOCKED_EXTERNAL" /\ Go(h, "done")
     \/ plan.status = "none" /\ phase = "CANCELLING" /\ Go(h, "cancelling")
  /\ UNCHANGED <<runVars, ledger, plan, op, recon, up, crashes, world>>

\* The cursor of the next intent: that of the interrupted event when the
\* latest event resumes it, else the latest event itself.
Cursor == IF result.cursor # 0 THEN result.cursor ELSE version

\* Mutant: an unresolved intent of an earlier owner is handed out again.
DispositionRegrants(k) ==
  IF k \notin intents THEN "created"
  ELSE IF outcome[k] = "confirmed" THEN "existing" ELSE "replay"

\* #authorizedReconciliationIntentCursor: what the result in the latest event
\* says of key k.
Authorized(k) == CASE result.cursor = 0 -> "none"
                   [] result.cursor # 0 /\ k \in result.absent -> "not_applied"
                   [] OTHER -> "confirmed"

\* One not-applied result is worth one replay.
Replay(k) == CASE outcome[k] = "pending" /\ replay[k] = version -> "existing"
               [] outcome[k] = "not_applied" -> "replay"
               [] OTHER -> "refused"

\* #decodeAsfDeliveryIntentRow refuses a row that is resolved and still carries
\* its replay.
Decodes(k) == outcome[k] # "pending" => replay[k] = 0

\* #recordAsfDeliveryIntent: what the store answers for key k.
Disposition(k) ==
  LET a == Authorized(k) IN
  CASE k \notin intents -> IF a = "none" THEN "created" ELSE "refused"
    [] k \in intents /\ ~Decodes(k) -> "refused"
    [] k \in intents /\ Decodes(k) /\ a = "none" -> "existing"
    [] k \in intents /\ Decodes(k) /\ a = "not_applied" -> Replay(k)
    [] k \in intents /\ Decodes(k) /\ a = "confirmed" ->
         IF outcome[k] = "confirmed" THEN "existing" ELSE "refused"

Extend(f, k, v) == [j \in DOMAIN f \cup {k} |-> IF j = k THEN v ELSE f[j]]

\* The row of key k: a new one, or one reopened for its replay.
IntentRow(k, d) ==
  IF d = "existing" THEN UNCHANGED <<intents, outcome, replay>>
  ELSE /\ intents' = intents \cup {k}
       /\ outcome' = Extend(outcome, k, "pending")
       /\ replay' = Extend(replay, k, IF d = "replay" THEN version ELSE 0)

\* #intent: the store creates the intent, returns the one on record, or hands
\* out the one replay that a not-applied result authorises.
RecordIntent(h) ==
  LET k == <<pos, Cursor>>  d == Disposition(k) IN
  /\ worker[h].pc = "running" /\ Fence(h)
  /\ plan.status = "none" /\ phase = "DELIVERING" /\ pos <= Stages
  /\ IF d = "refused"
       THEN Go(h, "failing") /\ UNCHANGED <<intents, outcome, replay>>
       ELSE /\ worker' = [worker EXCEPT ![h].pc = "invoke", ![h].key = k,
                                        ![h].apply = d \in {"created", "replay"}]
            /\ IntentRow(k, d)
  /\ UNCHANGED <<runVars, github, plan, op, recon, up, crashes, world>>

\* A stage controller outside GitHub: it looks first, applies only with the
\* authority to, and fails when it can do neither.
Invoke(h) ==
  LET p == worker[h].key[1] IN
  /\ worker[h].pc = "invoke" /\ p \notin GitHub
  /\ \/ applied[p] > 0 /\ Go(h, "confirm")
     \/ applied[p] = 0 /\ worker[h].apply /\ Go(h, "begun")
     \/ Go(h, "failing")
  /\ UNCHANGED <<runVars, ledger, plan, op, recon, up, crashes, world>>

\* intendAsfEffect, whatever the intent's mode.
Intend(h) ==
  LET p == worker[h].key[1] IN
  /\ worker[h].pc = "invoke" /\ p \in GitHub /\ Fence(h)
  /\ phase = "DELIVERING" /\ plan.status = "none"
  /\ github' = IF github[p] = "none" THEN [github EXCEPT ![p] = "intended"] ELSE github
  /\ Go(h, "observe")
  /\ UNCHANGED <<runVars, intents, outcome, replay, plan, op, recon, up, crashes, world>>

\* recordAsfEffectObservation of the effects DOMAIN o.
RecordObservations(o) ==
  /\ github' = [p \in GitHub |-> IF p \in DOMAIN o THEN o[p] ELSE github[p]]
  /\ flag' = (flag \/ \E p \in DOMAIN o : o[p] = "ambiguous")

\* #observeBranch, #observePullRequest: before the mutation and after it.
Observe(h) ==
  LET p == worker[h].key[1] IN
  /\ worker[h].pc = "observe" \/ (worker[h].pc = "sent" /\ p \in GitHub)
  /\ Fence(h)
  /\ \E o \in Observed(p) :
       /\ RecordObservations([q \in {p} |-> o])
       /\ Go(h, CASE o = "confirmed" -> "confirm"
                  [] o = "not_applied" /\ worker[h].pc = "observe" -> "begin"
                  [] OTHER -> "failing")
       /\ Overtake(IF o = "not_applied" THEN {p} ELSE {})
  /\ UNCHANGED <<phase, pos, version, gen, owned, resume, cancel, block, result, started,
                 intents, outcome, replay, plan, op, recon, up, crashes, inflight, applied>>

\* beginAsfEffect.
Begin(h) ==
  LET p == worker[h].key[1] IN
  /\ worker[h].pc = "begin" /\ Fence(h)
  /\ phase = "DELIVERING" /\ plan.status = "none"
  /\ IF github[p] \in {"intended", "not_applied"}
       THEN github' = [github EXCEPT ![p] = "in_flight"] /\ Go(h, "begun")
       ELSE github' = github /\ Go(h, "failing")
  /\ UNCHANGED <<runVars, intents, outcome, replay, plan, op, recon, up, crashes, world>>

\* The request leaves; nothing can fence it any more.
Send(h) ==
  /\ worker[h].pc = "begun"
  /\ inflight' = [inflight EXCEPT ![worker[h].key[1]] = @ + 1]
  /\ Go(h, "sent")
  /\ UNCHANGED <<runVars, ledger, plan, op, recon, up, crashes, applied, overtaken>>

\* Mutant: no answer counts as success.
ReplyTrustsSilence(h) ==
  /\ worker[h].pc = "sent" /\ worker[h].key[1] \notin GitHub
  /\ Go(h, "confirm")
  /\ UNCHANGED <<runVars, ledger, plan, op, recon, up, crashes, world>>

\* The answer of a stage controller outside GitHub, or no answer.
Reply(h) ==
  LET p == worker[h].key[1] IN
  /\ worker[h].pc = "sent" /\ p \notin GitHub
  /\ \/ applied[p] > 0 /\ Go(h, "confirm")
     \/ Go(h, "failing")
  /\ UNCHANGED <<runVars, ledger, plan, op, recon, up, crashes, world>>

\* An observation of the intents DOMAIN o is recorded; one that decides ends
\* the replay too.
ResolveIntents(o) ==
  LET decided == {k \in DOMAIN o : o[k] # "ambiguous"}
  IN /\ outcome' = [k \in intents |-> IF k \in decided THEN o[k] ELSE outcome[k]]
     /\ replay' = [k \in intents |-> IF k \in decided THEN 0 ELSE replay[k]]

\* #confirmAsfDeliveryIntent: refused for an intent another observation has
\* resolved; the observation of a confirmed one may be the same or not.
Confirm(h) ==
  LET k == worker[h].key IN
  /\ worker[h].pc = "confirm" /\ Fence(h) /\ phase = "DELIVERING"
  /\ \/ /\ outcome[k] = "pending"
        /\ ResolveIntents([j \in {k} |-> "confirmed"])
        /\ Go(h, "advance")
     \/ outcome[k] = "confirmed" /\ Go(h, "advance") /\ UNCHANGED <<outcome, replay>>
     \/ outcome[k] # "pending" /\ Go(h, "failing") /\ UNCHANGED <<outcome, replay>>
  /\ UNCHANGED <<runVars, intents, github, plan, op, recon, up, crashes, world>>

\* #transitionWithCheckpoint to the phase of the next stage.
Advance(h) ==
  /\ worker[h].pc = "advance" /\ Fence(h) /\ phase = "DELIVERING"
  /\ Event("DELIVERING", NoBlock, NoResult, FALSE)
  /\ pos' = pos + 1
  /\ worker' = [worker EXCEPT ![h] = [Idle EXCEPT !.pc = "running", !.gen = gen]]
  /\ UNCHANGED <<gen, owned, resume, flag, cancel, ledger, plan, op, recon, up, crashes, world>>

\* A stage outside GitHub stops the run in BLOCKED_EXTERNAL with a code that
\* carries no automatic continuation.
Pause(h) ==
  /\ worker[h].pc = "invoke" /\ worker[h].key[1] \notin GitHub
  /\ Fence(h) /\ phase = "DELIVERING"
  /\ Event("BLOCKED_EXTERNAL", NoBlock, NoResult, FALSE)
  /\ resume' = IF resume = "none" THEN phase ELSE resume
  /\ Go(h, "done")
  /\ UNCHANGED <<pos, gen, owned, flag, cancel, ledger, plan, op, recon, up, crashes, world>>

\* Recovery, a budget or a controller refuses before the stage begins.
Fail(h) ==
  /\ worker[h].pc = "running" /\ Fence(h) /\ plan.status = "none" /\ phase = "DELIVERING"
  /\ Go(h, "failing")
  /\ UNCHANGED <<runVars, ledger, plan, op, recon, up, crashes, world>>

-----------------------------------------------------------------------------
(* The runner: stops, the terminal plan, cancellation. *)

\* The cleanup intent and the plan are recorded together.
RecordPlan(h) ==
  /\ plan.status = "none" /\ Fence(h)
  /\ \E to \in Terminal :
       /\ CASE to = "COMPLETED" -> worker[h].pc = "running" /\ pos > Stages
            [] to = "CANCELLED" -> worker[h].pc = "cancelling"
            [] to = "FAILED" -> worker[h].pc = "failing"
       /\ CanPlan(to)
       /\ plan' = OpenPlan(to)
  /\ Go(h, "planned")
  /\ UNCHANGED <<runVars, ledger, op, recon, up, crashes, world>>

\* sealAsfTerminalEvidenceIntent: nothing is left, and a flag that is still up
\* is the one of a forced cancellation.
Sealable == /\ PlanUnsealed /\ NothingPending
            /\ flag => plan.to = "CANCELLED" /\ phase = "CANCELLING"

\* #performTerminalCleanup, once the cleanup is observed.
Seal(h) ==
  /\ worker[h].pc = "planned" /\ Fence(h) /\ Sealable
  /\ plan' = SealedPlan
  /\ flag' = FALSE
  /\ Go(h, "sealed")
  /\ UNCHANGED <<phase, pos, version, gen, owned, resume, cancel, block, result, started,
                 ledger, op, recon, up, crashes, world>>

\* The cleanup or the evidence fails: released, and retried later.
RetryPlan(h) ==
  /\ worker[h].pc \in {"planned", "sealed"} /\ Fence(h)
  /\ owned' = FALSE /\ Leave(h)
  /\ UNCHANGED <<phase, pos, version, gen, resume, flag, cancel, block, result, started,
                 ledger, plan, op, recon, up, crashes, world>>

\* The terminal transition.
Terminate(h) ==
  /\ worker[h].pc = "sealed" /\ Fence(h) /\ Pending = {}
  /\ Event(plan.to, NoBlock, NoResult, FALSE)
  /\ Go(h, "done")
  /\ UNCHANGED <<pos, gen, owned, resume, flag, cancel, ledger, plan, op, recon, up,
                 crashes, world>>

CancelStart(h) ==
  /\ worker[h].pc = "running" /\ Fence(h) /\ plan.status = "none"
  /\ phase = "CANCEL_REQUESTED"
  /\ Event("CANCELLING", NoBlock, NoResult, TRUE)
  /\ Go(h, "cancelling")
  /\ UNCHANGED <<pos, gen, owned, resume, flag, cancel, ledger, plan, op, recon, up,
                 crashes, world>>

\* The event cursors of the unresolved delivery intents.
OpenCursors == {k[2] : k \in OpenIntents}

\* CLEANUP_RECONCILIATION_REQUIRED when a cancellation has just started, else
\* INTERNAL_WORKER_RECONCILIATION_REQUIRED from the service.
Continuation ==
  IF Pending = {} THEN NoBlock
  ELSE IF phase = "CANCELLING" /\ started
    THEN [on |-> TRUE, set |-> Pending, cursor |-> version, resume |-> "CANCELLING"]
  ELSE IF Cardinality(OpenCursors) = 1
    THEN [on |-> TRUE, set |-> Pending, cursor |-> CHOOSE c \in OpenCursors : TRUE,
          resume |-> phase]
  ELSE NoBlock

\* No plan can be recorded: the run is blocked, with the continuation that
\* its unresolved effects allow.
Block(h) ==
  LET c == Continuation IN
  /\ plan.status = "none" /\ Fence(h)
  /\ \/ worker[h].pc = "failing" /\ ~CanPlan("FAILED")
     \/ worker[h].pc = "cancelling" /\ ~CanPlan("CANCELLED")
     \/ worker[h].pc = "running" /\ pos > Stages /\ phase = "DELIVERING" /\ ~CanPlan("COMPLETED")
  /\ Event("BLOCKED_EXTERNAL", c, NoResult, FALSE)
  /\ flag' = (flag \/ c.on)
  /\ resume' = IF c.on /\ started /\ phase = "CANCELLING" THEN "CANCELLING"
               ELSE IF resume = "none" THEN phase ELSE resume
  /\ Go(h, "done")
  /\ UNCHANGED <<pos, gen, owned, cancel, ledger, plan, op, recon, up, crashes, world>>

\* Mutant: a blocked run is cancelled when its block ends.
CancelInPlace(mode) ==
  /\ \E h \in Hosts : up[h]
  /\ phase \notin Terminal /\ plan.status = "none" /\ gen < MaxGen
  /\ phase \in {"CANCEL_REQUESTED", "CANCELLING"} =>
       cancel.mode = "graceful" /\ mode = "forced"
  /\ IF phase = "BLOCKED_EXTERNAL" THEN Event(phase, block, NoResult, FALSE)
     ELSE Event("CANCEL_REQUESTED", NoBlock, NoResult, FALSE)
  /\ gen' = gen + 1 /\ owned' = FALSE
  /\ resume' = IF resume = "none" THEN phase ELSE resume
  /\ cancel' = [mode |-> mode, origin |-> "none"]
  /\ UNCHANGED <<pos, flag, ledger, plan, op, procs, world>>

\* reconciliation_origin: why the cancelled run has something to reconcile.
Origin(mode) == CASE flag -> "preexisting"
                  [] ~flag /\ Pending # {} -> "durable-effects"
                  [] ~flag /\ Pending = {} /\ mode = "forced" -> "forced-cancellation-cleanup"
                  [] OTHER -> "none"

\* A second cancellation only turns a graceful one into a forced one.
Cancellable(mode) ==
  /\ phase \notin Terminal /\ plan.status = "none"
  /\ phase \in {"CANCEL_REQUESTED", "CANCELLING"} =>
       cancel.mode = "graceful" /\ mode = "forced"

\* requestAsfCancellation.
Cancel(mode) ==
  /\ \E h \in Hosts : up[h]
  /\ Cancellable(mode) /\ gen < MaxGen
  /\ Event("CANCEL_REQUESTED", NoBlock, NoResult, FALSE)
  /\ gen' = gen + 1 /\ owned' = FALSE
  /\ resume' = IF resume = "none" THEN phase ELSE resume
  /\ flag' = (flag \/ Origin(mode) # "none")
  /\ cancel' = [mode |-> mode, origin |-> Origin(mode)]
  /\ UNCHANGED <<pos, ledger, plan, op, procs, world>>

-----------------------------------------------------------------------------
(* The reconciliation service. *)

\* recordAsfReconciliationRequest, from the periodic recovery or a controller.
Request(h) ==
  /\ up[h] /\ Discovered /\ Requestable
  /\ op' = Queued(Pending)
  /\ UNCHANGED <<runVars, ledger, plan, procs, world>>

\* claimAsfReconciliation.
ReconClaim(h) ==
  /\ up[h] /\ recon[h].pc = "idle" /\ Active /\ plan.status = "none" /\ gen < MaxGen
  /\ gen' = gen + 1 /\ owned' = TRUE
  /\ op' = [op EXCEPT !.status = "running", !.gen = gen + 1]
  /\ recon' = [recon EXCEPT ![h] = [pc |-> "claimed", gen |-> gen + 1]]
  /\ UNCHANGED <<phase, pos, version, resume, flag, cancel, block, result, started,
                 ledger, plan, worker, up, crashes, world>>

\* recoverResolvedAsfReconciliationResult: a set that was resolved before a
\* crash is read back from the ledgers.
Recovered == Pending = {}

\* #pump: the set on record must still be the pending one.
ReconStart(h) ==
  /\ recon[h].pc = "claimed"
  /\ GoRecon(h, CASE Recovered -> "finish"
                  [] ~Recovered /\ Pending = op.set -> "github"
                  [] OTHER -> "blocked")
  /\ UNCHANGED <<runVars, ledger, plan, op, worker, up, crashes, world>>

\* reconcilePending of the GitHub effects: each open one is observed and its
\* outcome recorded.
ObservePending(o) ==
  /\ \A p \in OpenGitHub : o[p] \in Observed(p)
  /\ RecordObservations(o)
  /\ Overtake({p \in OpenGitHub : o[p] = "not_applied"})

\* The composite observer asks for the GitHub effects of the set first; an
\* observation that fails ends the operation.
ReconGitHub(h) ==
  /\ recon[h].pc = "github"
  /\ OpenGitHub # {} => ReconFence(h)
  /\ \E o \in [OpenGitHub -> {"confirmed", "not_applied", "ambiguous"}] :
       /\ ObservePending(o)
       /\ \/ GoRecon(h, "intents")
          \/ (\E p \in OpenGitHub : o[p] = "ambiguous") /\ GoRecon(h, "blocked")
  /\ UNCHANGED <<phase, pos, version, gen, owned, resume, cancel, block, result, started,
                 intents, outcome, replay, plan, op, worker, up, crashes, inflight, applied>>

\* #validateAsfReconciliationResult: the effects of one class that a result
\* must be about, those of the set on record.
Expected(class) == {e[2] : e \in {x \in op.set : x[1] = class}}

\* The delivery intents of the set, provided the pending set is unchanged.
ReconIntents(h) ==
  LET open == OpenIntents
      mine == Expected("delivery-intent") IN
  /\ recon[h].pc = "intents" /\ ReconFence(h)
  /\ IF mine # {} /\ Pending # op.set
       THEN GoRecon(h, "blocked") /\ UNCHANGED <<outcome, replay, overtaken>>
       ELSE \E o \in [open -> {"confirmed", "not_applied", "ambiguous"}] :
              /\ \A k \in open : o[k] \in Observed(k[1])
              /\ ResolveIntents(o)
              /\ Overtake({k[1] : k \in {j \in open : o[j] = "not_applied"}})
              /\ GoRecon(h, IF \E k \in open : o[k] = "ambiguous" THEN "blocked" ELSE "finish")
  /\ UNCHANGED <<runVars, intents, github, plan, op, worker, up, crashes, inflight, applied>>

NoOp == [status |-> "none", set |-> {}, gen |-> 0]

\* #resumeResolvedAsfReconciliation applies to a blocked run that carries a
\* continuation, and throws unless it is bound to this very set and phase.
Resumable == phase = "BLOCKED_EXTERNAL" /\ block.on
ExactSet == block.set = op.set
ExactPhase == block.resume = resume
ExactContinuation == ExactSet /\ ExactPhase

\* #validateAsfReconciliationResult: the outcomes are those of the ledgers.
Absent == {k \in Expected("delivery-intent") : outcome[k] = "not_applied"}

\* The result that the resuming event carries.
Resumption == [cursor |-> IF block.resume = "CANCELLING" THEN 0 ELSE block.cursor,
               absent |-> Absent]

\* finishAsfReconciliation with everything resolved.
ReconFinish(h) ==
  /\ recon[h].pc = "finish" /\ ReconFence(h)
  /\ op.status = "running" /\ op.gen = recon[h].gen /\ plan.status = "none"
  /\ \/ /\ Pending = {} /\ Resumable /\ ExactContinuation
        /\ Event(block.resume, NoBlock, Resumption, FALSE)
        /\ resume' = "none" /\ flag' = FALSE /\ op' = NoOp /\ GoRecon(h, "release")
     \/ /\ Pending = {} /\ ~Resumable
        /\ flag' = FALSE /\ op' = NoOp /\ GoRecon(h, "release")
        /\ UNCHANGED <<phase, version, resume, block, result, started>>
     \/ /\ Pending # {} \/ (Resumable /\ ~ExactContinuation)
        /\ GoRecon(h, "blocked")
        /\ UNCHANGED <<phase, version, resume, flag, block, result, started, op>>
  /\ UNCHANGED <<pos, gen, owned, cancel, ledger, plan, worker, up, crashes, world>>

\* finishAsfReconciliation with status blocked.
ReconBlock(h) ==
  /\ recon[h].pc = "blocked" /\ ReconFence(h)
  /\ op.status = "running" /\ op.gen = recon[h].gen /\ plan.status = "none"
  /\ op' = NoOp /\ flag' = TRUE /\ GoRecon(h, "release")
  /\ UNCHANGED <<phase, pos, version, gen, owned, resume, cancel, block, result, started,
                 ledger, plan, worker, up, crashes, world>>

\* The run is released; an operation that lost its fence is left to the next.
ReconRelease(h) ==
  /\ \/ recon[h].pc = "release"
     \/ recon[h].pc # "idle" /\ ~ReconFence(h)
  /\ recon' = [recon EXCEPT ![h] = Asleep]
  /\ owned' = (owned /\ ~ReconFence(h))
  /\ UNCHANGED <<phase, pos, version, gen, resume, flag, cancel, block, result, started,
                 ledger, plan, op, worker, up, crashes, world>>

-----------------------------------------------------------------------------
(* The outside world: a request lands once, or never.  A branch push and a *)
(* pull request are idempotent there, another stage is done once more.     *)

Land(p) ==
  /\ inflight[p] > 0
  /\ inflight' = [inflight EXCEPT ![p] = @ - 1]
  /\ applied' = [applied EXCEPT ![p] = IF p \in GitHub THEN 1 ELSE @ + 1]
  /\ UNCHANGED <<runVars, ledger, plan, op, procs, overtaken>>

Lose(p) ==
  /\ inflight[p] > 0
  /\ inflight' = [inflight EXCEPT ![p] = @ - 1]
  /\ UNCHANGED <<runVars, ledger, plan, op, procs, applied, overtaken>>

-----------------------------------------------------------------------------
WorkerStep(h) ==
  \/ Claim(h) \/ Release(h) \/ Resume(h) \/ RecordIntent(h) \/ Invoke(h) \/ Intend(h)
  \/ Observe(h) \/ Begin(h) \/ Send(h) \/ Reply(h) \/ Confirm(h) \/ Advance(h)
  \/ Pause(h) \/ Fail(h) \/ RecordPlan(h) \/ Seal(h) \/ RetryPlan(h) \/ Terminate(h)
  \/ CancelStart(h) \/ Block(h)

ReconStep(h) ==
  \/ Request(h) \/ ReconClaim(h) \/ ReconStart(h) \/ ReconGitHub(h) \/ ReconIntents(h)
  \/ ReconFinish(h) \/ ReconBlock(h) \/ ReconRelease(h)

Next ==
  \/ \E h \in Hosts : Start(h) \/ Crash(h) \/ WorkerStep(h) \/ ReconStep(h)
  \/ \E mode \in {"graceful", "forced"} : Cancel(mode)
  \/ \E p \in 1 .. Stages : Land(p) \/ Lose(p)

Spec == Init /\ [][Next]_vars

-----------------------------------------------------------------------------
(* Properties. *)

\* A stage with no idempotence of its own is applied twice only when a
\* request, or the authority for one, outlived an observation that found the
\* stage absent: no other takeover, replay or pair of workers applies it again.
AppliedOnce == \A p \in (1 .. Stages) \ GitHub : applied[p] <= 1 \/ overtaken[p]

\* The run moves past a stage only when the outside world has applied it,
\* through whichever of reply, takeover, reconciliation and replay.
AdvancedMeansApplied == \A p \in 1 .. Stages : p < pos => applied[p] > 0

\* A terminal run has nothing left to reconcile: no unresolved effect, no
\* active request, no flag, and its cleanup is sealed.
TerminalIsSettled ==
  phase \in Terminal => Pending = {} /\ ~Active /\ ~flag /\ plan.status = "sealed"

\* Nothing lands after the end of the run that no observation overtook: not
\* from the owner that ended it, and not from one it took over from.
NothingLandsAfterTheEnd ==
  phase \in Terminal => \A p \in 1 .. Stages : MayLand(p) => overtaken[p]

\* Once cancelled, a run never returns to its delivery stages, although it
\* may be blocked and resumed by a reconciliation.
CancellationSticks == cancel.mode # "none" => phase # "DELIVERING"
=============================================================================
