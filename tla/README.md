# A TLA+ model of Runmill

Runmill takes issues from a backlog, has coding agents implement them, and
delivers the result as pull requests. It runs in two modes: the *standalone*
mode (`runmill run`, `runmill daemon`; a lease on a git ref, an outbox of side
effects) and the *ASF worker* mode (work orders admitted over an authenticated
control plane; a database of runs, owned and fenced by generation, with ledgers
of every external effect). This directory models both, checks small instances
with TLC and proves the main safety properties with TLAPS. Paths below are
relative to the repository (`src/` in the paths of `PROJECT.json`).

## 1. Inventory

### Standalone mode

| Component | State it keeps | Operations | Interacts with |
|---|---|---|---|
| Git-ref lease (`src/queue/git-lease.ts`) | one remote ref per issue, pointing at an orphan commit that holds the record (run, generation, expiry, prior state) | `acquire`, `heartbeat`, `assertHeld`, `takeover`, `release` | fence of every mutation of the orchestrator |
| Outbox (`#withOutbox` in `src/orchestrator/orchestrator.ts`, `side_effects` in `src/state/store.ts`) | a row per effect: intended, in flight, confirmed, failed, not applied | record, fence, act, close; `effects resolve` | every effect on backlog and forge; entry check of a run |
| Orchestrator (`src/orchestrator/orchestrator.ts`) | run row, lease row, branch, pull request, candidate commit and its evidence, invocation budgets | select, claim, implement, verify, review, push, PR, CI, PR review, merge, restore, release | all of the above and below |
| Verification engine (`src/verification/`) | none that outlives a run of it | resolve the manifest, execute a check at base and candidate, validate its report, compare inventories | orchestrator (verdict) |
| Review verdicts and risk policy (`src/review/schema.ts`, `src/orchestrator/risk-policy.ts`) | none | parse, cross-check, blocking findings, automatic-merge decision | orchestrator (verdict) |
| CI wait (`#waitForCi`, `src/pr/reconcile.ts`) | deadline, attempts, verdict per required context | poll, reconcile, pause, give up | forge, lease |
| Daemon (`src/orchestrator/daemon.ts`, `src/daemon/control.ts`) | breaker counters in memory and in the store, daily ledger, registry file | start, register, loop, record, trip, stop | orchestrator, store |
| Eligibility, CLI agents, workspaces | none that outlives a step | classify, execute | orchestrator (as verdicts) |

### ASF worker mode

| Component | State it keeps | Operations | Interacts with |
|---|---|---|---|
| Worker service and host (`src/asf/service.ts`, `worker-host.ts`, store) | queue, slots, timers; owner, generation, heartbeat of each run | submit, pump, claim, heartbeat, lose, release, cancel, stop | fence of every ledger write |
| Delivery runner (`src/asf/delivery-runner.ts`) | position, candidate, interrupted cursor | the stages, stops, terminal plan, cancellation | intents, controllers, store |
| Life cycle, gates, approvals, checkpoints (`src/asf/run-event.ts`, `approval.ts`, `checkpoint-policy.ts`, `recovery-controller.ts`, store) | phase, candidate, gate verdicts, checkpoints, approvals | transition, approve, recover | runner |
| CI controller (`src/asf/github-ci-controller.ts`) | none | list, check, reduce to one outcome | GitHub, runner |
| Delivery intents (store, `src/asf/state-delivery-intent-store.ts`) | intent per stage and event cursor, outcome, consumed replay | record, confirm, resolve | runner, reconciliation |
| GitHub effects (`src/asf/github-effects.ts`, store) | status per effect | intend, observe, begin, observe | GitHub, reconciliation |
| Reconciliation (`src/asf/reconciliation.ts`, store) | one active request per run, its pending set | request, claim, observe, finish, resume | both ledgers, the run's continuation |
| Cancellation and terminal plan (store, `src/asf/cancellation.ts`) | mode and origin; plan, seal | request, plan, seal, finish | runner, reconciliation |
| Evidence (`src/asf/evidence-finalizer.ts`, `src/evidence/`) | artifacts by digest, delivery and terminal bundle, compaction mark | put, record, sign, finalize, compact | runner, service |
| Budget (`src/asf/budget.ts`, store) | reservations and settlements | reserve, complete, settle, deny | runner, reconciliation |
| Identity (`src/asf/identity-lifecycle.ts`, `src/identity/`) | leases in memory, sealed registry with pending operations | acquire, renew, hand over, revoke, clean up | ctxlane broker |
| Trusted harness and tool gateway (`src/agent/trusted-harness.ts`, `tool-gateway.ts`) | calls, events, resumable sessions | execute, invoke a tool, cancel, drain, resume | provider transport, sandbox, fence |
| Admission, control plane, health (`src/asf/work-order.ts`, `control.ts`, `src/mcp/asf-server.ts`, ...) | none of their own | validate, dispatch, report | service |

### What is hard here

* Two processes act on one record with a read and a later write (lease takeover
  against heartbeat; breaker counters; ASF takeover against a suspended owner;
  two puts of one artifact).
* A request is applied and its reply is lost, or lands after its caller gave
  up, died or was superseded. Neither "failed" nor "absent" is final.
* A process dies between writing an intent, acting, and recording the outcome;
  recovery must neither repeat nor forget the act. This shape occurs five times:
  outbox, delivery intents, budget reservations, identity leases, evidence.
* A value is checked and then used after an await: the candidate commit, the
  owner of the lease, the fence of a tool call, the pending set of a
  reconciliation.
* Timers, cancellations and answers race in one process and must end it once,
  with nothing left running and nobody left waiting.
* Several bounds end one loop, and several ledgers describe one effect.

`PROJECT.json` lists each of these hazards at its line with the properties that
guard it, and with a note where the code leaves a window open.

### What makes each component correct

* Lease: nobody takes a live lease; a run that lost the lease never passes the
  fence again; what must be restored survives takeovers; a release deletes only
  its own lease.
* Outbox: the store never misstates the remote; what is closed stays closed.
* Orchestrator, verification, review, risk: what is merged is the head that lost
  no test of the base, passed CI, was approved and may go without a person; a
  clean exit is complete; no second pull request unseen; every run ends.
* CI wait: a pass is proven on the candidate; the wait does not give up early.
* Daemon: an open breaker stays open and counters never roll back across stale
  processes; a bounded number of late runs; a bounded overshoot of the cap.
* ASF effects: no stage applied twice by takeover or replay; no advance past a
  stage that was not applied; nothing lands after the end; a cancelled run stays
  cancelled; a terminal run has nothing left to reconcile.
* ASF life cycle: what is delivered was vetted as that commit; runner and store
  agree on every event; an owner works with leases of its own; only an approval
  of what was asked resumes a run; every run ends or waits for a person.
* Service: no wake-up is lost; who lost a run learns of it; runs settle.
* Budget: nothing is bought twice; the spend stays within what was admitted.
* Identity: no live lease is unknown; no two generations hold leases together; a
  cleanup that succeeds leaves none.
* Evidence: a retry finds its own bundle; the views are consistent; the owner
  keeps the history it signs; what is recorded can be audited.
* Harness: an invocation ends, with nothing running and every tool accounted for.

## 2. Modules and how they correspond to the code

### Standalone mode

**`GitLease`** models one ref. A call of the lease is split at its remote
operations, so an acquire, its diagnosis, a renewal, a takeover and a release
interleave with those of other runs, replies get lost and processes die. The
object id of a lease commit is a function of its record, so compare-and-swap on
the object is equality of records. `lost` is a history variable.

**`Outbox`** models `#withOutbox` over the `side_effects` table for several runs
that share a store. `applied` is the ground truth on the remote; a request can
land while its row is in flight or failed. It is also the abstract
specification that `Delivery` implements.

**`Verification`** has the engine as operators: which checks make up the
manifest, when a report proves anything (per format), what may differ between the
tests at the base and at the candidate, and the verdict. A report is its list of
tests with a flag for well-formedness; the manifest is resolved as the
orchestrator does it, from the configured checks alone. `Preserves` is the
reference: what a passing verdict is taken to mean.

**`ReviewPolicy`** has parsing and cross-checking of a review, the findings that
block, and the automatic-merge decision. A path rule is the set of paths it
stands for, or invalid. `Approves` and `Sensitive` are the references.

**`Delivery`** models `Orchestrator.run` and `#runPrReview`: a step ends where
the code awaits, `pc` is named for what the run does next, and an effect is the
four steps intend, fence, act, reply of the outbox. What checks and reviewers
report, and what the change and the policy are, is a choice from the constants
`Verifications` and `Assessments`; what the orchestrator makes of it is computed
by the two modules above, and `proof` records what is true of it. The environment
amends, closes or merges the pull request, takes the lease, and carries out the
documented manual recovery. Limits and interference are fields of the
configuration. `ImplementsOutbox` is the refinement: the mapping gives each run
its outbox phase, call and operation.

**`CiWait`** models the wait, with the forge's check-runs and commit statuses
read by two requests at two moments while CI schedules, completes and re-runs
checks on the candidate and on other commits. `Delivery` uses its result as a
verdict (`CiSatisfied`, `CiWaits`).

**`Daemon`** models the loop, the breakers, their durable snapshot, the daily
ledger, registration and stop requests of several processes over one database.

### ASF worker mode

One module per question about a run; each names the parts the others have.

**`AsfEffects`** models one run on several hosts: claim and takeover, the
runner's stages with their delivery intents, the GitHub effects and their
ledger, replay of an intent found not applied, blocking with a continuation,
reconciliation in its code order (GitHub effects, then intents, then finish),
cancellation, the terminal plan and its seal, host start and crash, and requests
that land late or never. The ordinary phases are one phase with a position; an
owner can turn stale at any time, so a claim never waits; the generation names
the owner. `overtaken` is a history variable: an observation found a stage absent
while a request for it could still be made, which no fence can prevent.

**`AsfPolicy`** has the tables and pure decisions of the life cycle: the phases
and which event leads where, the policy of every checkpoint kind and the recovery
decision. **`AsfCi`** has the CI controller: rows of check runs and commit
statuses, the consistency of a listing that was read page by page, the reduction
of all rows of a context to one outcome; `Green` is its reference. **`AsfRun`**
uses both: the runner drives candidates through checks, reviews, push, CI and
delivery; the store accepts an event only with its gates and its atomic
checkpoint (`refused` records when it would not); a new owner recovers from the
latest checkpoint; people approve; GitHub's listings are the constant `Listings`.
`seen` is a history variable with what really happened to each candidate.
The claim and the checkpoint of admission are one transaction, so a claim of a
run with a checkpoint is a takeover.

**`AsfService`** models the worker service in several processes over several
runs: the queue, the pump, claims with the exclusion per repository, heartbeats,
loss, cancellation, delayed wake-ups, store errors, stop, crash and restart. A
process is one thread, so an action is one uninterrupted stretch of it.

**`AsfBudget`** models the provider ledger of a run: an owner reserves all that
is left, calls, and replaces the reservation by the reported cost, rounded to
micro-dollars; what nobody can account for is charged in full at reconciliation.

**`AsfIdentity`** models the leases for the roles of a run: acquisition and
renewal role by role, revocation lease by lease, each broker call between two
writes of the sealed registry, recovery, and the handover to the next generation.
`#explicitRevoke` goes one of two ways. A cleanup that finds no acquisition under
way reads the lineage (`Cleanable`) and loads a session of its own (`Cleanup`), which
takes the place in the maps; or it is refused and denies the session that is there
(`CleanupRefused`). One that comes during an acquisition denies it, waits for its end
(`DenyAcquisition`) and goes on with the session in memory, without the lineage and
the comparison (`CleanupContinues`); both end in the same pass over the leases. What
still renews or revokes on a session that was replaced goes on, so a host has two
places for sessions (`Holders`), and a detached one writes under the same generation
until the comparison of revisions stops it. A session that is behind what is sealed
and has no call at the broker (`Spent`) can do nothing more and gives up its place.

What the controller reads and decides between two waits for the registry's writes or
the broker is one step: the lineage a cleanup reads is the one it acts on. Using the
session again that is already in memory (`#reuseExisting`) takes no lease and writes
nothing; when it finds the authority gone it is `TickLoses`. A controller runs one
cleanup at a time, as the runner asks for it, and none while it retires the leases of
an earlier generation (`#replacePriorGenerationSession`), which the runner awaits
before it can end the run; at the controller's interface, a cleanup that overlaps such
a retirement could report success ahead of the acquisition that follows it.

**`AsfEvidence`** models delivered runs up to the compaction of their events: the
content-addressed store link by link, the two bundles, retention. A bundle is the
part of its bytes that a retry could change.

**`AsfHarness`** models one provider invocation: the race of transport, deadline,
cancellation and fence watchdog, tools through the gateway, draining, and the
resumption of a session. Every look at the fence is two steps, the answer and its
use. The transport is host code and does what it likes.

The `MC*` modules give the constants their values, with symmetry where hosts or
runs are interchangeable; each `.cfg` is one run.

## 3. Runs

| Run | Instance | States | Shows |
|---|---|---|---|
| `lease` | 3 runs, lease time 1, grace 1, clock to 4 | 73,874 | `FencedOutStaysOut`, `NoEarlySteal` |
| `outbox` | 2 runs, 3 operations | 246,051 | `OutboxTruthful` |
| `delivery` | one run in six configurations with rivals, 1 fix, 1 poll; two runs on one issue | 391,041 | `MergedIsVetted`, `CleanExitIsComplete`, `OnePullRequestPerIssue`, `ImplementsOutbox`, `RunEnds` |
| `ci_wait` | 2 contexts, 2 apps, 2 checks, deadline 3, interval 2 | 13,117,755 | `SatisfiedIsProven`, `NoEarlyGiveUp` |
| `daemon` | 2 daemons, 2 completed runs, 2 days | 410,583 | `AtMostOneLateRun`, `CapOvershootBounded`, `StopIsHonoured` |
| `asf_effects` | 2 hosts, 2 stages, the second on GitHub, 6 events, 3 generations, 1 crash | 360,987 | `AppliedOnce`, `AdvancedMeansApplied`, `TerminalIsSettled`, `NothingLandsAfterTheEnd`, `CancellationSticks` |
| `asf_run` | 2 checks, 1 context, 14 listings, 1 fix, 2 approvals, 1 fault | 176,484 | `DeliveredIsVetted`, `WorksOnItsOwn`, `ResumesWithAuthority`, `RefusesOnlyMidReport`, `Settles` |
| `asf_service` | 2 processes, 2 runs of one repository, 1 fault | 178,381 | `NoLostWakeup`, `LostIsSignalled`, `RunsSettle` |
| `asf_budget` | 2 workers, 3 effects, 2 invocations admitted, 4 generations | 543,120 | `CalledOnce`, `WithinBudget` |
| `asf_identity` | 2 hosts, 2 roles, 2 generations, 2 versions, 1 fault | 642,848 | `LiveIsRecorded`, `OneGenerationLive`, `CleanupIsComplete` |
| `asf_evidence` | 2 hosts, 2 runs with the same bytes, 2 generations, 6 events, 1 fault | 1,684,004 | `RetryFindsItsBundle`, `ViewIsConsistent`, `OwnerKeepsHistory`, `RecordedIsAuditable` |
| `asf_harness` | 2 invocations, 2 roles, 1 tool, 2 calls, 2 generations | 644,255 | `SettledMeansQuiet`, `ResultAccountsForTools`, `StaleWorkIsContained`, `ResumeIsBound`, `SessionEnds` |

**Bounds.** Three runs on the lease give a taker, an owner and a third party; the
clock covers expiry, grace and one renewal after them. Two outbox runs with three
operations cover every pair of rows of one run and of two. One fix iteration, one
PR fix and one poll take every loop of the orchestrator once and its limit once;
two successive runs are enough for what a run leaves to the next. The reports of
`MCDelivery` have two tests passed, failed, skipped, renamed, doubled or gone in
every format, at the base and at the candidate independently; the reviews combine
every verdict with findings, answers and scopes that agree with it or not, and
the changes and policies every kind of rule. The deadline of 3 is not a multiple
of the interval of 2, the case in which the two bounds of the wait differ. Two
daemons give a stale process and a fresh one. In the ASF modules two hosts give
an owner and the owner it took over from, and one fault (a crash, a lost reply, a
torn write, a store error, as the module has them) is placed at every step;
takeovers are not faults and are bounded by the generations alone. In
`AsfEffects` three generations cover worker, reconciliation or cancellation,
worker, and six events cover block, resume, advance, cancel and end. In `AsfIdentity` two versions are one renewal of each
lease, and `Renewable` starts no renewal that could not end within them. Two effects
admitted and three wanted reach the invocation limit of the budget, and half a
micro-dollar is its rounding. Two calls and seven events are one more than a
well-formed stream of the harness with one tool needs. Deadlock checking is off
where the system may come to rest: runs end, issues are done.

**Fairness.** `RunEnds` assumes weak fairness of the run's own steps: every call
it awaits is bounded by a time-out in the code, and nothing is assumed of the
environment. `StopIsHonoured` assumes weak fairness of a daemon's loop: its
timers fire and its runs end. `Settles` assumes that the service claims a queued
run, that the owner's stage ends, and that CI, looked at again and again, decides
at last (strong fairness of a look with a decided outcome: that is a property of
the CI service, and without it the code polls for ever by design). `RunsSettle`
assumes what the platform owes a process: timers fire, microtasks run, the runner
comes back, and a supervisor restarts a host that is down; crashes may repeat up
to the bound. `SessionEnds` assumes that time passes, that timers fire, that a
sandboxed tool ends at its wall time, and nothing of the transport. No property
assumes that a remote answers, or that people act.

## 4. What is proved

Each `*Proofs` module extends its component, or up to three of a kind, and proves, for
every value of the constants that satisfies their assumptions:

* **`LeaseProofs`** - the leases. Of `GitLease`: `TypeOK`, `FencedOutStaysOut`,
  `HandleMatchesOwnRef`,
  `NoEarlySteal`, `PriorCarriedForward`, `ReleaseDeletesOwnLease`. The invariant
  `LeaseInv` says for each phase of a call what record the run has in its hands
  and that a ref that names the run has the handle's generation; it is needed
  because `assertHeld` compares run and generation only, so a stale handle of the
  same run would pass. Of `AsfIdentity`: `IdentityTypeOK`, `LiveIsRecorded`,
  `OneGenerationLive` and `CleanupIsComplete`. See below.
* **`OutboxProofs`** - `TypeOK`, `OutboxTruthful`, `ClosedIsFinal`. `OutboxInv`
  ties the stage of the call to the row and to the remote: a row that is still to
  be fenced has had no request, so closing it as not applied is truthful.
* **`LoopProofs`** - the loops that run by themselves. Of `Daemon`: `TypeOK`,
  `AtMostOneLateRun`, `TripIsPermanent`, `CountersNeverRollBack`,
  `CapOvershootBounded`. `Knowledge` relates what a process has in memory to the
  durable snapshot: memory is never ahead, and a process that has started a late
  run will be refused when it saves. `CapOvershootBounded` has `CapInv`: what the
  day's ledger shows plus the highest cost of every run under way stays below the
  cap plus one such cost for each daemon. A run that starts has seen the ledger
  below the cap, which bounds the sum anew, so daemons that read before either
  wrote are covered. Of `CiWait`: `CiWaitTypeOK`, `SatisfiedIsProven`,
  `NoEarlyGiveUp`. The invariant adds that what was observed is a past state of what
  CI reported, and paces attempts against the clock: after n pauses at least n
  intervals have passed. The lemmas on the ceiling of deadline over interval carry
  the argument. Of `AsfService`: `ServiceTypeOK`, `NoLostWakeup` and
  `LostIsSignalled`, for any processes, runs, faults and limit of concurrency.
  `ServiceInv` says of a process that the runs it has marked are just those in its
  queue and those it is executing, that no run is in both or twice in the queue,
  and that a queue that is not empty has a pump, a retry or an invocation that
  will look at it (`Sound`); of an invocation without its lease, that it is aborted
  or in its grace (`Told`). Every step is reduced to what it does to one process.
* **`DeliveryProofs`** - `TypeOK`, `MergedIsVetted`, `CleanExitIsComplete`,
  `OnePullRequestPerIssue` and the refinement `ImplementsOutbox`, for any number of
  runs, any configurations and whatever the checks and reviewers report. See below.
* **`AsfEffectsProofs`** - `TypeOK`, `AppliedOnce`, `AdvancedMeansApplied`,
  `TerminalIsSettled`, `NothingLandsAfterTheEnd` and `CancellationSticks`, for any
  hosts, stages and bounds. The heart of `EffectsInv` is `Once`: of a stage that no
  observation overtook, at most one of *applied*, *on its way* and *one worker has
  the authority to request it* is true, and while either of the last two is, a
  ledger has the stage as unresolved. That is why reconciliation cannot find the
  stage absent without setting `overtaken`, and why a run with an empty pending set
  (the guard of the terminal plan) has nothing that can still land. `Once` needs
  that a generation belongs to one worker or to one reconciliation (`Owners`), that
  the latest owner's stage is the run's position (`Current`), and that a stage has
  one intent (`Intents`). `CancellationSticks` has a small invariant of its own:
  once cancelled, neither the latest event's continuation nor a plan names a
  delivery phase, the two places from which a later step takes the phase.
* **`AsfRunProofs`** - `TypeOK`, `DeliveredIsVetted`, `RefusesOnlyMidReport`,
  `WorksOnItsOwn`, `ResumesWithAuthority`, and `PassedIsGreen` of the CI controller,
  for any number of checks, contexts, fixes and faults and any listings. See below.
* **`AsfEvidenceProofs`** - `OwnerKeepsHistory`, `ViewIsConsistent`,
  `RetryFindsItsBundle` and `RecordedIsAuditable`, for any number of hosts, runs,
  attempts and puts. `EvidenceInv` binds the records to each other and to the
  history (`Records`); says what even a stale worker may rely on, because it is
  written once (`Hand`), and what only the owner knows (`Knows`), because a phase
  moves behind the fence alone. A run is delivered by the second event of its
  history and never again (`History`), so a retry makes the same statement, dated by
  the same intent. `StoreInv` is about the directory: of an address on which no two
  puts overlapped and no crash tore a name, the one put in progress knows at each
  step which names there are (`Names`), and an artifact that has been read back, or
  is of a recorded bundle, is complete and owes no name to a put in progress
  (`Kept`), so that a refused put has nothing of it to remove. `MCAsfEvidence`
  checked both before they were proved.
* **`AsfInvocationProofs`** - both sides of a provider invocation. Of `AsfBudget`:
  `CalledOnce` and `WithinBudget`, for any workers, budget, unit, effects, claims and
  overrun. `CallInv` says that the right to call belongs to one worker at a time,
  that it comes with the ledger row of its effect and before any call, and that no
  step removes a row. `MoneyInv` follows the money: a call's cap is what its row
  reserved; at most one row is open (reserved, or settled as unknown), and while it
  is, the ledger charges the whole budget, so that no other reservation finds
  anything left; every other call has a completed row, rounded up. Hence what is
  spent exceeds the admitted cost by the overrun of one call at most, crashes and
  settlements included. The sum over the ledger is a recursive function; that it
  has values at all, and what an update does to it, is proved by induction over a
  set of numbers (lemma `Induction`, from the well-foundedness of `<`).
  Of `AsfHarness`: `SettledMeansQuiet`, `StaleWorkIsContained`, `ResumeIsBound` and
  `ResultAccountsForTools`, for any roles, tools, limits and owners. `HarnessInv`
  has where things may be (a tool only while the transport is raced or drained, a
  pending answer of the watchdog only in the race) and the fence: the owner is never
  ahead of it, so that once a tool has started behind it, nothing is cleared any
  more: no second tool, no result. `AccountInv` adds that what has run is a sequence
  of tools that starts empty, and that a forced stop reports just that sequence; the
  lemma `StreamReports` finds the completion of the k-th tool at place 2k + 1 of the
  stream. What the transport says itself is compared with what ran
  (`TransportSound`) before it is told.

**`Delivery`.** Three facts about its pure operators come first, with no state in
them: a verification that is merge-ready preserves the tests of the base, a review
concluded to be clean approves the change, and an allowed merge touches nothing
sensitive. The steps then fall into five groups, each with a summary of what its
steps may change: those that leave the body of the run (`Quits`), those that work
in it (`Works`), the steps of an effect, the start of a run, and the environment
(`World`). Every part of `DeliveryInv` is preserved by each group:

* `Fresh`: an effect's row does not exist before the run comes to it. Loops make
  this the hard part, since pushes and fixes recur; their number names them, and
  `Rank` orders the effects as a run can ask for them. No effect is asked twice.
* `OP!OutboxInv`: the invariant of `Outbox`, seen through the mapping. With `Fresh`
  it gives the refinement: each step of `Delivery` is a step of `Outbox` or leaves
  its state alone, so that `OutboxTruthful` and `ClosedIsFinal` carry over to the
  orchestrator's rows (`StoreStaysTruthful`) with no second proof.
* `Evidenced` and `Merged`: where the run stands tells which of the candidate's
  evidence is there for the commit it now has; a merge row exists only for a
  candidate with all of it. The forge merges that head or nothing.
* `Taken`, `Unfailed` and `OnCourse`: which effects are confirmed by the time the
  run stands somewhere. `CleanExitIsComplete` follows at the release.
* `Repeated`: a run that opened, or may yet open, a pull request and is over keeps
  the issue in a state the selection refuses, until an operator attends to it.

**`AsfRun`.** `RefusesOnlyMidReport` says where two programs can disagree: the
runner, which decides from the checkpoint and the gates it reads, and the store,
which decides from the gates and the phase table. They do so in one place
(`MidReport`), and `RunInv` is what they agree on everywhere else. It speaks of
the phase the run is in, or comes back to from a pause (`Where`):

* `Numbered`: the candidate has the number of the fixes asked for, plus one once it
  is committed. The invocation counts fixes for itself and `#completeCi` counts them
  in the store, so the budget can be overrun; `Owning` bounds it: the store's count
  is at most the invocation's plus the budget, so there are at most twice the budget
  of them and every candidate has its gates.
* `Recorded`: the reviews on record are what the reviewers reported, and the checks
  on record have all passed only if they did in the latest report. A run that
  crashed within a report verifies again, and the new report overwrites the old one
  a check at a time; between the two, the record belongs to neither.
* `Verifying`: the coverage checkpoint is current just when every check of the
  candidate passed. This is the condition under which the store demands the
  checkpoint with an event and the one under which the runner brings it. `Covering`
  shows that the two meet at the last check, unless an earlier report left this
  check open alone. A pause breaks the condition (the latest event is then the
  stop), which is harmless because a stage that turned to the store alone can
  neither ask for an approval nor leave an intent unsettled. So it is stated of
  `LOCAL_VERIFY` and of the pauses that come back to it (`MayResumeFrom`).
* `Vetted`: the gates behind the candidate by phase. `ci.revalidated` alone lets the
  run be delivered, and `PassedIsGreen` says what that event is worth: no listing
  of check runs and statuses, with whatever producers, times and duplicates, yields
  "passed" unless the context is green.
* `Control`: a host may claim a paused run (a restarted one does) but takes no more
  of it than the ownership, so an approval and a reconciliation are the only steps
  out of the pause: `ResumesWithAuthority`.

`MCAsfRun` checked `RunInv`, with one fault and with three, before it was proved.
The proof attempts changed it and the model: the first form of `Verifying` spoke of
every pause, which a run blocked in `LOCAL_VERIFY` after its checks passed refutes;
and what `Recorded` needs (that a repeated verification reports the same) is not
what the code ensures, which is how the last disagreement of section 5 was found.

**`AsfIdentity`.** Four actors touch a lease: the acquisition or renewal of a
session, its revocation, a second session of the same controller, and the broker; a
process may end between any two of their steps, and another host may own the run by
then. `IdentityInv` rests on the comparison
of revisions: a session that nobody has written after has the markers of the sealed
snapshot and covers what is live (`SessionFine`); one that somebody has written
after promises nothing, and cannot write.

* `Sealed`: the snapshot of a generation covers the broker's row: a live lease has
  the marker of an acquisition, or is recorded and not retired. So has whoever is to
  write (`Fits`), which is what each write owes; that a lease is held for retired
  only when it is not live (`GoneFits`, `DoneFits`) and that an acquisition's marker
  goes only when its lease is recorded or not live (`AcquisitionEnds`) pays it.
  `LiveIsRecorded` follows. It needs that a renewal makes the newest version of its
  role (`Newest`), or the new version could be one that is already retired.
* `MainFine`: an acquisition has nothing yet of the roles it has still to ask for,
  and no lease of the role it asks for is live, although a revocation may write the
  same session between any two of its steps. What a revocation leaves alone is
  `Kept`: it takes away no marker of an acquisition, and retires what it revoked.
* `Owners` and `Exclusive`: a generation has one owner, and once it acquires, or
  holds something, every earlier generation is closed: nothing is live in it, and
  no request for a lease of it is at the broker (`Closed`). A stale owner that goes on
  cannot reopen one, because the fence is read before a request is sent and a
  closed generation is behind it. `OneGenerationLive` follows. `Replacing` gives
  the end of a handover: the predecessor counts as retired only when its last write
  was not refused, and a session whose write succeeds covers what is live
  (`WholeIsClosed`).
* `Cleaning`: while a cleanup is due or under way its owner acquires nothing
  (`Still`), and every generation but that of its session is closed (`ClosedBut`).
  For a cleanup that read the lineage this comes from `OneUnretired`: at most one
  generation is not retired. For one that waits for an acquisition nobody reads
  the lineage; it comes from `Exclusive`, because the acquisition it waits for has
  begun, and `PlaceFine` and `RvFine` say that the session it will go on with is the
  one of that acquisition. The session may be stale by then; but its last write
  succeeded, so it covers what is live (`WholeIsClosed`), whoever else renewed or
  revoked in between. `CleanupIsComplete` follows, and stays true.

TLC checked `IdentityInv` on the instance of `MCAsfIdentity` before it was proved.

**Assumptions on constants.** They are the named `ASSUME`s of the components:
counts and bounds are natural numbers, sets of hosts, contexts and configurations
are finite where they are counted, budgets and lease times are positive, and the
value that stands for no owner is not a host. Two are about data:
`VerificationsAssumption` says that a check with exit status 0 exited by itself or
ran into its time-out; `src/workspace/sandbox.ts:606-618` gives a command that was
killed or denied no status. The other, `ListingsAssumption`, says
that a listing of `AsfRun` is a sequence of check runs and one of commit statuses,
whose conclusion is their state (`src/asf/github-ci-controller.ts:620`). TLC
evaluates all of them in the runs.

The type invariants and the other facts named here that no run lists are checked
by their proofs alone.

**Only model-checked.** The liveness properties (`RunEnds`, `StopIsHonoured`,
`Settles`, `RunsSettle`, `SessionEnds`), which are beyond the proof system.
Every invariant and action property that a run checks is also proved.

## 5. Where the code and its documents disagree

The models have these behaviours, and the properties above are stated so that they
hold with them.

*Standalone mode*

1. **A failed run may keep its claim.** A restore whose fence read fails is closed
   as not applied and only logged; the lease is released, the issue stays claimed
   with nothing pending, and no later run selects it
   (`src/orchestrator/orchestrator.ts:1023`; `docs/lifecycle.md:171-172`).
2. **An old success outranks a re-run.** Checks are ordered by completion time
   with absent times first, so a re-run in progress sorts before the run it
   replaces (`src/pr/reconcile.ts:37-38`: "take the newest").
3. The comment at `src/state/store.ts:1118` speaks of a lock on the data
   directory; none is taken, and `Outbox` lets two runs work at the same time.
4. `docs/daemon.md:140-142` says that one daemon is active; two that start
   together both pass the unlocked check, and `Daemon` lets them.
5. `docs/leases.md:150` says that a worker cannot mutate anything after ownership
   moved; the fence is a read before the call, and only the merge is conditional.
6. `docs/verification.md:327-328` speaks of checks that were never scheduled; the
   deadline also ends the wait for checks that are running.
7. `docs/lifecycle.md:209-210` and `docs/daemon.md:175-177` differ on whether a
   restart resets the breakers; the code keeps them.
8. An acquire whose push was applied and whose reply was lost reports a conflict
   with itself (`src/queue/git-lease.ts:170-175`); a request that lands late opens
   a pull request after the issue was handed back
   (`src/orchestrator/orchestrator.ts:995-999`).

*ASF worker mode*

1. **A run that reconciles in two steps is stranded.** With a GitHub effect and
   its delivery intent both pending, the composite observer durably resolves the
   former, the observer of the latter refuses the changed set
   (`src/asf/state-delivery-intent-store.ts:241-249`), and the request ends
   blocked. The next request has a smaller set, which is not the one the blocked
   event's continuation names (`src/state/store.ts:6503`), and further requests are
   refused (`:5656`). `docs/errors.md:218` promises that the run can continue.
2. **A host cannot start over an unfinished plan.** A crash between plan and seal
   leaves the cleanup intent pending; the start's recovery asks for a
   reconciliation, which the store refuses for a run with a plan
   (`src/state/store.ts:5623`), and the start fails before the runner can finish
   the plan (`src/asf/delivery-runner.ts:1118`: "A restart must finish that exact
   plan").
3. **Two runs of one repository may be live** when a heartbeat older than a claim
   arrives after it (`src/state/store.ts:9319`; `prd.md:688`).
4. **Overlapping puts of the same bytes lose the body**: one refuses its
   declaration and unlinks what the other recorded
   (`src/evidence/filesystem-cas.ts:394`); a crash between link and unlink leaves
   two links and the object refused for good (`:306`).
5. Life cycle: a fix that CI asked for is not counted by the invocation
   (`src/asf/delivery-runner.ts:4534` against `:4042`); a run that waits for
   approval before it has a candidate cannot be resumed; one approval resumes two
   stops with the same binding; a recorded denial does not block a resumption; a
   CI listing that changes while it is read fails the run for good; a
   protected session resumed elsewhere than in IMPLEMENTING quarantines the run at
   its next fix (`:2927`).
6. Service: a restarted host claims paused runs, and a recovery observation that
   then fails ends them; a repeated cancellation marks the lease of the invocation
   that is already cancelling as lost; a transient store error in a heartbeat loses
   the lease.
7. Budget: a replay that dies between reopening and denial is refused when it is
   reconciled again (`src/state/store.ts:4219-4239`).
8. Identity: a process that claims a run again while it has the session of its
   former generation is refused; after two handovers recovery refuses.
9. Evidence: an evidence stage that failed and was reconciled never finalizes; a
   shared artifact that expired cannot be renewed; a death between the terminal
   event and the release keeps the events for ever
   (`src/asf/service.ts:1349`); a rotated signing key makes the retry of a recorded
   bundle refused.
10. Harness: every look at the lease demands the whole time-out again
    (`src/agent/trusted-harness.ts:1421`); a transport that throws after a
    completed tool is refused rather than retryable (`:1230`, `:1771`).
11. The runner's push and pull-request stages call the GitHub controller whatever
    the mode of their intent; duplicates are excluded by observing first and by
    GitHub, not by the intent ledger.
12. **A repeated verification can fail a run whose checks all passed.** A candidate
    with two required checks has (failed, passed) on record and the run crashes
    before it is sent back for fixing. The next owner verifies again and gets
    (passed, passed). The store sees full coverage with the first event of the new
    report (`src/state/store.ts:9765-9789`) and demands the checkpoint with it
    (`:10114`); the runner brings the checkpoint with the last event
    (`src/asf/delivery-runner.ts:3451`). The transition throws and the run is
    stopped as `FAILED`. `test/asf/delivery-runner.test.ts:3244` ("recovers after a
    crash following a failed final local check without inventing a pass") expects
    `COMPLETED` of this recovery, with one required check. TLC finds it in 25
    steps when `~refused` is checked as an invariant of `MCAsfRun`;
    `RefusesOnlyMidReport` says that it is the only case of a refusal.

## 6. Plan

Done: the modules and runs above. Next, in order:

1. ASF disagreements 1 and 2 as runs of their own, if the code
   is to be changed: each is a property that the change makes hold.
2. Several runs of `AsfRun` under `AsfService` as one composition; the service
   abstracts the runner to "moves on or not", which is what `Settles` and
   `RunsSettle` together rely on.

## 7. Not modelled

Process spawning, sandboxes, credential stores, parsing and formatting,
presentation, telemetry, health and qualification reports: they keep no state that
a property above depends on. What an agent changes is a nondeterministic choice.
The regular expressions that read a check's output, the XML, TAP and JSON scanners
and the glob dialect of path rules are represented by what they conclude. Schema
validation of single documents (work orders, ctxlane contracts, evidence
statements) is not modelled; the states built from valid documents are.
Authentication of the control plane is not modelled; its requests are actions
where they land. `PROJECT.json` lists every component with what is left out.
