--------------------------- MODULE DeliveryProofs ---------------------------
(***************************************************************************)
(* Proofs about Delivery, for every number of runs, every set of           *)
(* configurations, and every outcome of the checks and of the reviews:     *)
(* what merges is vetted, a clean exit is complete, one issue gets one     *)
(* pull request, and the runs carry out the protocol of Outbox.            *)
(*                                                                         *)
(* The steps fall into five groups, each with its summary: those that      *)
(* leave the body of run (Quits), those that work in it (Works), the steps *)
(* of an effect, the start of a run, and the environment (World).          *)
(***************************************************************************)
EXTENDS Delivery, FiniteSetTheorems, TLAPS

USE DeliveryAssumption

\* A finite set of natural numbers with an element has a largest one.
LEMMA MaxOfFinite ==
  ASSUME NEW S \in SUBSET Nat, IsFiniteSet(S), S # {}
  PROVE  Max(S) \in S /\ \A y \in S : y <= Max(S)
<1> DEFINE Above(x) == {y \in S : y > x}
           T == {Above(x) : x \in S}
<1>1. IsWellFoundedOn(StrictSubsetOrdering(S), SUBSET S)
  BY FS_StrictSubsetOrderingWellFounded, FS_FiniteSubsetsOfFinite
<1>2. T \subseteq SUBSET S /\ T # {}
  OBVIOUS
<1>3. PICK A \in T : \A B \in T : <<B, A>> \notin StrictSubsetOrdering(S)
  BY <1>1, <1>2, WFMin
<1>4. PICK x \in S : A = Above(x)
  OBVIOUS
<1>5. ASSUME NEW y \in S, y > x PROVE FALSE
  <2>1. ASSUME NEW z \in Above(y) PROVE z \in Above(x)
    <3>1. x \in Nat /\ y \in Nat /\ z \in Nat /\ z > y
      OBVIOUS
    <3> QED BY <3>1, <1>5
  <2>2. y \in Above(x) /\ y \notin Above(y)
    <3>1. x \in Nat /\ y \in Nat
      OBVIOUS
    <3>2. ~(y > y)
      BY <3>1
    <3> QED BY <1>5, <3>2
  <2>3. <<Above(y), A>> \in StrictSubsetOrdering(S)
    BY <2>1, <2>2, <1>4 DEF StrictSubsetOrdering
  <2> QED BY <2>3, <1>3
<1>6. x \in S /\ \A y \in S : x >= y
  BY <1>5
<1> QED BY <1>6 DEF Max

\* What verification calls merge-ready lost no test of the base
\* (VerificationEngine.run, compareInventories).
THEOREM MergeReadyPreserves ==
  ASSUME NEW v \in Verifications, Engine!MergeReady(v)
  PROVE  Engine!Preserves(v)
<1> SUFFICES ASSUME NEW check \in v.checks, check.required
             PROVE  LET base == v.base[check.id]
                        x == v.cand[check.id]
                        Passed(y) == {t.id : t \in {u \in Engine!Tests(y.written) :
                                                                u.status = "passed"}}
                    IN /\ x.ended = "exited" /\ x.exit = 0 /\ ~x.changed /\ ~x.zero
                       /\ check.report => Passed(base) \subseteq Passed(x) \cup check.declared
                       /\ v.strict => check.report /\ ~x.stale
  BY DEF Engine!Preserves
<1> DEFINE base == v.base[check.id]
           x == v.cand[check.id]
           Passed(y) == {t.id : t \in {u \in Engine!Tests(y.written) :
                                                   u.status = "passed"}}
<1>1. check.runs /\ Engine!Passes(check, base, x) /\ (v.strict => Engine!Proven(check, x))
  BY DEF Engine!MergeReady, Engine!ResolveManifest
<1>2. x.ended = "exited" /\ x.exit = 0 /\ ~x.changed /\ ~x.zero
  BY <1>1, VerificationsAssumption DEF Engine!Passes
<1>3. v.strict => check.report /\ ~x.stale
  BY <1>1 DEF Engine!Proven, Engine!Prepared
<1>4. ASSUME check.report PROVE Passed(base) \subseteq Passed(x) \cup check.declared
  <2>1. Engine!Proven(check, base) /\ Engine!Proven(check, x)
    BY <1>1, <1>4 DEF Engine!Passes, Engine!BaselineHolds
  <2>2. Engine!With("passed", check, base) = Passed(base)
        /\ Engine!With("passed", check, x) = Passed(x)
    BY <2>1 DEF Engine!With
  <2>3. Engine!With("failed", check, x) = {} /\ Engine!InventoriesKept(check, base, x)
    BY <1>1, <1>4 DEF Engine!Passes
  <2> HIDE DEF Passed, base, x
  <2> QED BY <2>2, <2>3 DEF Engine!InventoriesKept
<1> QED BY <1>2, <1>3, <1>4

\* A review the orchestrator takes as clean really approves the change
\* (parseReview, crossCheckVerdict, blockingFindings).
THEOREM CleanMeansApproved ==
  ASSUME NEW review, NEW change, NEW policy,
         Policy!Conclusion(review, change, policy) = "clean"
  PROVE  Policy!Approves(review, change, policy)
<1>1. /\ Policy!Parses(review) /\ Policy!CrossCheckVerdict(review, change, policy)
      /\ Policy!BlockingFindings(review, policy) = {}
  BY DEF Policy!Conclusion
<1>2. review.verdict # "changes_required"
  BY <1>1 DEF Policy!CrossCheckVerdict, Policy!BlockingFindings
<1>3. review.verdict \in {"approved", "no_findings"} /\ review.scope = "within_scope"
  BY <1>1, <1>2 DEF Policy!Parses, Policy!CrossCheckVerdict
<1>4. review.findings \cap policy.severities = {} /\ (policy.all => review.findings = {})
  BY <1>1, <1>2 DEF Policy!BlockingFindings
<1>5. ASSUME NEW c \in change.criteria
      PROVE {review.met[c][i] : i \in DOMAIN review.met[c]} = {TRUE}
  <2>1. review.met[c] = <<TRUE>>
    BY <1>1, <1>2 DEF Policy!CrossCheckVerdict, Policy!CriteriaMet
  <2>2. DOMAIN <<TRUE>> = {1} /\ <<TRUE>>[1] = TRUE
    OBVIOUS
  <2> QED BY <2>1, <2>2
<1> QED BY <1>3, <1>4, <1>5 DEF Policy!Approves

\* A merge the risk policy allows touches nothing it keeps for a person
\* (evaluateAutomaticMergeRisk).
THEOREM AllowedIsNotSensitive ==
  ASSUME NEW policy, NEW change, Policy!MergeRisk(policy, change) = "allow"
  PROVE  ~Policy!Sensitive(policy, change)
<1>1. ~Policy!Untold(policy, change) /\ ~Policy!Manual(policy, change)
  BY DEF Policy!MergeRisk
<1>2. policy.tier = "low" /\ policy.labels \cap change.labels = {}
      /\ ~Policy!TouchesRisk(change, policy)
  BY <1>1 DEF Policy!Manual
<1>3. \A rule \in policy.rules : rule.valid
  BY <1>1 DEF Policy!Untold, Policy!ValidRule
<1>4. \A rule \in policy.rules : change.paths \cap rule.paths = {}
  BY <1>2, <1>3 DEF Policy!TouchesRisk, Policy!Matches, Policy!ValidRule
<1>5. \A c \in policy.conditions : Policy!ConditionResult(c, change) \notin {"unknown", "matched"}
  BY <1>1 DEF Policy!Untold, Policy!Manual
<1>6. ~("lockfile_changed" \in policy.conditions /\ "lockfile" \in change.paths)
  BY <1>5 DEF Policy!ConditionResult
<1>7. ~("missing_acceptance_criteria" \in policy.conditions /\ change.criteria = {})
  BY <1>5 DEF Policy!ConditionResult
<1>8. policy.conditions \cap
        {"public_api_change", "permissions_change", "secret_related_change"} = {}
  BY <1>5 DEF Policy!ConditionResult
<1> QED BY <1>2, <1>3, <1>4, <1>6, <1>7, <1>8 DEF Policy!Sensitive

\* Where the run has left its body.
Ending == Restores \cup {"final-release", "idle"}

\* The run that is under way exists, and only an effect is called.
Placed ==
  /\ pc # "idle" => run \in Runs
  /\ call # "idle" => pc \in EffectPcs
  /\ run = 0 => issue.state = "prior"
  /\ pc \in BodyPcs => loc.held

\* A run that has not begun has left no trace.
Unstarted ==
  \A r \in Runs : r > run =>
    /\ st[r] = "DISCOVERED" /\ cand[r] = 0 /\ pr[r].state = "none"
    /\ \A o \in Ops : row[<<r, o>>] = "none"

\* The most commits there can be by now.
Bound == cfg.fixes + 1 + loc.count["prFixer"]

\* The loops are bounded: so are the commits, which name the fixes' effects.
Counted ==
  /\ loc.count["prFixer"] <= cfg.cap["prFixer"]
  /\ pc = "ci-pause" => loc.polls < cfg.polls
  /\ pc \in {"acquire", "transition-claim", "assign-claim", "workspace", "packet"} =>
       cand[run] = 0 /\ loc.iter = 0
  /\ pc \in {"implement", "agent"} => cand[run] <= loc.iter
  /\ pc \in {"verify", "review"} => cand[run] <= loc.iter + 1
  /\ pc \in {"pr-fix", "reverify", "push-pr-fix"} => cand[run] + 1 <= Bound
  /\ pc \notin Ending => cand[run] <= Bound

TypeInv == TypeOK /\ Placed /\ Unstarted /\ Counted

-----------------------------------------------------------------------------

\* The commits a configuration can make are numbered within Shas: the fix and
\* review loops of run bound them.
LEMMA ShasFacts ==
  /\ \A c \in Configs : 0 .. (c.fixes + 1 + c.cap["prFixer"]) \subseteq Shas
  /\ Shas \subseteq Nat /\ 0 \in Shas
<1> DEFINE f == [c \in Configs |-> c.fixes + 1 + c.cap["prFixer"]]
           S == {c.fixes + 1 + c.cap["prFixer"] : c \in Configs}
<1>1. \A c \in Configs : c.fixes \in Nat /\ c.cap["prFixer"] \in Nat
  BY DEF Limits
<1>2. S \in SUBSET Nat /\ S # {}
  BY <1>1
<1>3. f \in Surjection(Configs, S)
  BY <1>1 DEF Surjection
<1>4. IsFiniteSet(S)
  BY <1>3, FS_Surjection
<1>5. Max(S) \in S /\ \A y \in S : y <= Max(S)
  BY <1>2, <1>4, MaxOfFinite
<1>6. Shas = 0 .. Max(S)
  BY DEF Shas
<1>7. ASSUME NEW c \in Configs PROVE c.fixes + 1 + c.cap["prFixer"] <= Max(S)
  BY <1>5
<1>8. Max(S) \in Nat
  BY <1>2, <1>5
<1> HIDE DEF S
<1>9. \A c \in Configs : 0 .. (c.fixes + 1 + c.cap["prFixer"]) \subseteq Shas
  BY <1>1, <1>6, <1>7, <1>8
<1> QED BY <1>6, <1>8, <1>9

\* #runPrReview has a number of attempts.
LEMMA MaxReviewsFacts ==
  ASSUME cfg \in Configs
  PROVE  MaxReviews \in Nat
<1>1. cfg.cap["prReview"] \in Nat
  BY DEF Limits
<1>2. IsFiniteSet({cfg.cap["prReview"], 1})
  <2>1. {cfg.cap["prReview"], 1} = {cfg.cap["prReview"]} \cup {1}
    OBVIOUS
  <2>2. IsFiniteSet({cfg.cap["prReview"]})
    BY FS_Singleton
  <2>3. IsFiniteSet({cfg.cap["prReview"]} \cup {1})
    BY <2>2, FS_AddElement
  <2> QED BY <2>1, <2>3
<1> QED BY <1>1, <1>2, MaxOfFinite DEF MaxReviews

\* The invariant holds of an empty store.
LEMMA InitTypeInv == Init => TypeInv
<1> SUFFICES ASSUME Init PROVE TypeInv
  OBVIOUS
<1> USE DEF Init
<1>1. loc \in [held : BOOLEAN, claimed : BOOLEAN, assigned : BOOLEAN, opened : BOOLEAN,
              assignee : {"none", "bot"}, iter : 0 .. cfg.fixes,
              attempt : 0 .. MaxReviews, polls : 0 .. cfg.polls, count : [Limits -> Nat]]
  BY MaxReviewsFacts DEF FreshLocals
<1>2. TypeOK
  BY <1>1, ShasFacts DEF TypeOK, Pcs, RunStates, Other, NoSha
<1>3. Placed /\ Unstarted
  BY DEF Placed, Unstarted, Runs, Ops, BodyPcs, EffectPcs, BacklogOps, ForgeOps, Restores
<1>4. Counted
  BY DEF Counted, Ending, FreshLocals, Limits
<1> QED BY <1>2, <1>3, <1>4 DEF TypeInv

\* finish and the finally block leave the body.
LEMMA UnwindEnds == UnwindTarget \in Ending
  BY DEF UnwindTarget, Ending, Restores

\* How the sets of places relate.
LEMMA PcSets ==
  /\ Ending \subseteq Pcs /\ BodyPcs \cap Ending = {} /\ EffectPcs \subseteq Pcs
  /\ "acquire" \notin Ending
  BY DEF Ending, Pcs, BodyPcs, EffectPcs, BacklogOps, ForgeOps, Restores

\* The effect a run is at is one of its own.
LEMMA CurrentTyped ==
  ASSUME TypeInv, pc \in EffectPcs
  PROVE  CurOp \in Ops /\ Current \in Runs \X Ops
<1>1. pc # "idle" /\ run \in Runs
  BY DEF TypeInv, Placed, EffectPcs, BacklogOps, ForgeOps, Restores
<1>2. pc = "push-pr-fix" => cand[run] + 1 \in Shas
  <2>1. cand[run] \in Shas /\ cfg \in Configs /\ loc.count["prFixer"] \in Nat
    BY <1>1 DEF TypeInv, TypeOK, Limits
  <2>2. cfg.fixes \in Nat /\ cfg.cap["prFixer"] \in Nat
    BY <2>1 DEF Limits
  <2>3. pc = "push-pr-fix" => cand[run] + 1 <= cfg.fixes + 1 + cfg.cap["prFixer"]
    <3> DEFINE n == loc.count["prFixer"]
    <3>1. n <= cfg.cap["prFixer"] /\ (pc = "push-pr-fix" => cand[run] + 1 <= cfg.fixes + 1 + n)
      BY DEF TypeInv, Counted, Bound
    <3>2. n \in Nat /\ cand[run] \in Nat
      BY <2>1, ShasFacts
    <3> HIDE DEF n
    <3> QED BY <2>2, <3>1, <3>2
  <2>4. cand[run] \in Nat
    BY <2>1, ShasFacts
  <2>5. pc = "push-pr-fix" => cand[run] + 1 \in 0 .. (cfg.fixes + 1 + cfg.cap["prFixer"])
    BY <2>2, <2>3, <2>4
  <2> QED BY <2>1, <2>5, ShasFacts
<1> QED BY <1>1, <1>2 DEF CurOp, Current, Ops

\* What the other variables range over, and the states that record a run as done.
Locals == [held : BOOLEAN, claimed : BOOLEAN, assigned : BOOLEAN, opened : BOOLEAN,
           assignee : {"none", "bot"}, iter : 0 .. cfg.fixes,
           attempt : 0 .. MaxReviews, polls : 0 .. cfg.polls, count : [Limits -> Nat]]
Statuses == {"none", "intended", "inFlight", "confirmed", "failed", "notApplied"}
Leases == {Other} \cup 0 .. MaxRuns
Done == {"PR_DELIVERED", "COMPLETED"}

\* What the steps have in common that take the run out of its body, or end it.
Quits ==
  /\ pc # "idle" /\ pc' \in Ending /\ call' = "idle"
  /\ loc' = loc \/ (loc' = FreshLocals("none") /\ pc' = "idle")
  /\ st' = st \/ \E s \in RunStates : st' = [st EXCEPT ![run] = s]
  /\ \/ row' = row /\ (pc' = "idle" \/ call = "idle")
     \/ /\ pc' # "idle"
        /\ \/ call \in {"fence", "act"} /\ row' = [row EXCEPT ![Current] = "notApplied"]
           \/ call \in {"act", "reply"} /\ row' = [row EXCEPT ![Current] = "failed"]
  /\ pc \in Restores => pc' \in {"final-release", "idle"}
  /\ pc = "final-release" => pc' = "idle"
  /\ pc' \in Restores => loc' = loc /\ ~loc.opened
  /\ lease' \in {0, run, lease} /\ leaseRow' \in {0, leaseRow}
  /\ UNCHANGED <<cfg, run, remote, evidence>>

\* A run starts with local variables of their types.
LEMMA FreshTyped ==
  ASSUME cfg \in Configs, NEW a \in {"none", "bot"}
  PROVE  FreshLocals(a) \in Locals
  BY MaxReviewsFacts DEF FreshLocals, Locals

\* The run is not recorded as done.
StaysOpen == st' = st \/ \E s \in RunStates \ Done : st' = [st EXCEPT ![run] = s]

\* Every early return, error, crash and release quits: the run leaves its body,
\* and only a release, or observe, may record it as done.
LEMMA Quitting ==
  ASSUME TypeInv,
         \/ Observes \/ AcquireFails \/ BodyThrows \/ FenceRefuses \/ ActFails \/ NotStarted
         \/ AwaitsApproval \/ Releases \/ ReleaseFails \/ FinalRelease \/ Crash
  PROVE  Quits /\ (Releases \/ Observes \/ StaysOpen)
<1> USE UnwindEnds DEF Quits, RunStates, Advance, Unwind, StaysOpen, Done
<1>p. Placed
  BY DEF TypeInv
<1>n. pc \notin EffectPcs => call = "idle"
  BY <1>p DEF Placed
<1>e. "idle" \in Ending /\ "final-release" \in Ending /\ "idle" \notin EffectPcs
  BY DEF Ending, EffectPcs, BacklogOps, ForgeOps, Restores
<1>o. UnwindTarget \in Restores => ~loc.opened
  <2>1. loc.held \in BOOLEAN /\ loc.claimed \in BOOLEAN /\ loc.opened \in BOOLEAN
    BY DEF TypeInv, TypeOK
  <2> QED BY <2>1 DEF UnwindTarget, Restores
<1>h. pc \in EffectPcs => pc \in Restores \/ UnwindTarget # "idle"
  BY <1>p DEF Placed, BodyPcs, UnwindTarget
<1>1. CASE Observes
  BY <1>1, <1>o, <1>n, <1>e DEF Observes, EffectPcs, BacklogOps, ForgeOps, Restores
<1>2. CASE AcquireFails
  BY <1>2, <1>o, <1>n DEF AcquireFails, EffectPcs, BacklogOps, ForgeOps, Restores
<1>3. CASE BodyThrows
  BY <1>3, <1>o DEF BodyThrows, ThrowPcs, BodyPcs, EffectPcs, BacklogOps, ForgeOps, Restores
<1>4. CASE FenceRefuses
  <2>1. call = "fence" /\ pc \in EffectPcs /\ pc # "idle" /\ pc # "final-release" /\ call' = "idle"
    BY <1>4, <1>o, <1>p, <1>e DEF FenceRefuses, Placed, EffectPcs, BacklogOps, ForgeOps, Restores
  <2>2. pc' # "idle" /\ (pc \in Restores => pc' = "final-release")
    BY <1>4, <1>o, <2>1, <1>h DEF FenceRefuses, EffectThrows
  <2>3. (pc' \in Restores => loc' = loc /\ ~loc.opened) /\ StaysOpen
    BY <1>4, <1>o DEF FenceRefuses, EffectThrows, Restores
  <2> QED BY <1>4, <2>1, <2>2, <2>3, <1>e DEF FenceRefuses, EffectThrows
<1>5. CASE ActFails
  <2>1. call \in {"act", "reply"} /\ pc \in EffectPcs /\ pc # "idle" /\ pc # "final-release"
        /\ call' = "idle"
    BY <1>5, <1>o, <1>p, <1>e DEF ActFails, Placed, EffectPcs, BacklogOps, ForgeOps, Restores
  <2>2. pc' # "idle" /\ (pc \in Restores => pc' = "final-release")
    BY <1>5, <1>o, <2>1, <1>h DEF ActFails, EffectThrows
  <2>3. (pc' \in Restores => loc' = loc /\ ~loc.opened) /\ StaysOpen
    BY <1>5, <1>o DEF ActFails, EffectThrows, Restores
  <2> QED BY <1>5, <2>1, <2>2, <2>3, <1>e DEF ActFails, EffectThrows, FailedStatus
<1>6. CASE NotStarted
  <2>1. call = "act" /\ pc \in EffectPcs /\ pc # "idle" /\ pc # "final-release" /\ call' = "idle"
    BY <1>6, <1>o, <1>p, <1>e DEF NotStarted, Placed, EffectPcs, BacklogOps, ForgeOps, Restores
  <2>2. pc' # "idle" /\ (pc \in Restores => pc' = "final-release")
    BY <1>6, <1>o, <2>1, <1>h DEF NotStarted, EffectThrows
  <2>3. (pc' \in Restores => loc' = loc /\ ~loc.opened) /\ StaysOpen
    BY <1>6, <1>o DEF NotStarted, EffectThrows, Restores
  <2> QED BY <1>6, <2>1, <2>2, <2>3, <1>e DEF NotStarted, EffectThrows
<1>7. CASE AwaitsApproval
  BY <1>7, <1>o, <1>n DEF AwaitsApproval, Local, EffectPcs, BacklogOps, ForgeOps, Restores
<1>8. CASE Releases
  BY <1>8, <1>o, <1>n, <1>e DEF Releases, EffectPcs, BacklogOps, ForgeOps, Restores
<1>9. CASE ReleaseFails
  <2>1. pc = "release" /\ call = "idle" /\ call' = "idle" /\ pc' = UnwindTarget /\ loc' = loc
    BY <1>9, <1>n DEF ReleaseFails, ReleaseError, EffectPcs, BacklogOps, ForgeOps, Restores
  <2>2. StaysOpen /\ st' = [st EXCEPT ![run] = "QUARANTINED"]
    BY <1>9 DEF ReleaseFails, ReleaseError
  <2>3. lease' \in {0, run, lease} /\ leaseRow' \in {0, leaseRow}
        /\ UNCHANGED <<cfg, run, row, remote, evidence>>
    BY <1>9 DEF ReleaseFails
  <2>4. pc \notin Restores /\ pc # "final-release" /\ pc # "idle" /\ pc' \in Ending
    BY <2>1 DEF Restores
  <2>5. \E s \in RunStates : st' = [st EXCEPT ![run] = s]
    BY <2>2
  <2>6. Quits
    BY <1>o, <2>1, <2>3, <2>4, <2>5
  <2> HIDE DEF Quits, StaysOpen
  <2> QED BY <2>2, <2>6
<1>10. CASE FinalRelease
  BY <1>10, <1>o, <1>n, <1>e DEF FinalRelease, EffectPcs, BacklogOps, ForgeOps, Restores
<1>11. CASE Crash
  <2>1. pc # "idle" /\ pc' = "idle" /\ call' = "idle" /\ loc' = FreshLocals("none") /\ st' = st
        /\ row' = row /\ pc' \in Ending /\ pc' \notin Restores
    BY <1>11, <1>e DEF Crash, Restores
  <2>2. UNCHANGED <<cfg, run, leaseRow, lease, remote, evidence>>
    BY <1>11 DEF Crash
  <2> QED BY <2>1, <2>2
<1> QED BY <1>1, <1>2, <1>3, <1>4, <1>5, <1>6, <1>7, <1>8, <1>9, <1>10, <1>11

\* What quits keeps the types.
LEMMA QuitsKeepsTypes ==
  ASSUME TypeInv, Quits PROVE TypeInv'
<1>r. run \in Runs /\ run' = run /\ cfg' = cfg /\ cfg \in Configs
  BY DEF TypeInv, Placed, Quits, TypeOK
<1>c. call # "idle" => Current \in Runs \X Ops
  BY CurrentTyped DEF TypeInv, Placed
<1>l. loc' \in Locals'
  <2>1. Locals' = Locals
    BY <1>r DEF Locals, MaxReviews
  <2>2. loc \in Locals
    BY DEF TypeInv, TypeOK, Locals
  <2>3. FreshLocals("none") \in Locals
    BY <1>r, FreshTyped
  <2> QED BY <2>1, <2>2, <2>3 DEF Quits
<1>1. TypeOK'
  <2>1. row' \in [Runs \X Ops -> Statuses]
    BY <1>c DEF Quits, TypeInv, TypeOK, Statuses
  <2>2. st' \in [Runs -> RunStates]
    BY DEF Quits, TypeInv, TypeOK
  <2>3. lease' \in Leases /\ leaseRow' \in 0 .. MaxRuns
    BY <1>r DEF Quits, TypeInv, TypeOK, Leases, Runs
  <2>4. pc' \in Pcs
    BY PcSets DEF Quits
  <2> QED BY <1>r, <1>l, <2>1, <2>2, <2>3, <2>4 DEF Quits, TypeInv, TypeOK, Locals, Statuses,
      Leases,
        remote, evidence
<1>2. Placed'
  BY <1>r, PcSets DEF Placed, Quits, Runs
<1>3. Unstarted'
  <2> SUFFICES ASSUME NEW r \in Runs, r > run
               PROVE  /\ st'[r] = st[r] /\ cand'[r] = cand[r] /\ pr'[r] = pr[r]
                      /\ \A o \in Ops : row'[<<r, o>>] = row[<<r, o>>]
    BY <1>r DEF Unstarted, TypeInv
  <2>1. r # run
    BY <1>r DEF Runs
  <2>2. st'[r] = st[r] /\ cand'[r] = cand[r] /\ pr'[r] = pr[r]
    BY <2>1, <1>r DEF Quits, TypeInv, TypeOK, remote, evidence
  <2>3. ASSUME NEW o \in Ops PROVE row'[<<r, o>>] = row[<<r, o>>]
    <3>1. <<r, o>> # Current /\ <<r, o>> \in Runs \X Ops
      BY <2>1 DEF Current
    <3> QED BY <3>1, <1>c DEF Quits, TypeInv, TypeOK
  <2> QED BY <2>2, <2>3
<1>4. Counted'
  <2>1. loc'.count["prFixer"] <= cfg.cap["prFixer"]
    <3>1. loc.count["prFixer"] <= cfg.cap["prFixer"] /\ cfg.cap["prFixer"] \in Nat
      BY <1>r DEF TypeInv, Counted, Limits
    <3>2. FreshLocals("none").count["prFixer"] = 0
      BY DEF FreshLocals, Limits
    <3> QED BY <3>1, <3>2 DEF Quits
  <2>2. pc' \in Ending
    BY DEF Quits
  <2> QED BY <2>1, <2>2, <1>r DEF Counted, Ending, Restores
<1> QED BY <1>1, <1>2, <1>3, <1>4 DEF TypeInv

\* What proof[r] ranges over.
Proofs == [verified : {NoSha} \cup Shas, ci : {NoSha} \cup Shas,
           reviewed : {NoSha} \cup Shas, allowed : {NoSha} \cup Shas]

\* What the typing invariant says, in the forms the proofs use.
LEMMA TypeFacts ==
  ASSUME TypeInv
  PROVE  /\ cfg \in Configs /\ loc \in Locals /\ st \in [Runs -> RunStates]
         /\ proof \in [Runs -> Proofs] /\ cand \in [Runs -> Shas]
         /\ cfg.fixes \in Nat /\ cfg.polls \in Nat /\ \A l \in Limits : cfg.cap[l] \in Nat
         /\ MaxReviews \in Nat /\ loc.iter \in 0 .. cfg.fixes /\ loc.polls \in 0 .. cfg.polls
         /\ loc.attempt \in 0 .. MaxReviews /\ loc.count \in [Limits -> Nat]
         /\ loc.count["prFixer"] \in Nat /\ loc.count["prFixer"] <= cfg.cap["prFixer"]
         /\ cfg.cap["prFixer"] \in Nat
         /\ run \in 0 .. MaxRuns /\ (pc # "idle" => run \in Runs /\ cand[run] \in Nat)
<1>1. cfg \in Configs /\ loc \in Locals /\ st \in [Runs -> RunStates]
         /\ proof \in [Runs -> Proofs] /\ cand \in [Runs -> Shas] /\ run \in 0 .. MaxRuns
  BY DEF TypeInv, TypeOK, Locals, Proofs
<1>2. MaxReviews \in Nat
  BY <1>1, MaxReviewsFacts
<1>3. loc.iter \in 0 .. cfg.fixes /\ loc.polls \in 0 .. cfg.polls
         /\ loc.attempt \in 0 .. MaxReviews /\ loc.count \in [Limits -> Nat]
  BY <1>1 DEF Locals
<1>4. cfg.fixes \in Nat /\ cfg.polls \in Nat /\ cfg.cap \in [Limits -> Nat]
  BY <1>1
<1>5. "prFixer" \in Limits
  BY DEF Limits
<1>6. loc.count["prFixer"] <= cfg.cap["prFixer"]
  BY DEF TypeInv, Counted
<1>7. pc # "idle" => run \in Runs /\ cand[run] \in Nat
  BY <1>1, ShasFacts DEF TypeInv, Placed
<1> QED BY <1>1, <1>2, <1>3, <1>4, <1>5, <1>6, <1>7

\* RunBudget.beginInvocation counts the role and the total.
LEMMA Spending ==
  ASSUME TypeInv, NEW role \in Limits \ {"total"}
  PROVE  /\ Invoked(role) \in [Limits -> Nat]
         /\ Invoked(role)["prFixer"] =
              IF role = "prFixer" THEN loc.count["prFixer"] + 1 ELSE loc.count["prFixer"]
  BY TypeFacts DEF Invoked, Limits

\* A changed field leaves the local variables typed.
LEMMA LocalsUpdate ==
  ASSUME TypeInv
  PROVE  /\ \A i \in 0 .. cfg.fixes : [loc EXCEPT !.iter = i] \in Locals
         /\ \A p \in 0 .. cfg.polls : [loc EXCEPT !.polls = p] \in Locals
         /\ \A c \in [Limits -> Nat] : [loc EXCEPT !.count = c] \in Locals
         /\ \A c \in [Limits -> Nat], a \in 0 .. MaxReviews :
              [loc EXCEPT !.count = c, !.attempt = a] \in Locals
  BY TypeFacts DEF Locals

\* What the steps of the body have in common that call no effect.
Works ==
  /\ pc \in BodyPcs \ (EffectPcs \cup {"release"})
  /\ pc' \in BodyPcs /\ call = "idle"
  /\ loc' \in Locals /\ loc'.opened = loc.opened /\ loc'.held = loc.held
  /\ cand' = cand
     \/ (pc = "agent" /\ cand' = [cand EXCEPT ![run] = @ + 1] /\ cand[run] + 1 \in Shas)
  /\ \E x \in Proofs : proof' = [proof EXCEPT ![run] = x]
  /\ st' = st \/ \E s \in RunStates \ Done : st' = [st EXCEPT ![run] = s]
  /\ Local

\* A commit within the bound has a number.
LEMMA CommitFits ==
  ASSUME TypeInv, pc # "idle", NEW n \in Nat,
         n <= cfg.fixes + 1 + loc.count["prFixer"]
  PROVE  n \in Shas
<1> DEFINE k == loc.count["prFixer"]
           m == cfg.cap["prFixer"]
<1>1. k \in Nat /\ m \in Nat /\ k <= m /\ cfg \in Configs /\ cfg.fixes \in Nat
  BY TypeFacts
<1>2. n <= cfg.fixes + 1 + k
  OBVIOUS
<1>3. 0 .. (cfg.fixes + 1 + m) \subseteq Shas
  BY <1>1, ShasFacts
<1> HIDE DEF k, m
<1> QED BY <1>1, <1>2, <1>3

\* A passed verification is evidence: by MergeReadyPreserves, recording it
\* records the commit that was verified.
LEMMA Verifying ==
  ASSUME TypeInv, run \in Runs, NEW sha \in Shas, Verified(sha)
  PROVE  proof' = [proof EXCEPT ![run].verified = sha]
<1>1. PICK v \in Verdicts : /\ v.ready
                      /\ proof' = [proof EXCEPT ![run].verified = IF v.holds THEN sha ELSE NoSha]
  BY DEF Verified
<1>2. PICK w \in Verifications :
        v = [ready |-> Engine!MergeReady(w), holds |-> Engine!Preserves(w)]
  BY DEF Verdicts
<1>3. v.ready = Engine!MergeReady(w) /\ v.holds = Engine!Preserves(w)
  BY <1>2
<1>4. v.holds
  BY <1>1, <1>3, MergeReadyPreserves
<1> QED BY <1>1, <1>4

\* A changed field of its evidence is a change of the run's evidence only.
LEMMA OwnProof ==
  ASSUME TypeInv, run \in Runs
  PROVE  /\ \E y \in Proofs : proof = [proof EXCEPT ![run] = y]
         /\ \A x \in {NoSha} \cup Shas :
              /\ \E y \in Proofs : [proof EXCEPT ![run].verified = x] = [proof EXCEPT ![run] = y]
              /\ \E y \in Proofs : [proof EXCEPT ![run].ci = x] = [proof EXCEPT ![run] = y]
              /\ \E y \in Proofs : [proof EXCEPT ![run].reviewed = x] = [proof EXCEPT ![run] = y]
              /\ \E y \in Proofs : [proof EXCEPT ![run].allowed = x] = [proof EXCEPT ![run] = y]
<1>1. proof[run] \in Proofs /\ proof \in [Runs -> Proofs]
  BY TypeFacts
<1>2. proof = [proof EXCEPT ![run] = proof[run]]
  BY <1>1
<1>3. \A x \in {NoSha} \cup Shas :
      /\ [proof[run] EXCEPT !.verified = x] \in Proofs /\ [proof[run] EXCEPT !.ci = x] \in Proofs
      /\ [proof[run] EXCEPT !.reviewed = x] \in Proofs
         /\ [proof[run] EXCEPT !.allowed = x] \in Proofs
  BY <1>1 DEF Proofs
<1> QED BY <1>1, <1>2, <1>3

\* The steps of the body other than its effects.
Work ==
  \/ CreateWorkspace \/ BuildPacket \/ StartAgent \/ AgentReturns
  \/ VerifyPasses \/ VerifyFails \/ ReviewPasses \/ ReviewBlocks
  \/ HeadChecked \/ CiWaits \/ CiPolls \/ CiSatisfied
  \/ StartPrReview \/ PrReviewPasses \/ PrReviewBlocks \/ PrFixReturns \/ ReverifyPasses
  \/ DeliverPr \/ MergeAllowed \/ MergeChecked

\* The steps that implement, verify, review and wait are work: they change the
\* run's own variables, and keep its loops bounded.
LEMMA Working ==
  ASSUME TypeInv, Work
  PROVE  Works /\ Counted'
<1>i. call # "idle" => pc \in EffectPcs
  BY DEF TypeInv, Placed
<1>t. pc # "idle" => run \in Runs
  BY DEF TypeInv, Placed
<1>l. loc \in Locals /\ loc.opened \in BOOLEAN
  BY TypeFacts DEF Locals
<1>c. Counted
  BY DEF TypeInv
<1>p. pc # "idle" => \E x \in Proofs : proof = [proof EXCEPT ![run] = x]
  BY <1>t, OwnProof
<1> USE <1>i, <1>t, <1>l DEF Works, BodyPcs, EffectPcs, BacklogOps, ForgeOps, Restores, Local,
    evidence
<1>1. CASE CreateWorkspace \/ BuildPacket \/ PrFixReturns \/ CiWaits \/ DeliverPr \/ MergeChecked
           \/ ReviewPasses
  <2> USE DEF CreateWorkspace, BuildPacket, PrFixReturns, CiWaits, DeliverPr, MergeChecked,
      ReviewPasses
  <2>1. Works
    BY <1>1, <1>p DEF Advance, RunStates, Done
  <2>2. Counted'
    BY <1>1, <1>c, TypeFacts DEF Counted, Ending, Bound
  <2> QED BY <2>1, <2>2
<1>2. CASE StartAgent
  <2>1. ImplementRole \in Limits \ {"total", "prFixer"}
    BY DEF ImplementRole, Limits
  <2>2. Invoked(ImplementRole) \in [Limits -> Nat]
        /\ Invoked(ImplementRole)["prFixer"] = loc.count["prFixer"]
    BY <2>1, Spending
  <2>3. loc' = [loc EXCEPT !.count = Invoked(ImplementRole)] /\ loc' \in Locals
        /\ loc'.opened = loc.opened /\ loc'.held = loc.held
    <3>1. loc' = [loc EXCEPT !.count = Invoked(ImplementRole)]
      BY <1>2 DEF StartAgent
    <3> QED BY <3>1, <2>2, LocalsUpdate DEF Locals
  <2>4. Works
    BY <1>2, <2>3, <1>p DEF StartAgent, Advance, RunStates, Done
  <2>5. Counted'
    BY <1>2, <1>c, <2>3, <2>2, TypeFacts DEF StartAgent, Counted, Ending, Bound, Locals
  <2> QED BY <2>4, <2>5
<1>3. CASE AgentReturns
  <2>1. PICK new \in {0, 1} : cand' = [cand EXCEPT ![run] = @ + new]
    BY <1>3 DEF AgentReturns
  <2>2. cand[run] \in Nat /\ cand[run] <= loc.iter /\ loc.iter <= cfg.fixes /\ loc.iter \in Nat
        /\ cfg.fixes \in Nat /\ cand \in [Runs -> Shas] /\ pc = "agent" /\ run \in Runs
        /\ loc.count["prFixer"] \in Nat
    BY <1>3, <1>c, TypeFacts DEF AgentReturns, Counted
  <2>3. cand[run] + 1 \in Shas
    <3> DEFINE k == loc.count["prFixer"]
    <3>1. k \in Nat
      BY <2>2
    <3> HIDE DEF k
    <3>2. cand[run] + 1 <= cfg.fixes + 1 + k /\ cand[run] + 1 \in Nat
      BY <2>2, <3>1
    <3> QED BY <3>2, <2>2, CommitFits DEF k
  <2>4. cand' = cand \/ cand' = [cand EXCEPT ![run] = @ + 1]
    <3>1. CASE new = 0
      <4>1. cand[run] + new = cand[run]
        BY <2>2, <3>1
      <4> QED BY <2>1, <2>2, <4>1
    <3>2. CASE new = 1
      BY <2>1, <3>2
    <3> QED BY <3>1, <3>2
  <2>5. Works
    BY <1>3, <2>3, <2>4, <1>p DEF AgentReturns, Advance, RunStates, Done
  <2>6. cand'[run] <= loc.iter + 1 /\ cand'[run] <= Bound
    BY <2>1, <2>2 DEF Bound
  <2>7. Counted'
    BY <1>3, <1>c, <2>6 DEF AgentReturns, Counted, Ending, Bound
  <2> QED BY <2>5, <2>7
<1>4. CASE VerifyPasses
  <2>1. "localReview" \in Limits \ {"total", "prFixer"}
    BY DEF Limits
  <2>2. Invoked("localReview") \in [Limits -> Nat]
        /\ Invoked("localReview")["prFixer"] = loc.count["prFixer"]
    BY <2>1, Spending
  <2>3. loc' = [loc EXCEPT !.count = Invoked("localReview")] /\ loc' \in Locals
        /\ loc'.opened = loc.opened /\ loc'.held = loc.held
    <3>1. loc' = [loc EXCEPT !.count = Invoked("localReview")]
      BY <1>4 DEF VerifyPasses
    <3> QED BY <3>1, <2>2, LocalsUpdate DEF Locals
  <2>4. \E x \in Proofs : proof' = [proof EXCEPT ![run] = x]
    <3>1. run \in Runs /\ cand[run] \in Shas
      BY <1>4, TypeFacts DEF VerifyPasses
    <3>2. proof' = [proof EXCEPT ![run].verified = cand[run]]
      BY <1>4, <3>1, Verifying DEF VerifyPasses
    <3> QED BY <3>1, <3>2, OwnProof
  <2>5. Works
    BY <1>4, <2>3, <2>4 DEF VerifyPasses, Advance, RunStates, Done
  <2>6. Counted'
    BY <1>4, <1>c, <2>3, <2>2, TypeFacts DEF VerifyPasses, Counted, Ending, Bound, Locals
  <2> QED BY <2>5, <2>6
<1>5. CASE VerifyFails \/ ReviewBlocks
  <2>1. Retry /\ pc \in {"verify", "review"} /\ UNCHANGED <<st, evidence>> /\ Local
    BY <1>5 DEF VerifyFails, ReviewBlocks
  <2>2. loc.iter + 1 \in 0 .. cfg.fixes
    BY <2>1, TypeFacts DEF Retry
  <2>3. loc' = [loc EXCEPT !.iter = loc.iter + 1] /\ loc' \in Locals
    BY <2>1, <2>2, LocalsUpdate, TypeFacts DEF Retry
  <2>a. loc'.opened = loc.opened /\ loc'.held = loc.held
    BY <2>3, <1>l DEF Locals
  <2>4. Works
    BY <2>1, <2>3, <2>a, <1>p DEF Retry
  <2>5. loc'.iter = loc.iter + 1 /\ loc'.count = loc.count
    BY <2>3 DEF Locals
  <2>6. Counted'
    BY <2>1, <1>c, <2>5, TypeFacts DEF Retry, Counted, Ending, Bound
  <2> QED BY <2>4, <2>6
<1>6. CASE HeadChecked \/ CiPolls
  <2>1. \E p \in 0 .. cfg.polls : loc' = [loc EXCEPT !.polls = p]
    BY <1>6, <1>c, TypeFacts DEF HeadChecked, CiPolls, Polled, Counted
  <2>2. loc' \in Locals /\ loc'.count = loc.count /\ loc'.opened = loc.opened
        /\ loc'.held = loc.held
    BY <2>1, LocalsUpdate DEF Locals
  <2>3. Works
    BY <1>6, <2>2, <1>p DEF HeadChecked, CiPolls, AfterHead, Advance, RunStates, Done
  <2>4. Counted'
    BY <1>6, <1>c, <2>2 DEF HeadChecked, CiPolls, AfterHead, Counted, Ending, Bound
  <2> QED BY <2>3, <2>4
<1>7. CASE CiSatisfied \/ PrReviewPasses \/ MergeAllowed
  <2>1. run \in Runs /\ cand[run] \in Shas
    BY <1>7, TypeFacts DEF CiSatisfied, PrReviewPasses, MergeAllowed
  <2>2. \E x \in Proofs : proof' = [proof EXCEPT ![run] = x]
    <3>1. PICK x \in {NoSha} \cup Shas :
            \/ proof' = [proof EXCEPT ![run].ci = x]
            \/ proof' = [proof EXCEPT ![run].reviewed = x]
            \/ proof' = [proof EXCEPT ![run].allowed = x]
      BY <1>7, <2>1 DEF CiSatisfied, PrReviewPasses, MergeAllowed
    <3>2. /\ \E y \in Proofs : [proof EXCEPT ![run].ci = x] = [proof EXCEPT ![run] = y]
          /\ \E y \in Proofs : [proof EXCEPT ![run].reviewed = x] = [proof EXCEPT ![run] = y]
          /\ \E y \in Proofs : [proof EXCEPT ![run].allowed = x] = [proof EXCEPT ![run] = y]
      BY <2>1, OwnProof
    <3> QED BY <3>1, <3>2
  <2>3. Works
    BY <1>7, <2>2 DEF CiSatisfied, PrReviewPasses, MergeAllowed, Advance, RunStates, Done
  <2>4. Counted'
    BY <1>7, <1>c DEF CiSatisfied, PrReviewPasses, MergeAllowed, Counted, Ending, Bound
  <2> QED BY <2>3, <2>4
<1>8. CASE StartPrReview
  <2>1. "prReview" \in Limits \ {"total", "prFixer"}
    BY DEF Limits
  <2>2. Invoked("prReview") \in [Limits -> Nat]
        /\ Invoked("prReview")["prFixer"] = loc.count["prFixer"]
    BY <2>1, Spending
  <2>a. loc.attempt + 1 \in 0 .. MaxReviews
    BY <1>8, TypeFacts DEF StartPrReview
  <2>3. loc' = [loc EXCEPT !.count = Invoked("prReview"), !.attempt = loc.attempt + 1]
        /\ loc' \in Locals
        /\ loc'.opened = loc.opened /\ loc'.held = loc.held
    <3>1. loc' = [loc EXCEPT !.count = Invoked("prReview"), !.attempt = loc.attempt + 1]
      BY <1>8, <1>l DEF StartPrReview, Locals
    <3> QED BY <3>1, <2>2, <2>a, LocalsUpdate DEF Locals
  <2>5. Works
    BY <1>8, <2>3, <1>p DEF StartPrReview, Advance, RunStates, Done
  <2>6. Counted'
    BY <1>8, <1>c, <2>3, <2>2, TypeFacts DEF StartPrReview, Counted, Ending, Bound, Locals
  <2> QED BY <2>5, <2>6
<1>9. CASE PrReviewBlocks
  <2>1. "prFixer" \in Limits \ {"total"}
    BY DEF Limits
  <2>2. Invoked("prFixer") \in [Limits -> Nat]
        /\ Invoked("prFixer")["prFixer"] = loc.count["prFixer"] + 1
    BY <2>1, Spending
  <2>3. loc' = [loc EXCEPT !.count = Invoked("prFixer")] /\ loc' \in Locals
        /\ loc'.opened = loc.opened /\ loc'.held = loc.held
    <3>1. loc' = [loc EXCEPT !.count = Invoked("prFixer")]
      BY <1>9 DEF PrReviewBlocks
    <3> QED BY <3>1, <2>2, LocalsUpdate DEF Locals
  <2>5. Works
    BY <1>9, <2>3, <1>p DEF PrReviewBlocks, Advance, RunStates, Done
  <2>6. Counted'
    <3> DEFINE k == loc.count["prFixer"]
    <3>1. k \in Nat /\ cand[run] \in Nat /\ cfg.fixes \in Nat /\ pc' = "pr-fix" /\ pc = "pr-review"
          /\ cand' = cand /\ cfg' = cfg /\ run' = run
      BY <1>9, TypeFacts DEF PrReviewBlocks
    <3>2. loc'.count["prFixer"] = k + 1
      BY <2>2, <2>3 DEF Locals
    <3>3. cand[run] <= cfg.fixes + 1 + k
      BY <1>c, <3>1 DEF Counted, Ending, Bound
    <3>4. k + 1 <= cfg.cap["prFixer"]
      BY <1>9, TypeFacts DEF PrReviewBlocks, CanInvoke
    <3> HIDE DEF k
    <3>5. cand[run] + 1 <= cfg.fixes + 1 + (k + 1) /\ cand[run] <= cfg.fixes + 1 + (k + 1)
      BY <3>1, <3>3
    <3> QED BY <3>1, <3>2, <3>4, <3>5 DEF Counted, Bound
  <2> QED BY <2>5, <2>6
<1>10. CASE ReverifyPasses
  <2>1. run \in Runs /\ cand[run] \in Nat /\ cand[run] + 1 <= cfg.fixes + 1 + loc.count["prFixer"]
    BY <1>10, <1>c, TypeFacts DEF ReverifyPasses, Counted, Bound
  <2>2. cand[run] + 1 \in Shas
    BY <1>10, <2>1, CommitFits DEF ReverifyPasses
  <2>3. \E x \in Proofs : proof' = [proof EXCEPT ![run] = x]
    <3>1. proof' = [proof EXCEPT ![run].verified = cand[run] + 1]
      BY <1>10, <2>1, <2>2, Verifying DEF ReverifyPasses, RecordReverified
    <3> QED BY <2>1, <2>2, <3>1, OwnProof
  <2>4. Works
    BY <1>10, <2>3 DEF ReverifyPasses
  <2>5. Counted'
    BY <1>10, <1>c DEF ReverifyPasses, Counted, Ending, Bound
  <2> QED BY <2>4, <2>5
<1> QED BY <1>1, <1>2, <1>3, <1>4, <1>5, <1>6, <1>7, <1>8, <1>9, <1>10 DEF Work

\* Work keeps the types.
LEMMA WorksKeepsTypes ==
  ASSUME TypeInv, Works, Counted' PROVE TypeInv'
<1>r. run \in Runs /\ run' = run /\ cfg' = cfg /\ pc # "idle" /\ pc' \in Pcs /\ pc' # "idle"
      /\ call' = "idle"
  BY DEF TypeInv, Placed, Works, Local, BodyPcs, EffectPcs, BacklogOps, ForgeOps, Restores, Pcs
<1>c. cand' \in [Runs -> Shas] /\ \A r \in Runs : r # run => cand'[r] = cand[r]
  BY <1>r, TypeFacts DEF Works
<1>p. proof' \in [Runs -> Proofs]
  BY <1>r, TypeFacts DEF Works
<1>s. st' \in [Runs -> RunStates] /\ \A r \in Runs : r # run => st'[r] = st[r]
  BY <1>r, TypeFacts DEF Works
<1>l. loc' \in Locals'
  BY <1>r DEF Works, Locals, MaxReviews
<1>1. TypeOK'
  BY <1>r, <1>c, <1>p, <1>s, <1>l DEF Works, Local, TypeInv, TypeOK, Locals, Proofs, remote
<1>2. Placed'
  <2>1. loc'.held
    BY DEF TypeInv, Placed, Works
  <2> QED BY <1>r, <2>1 DEF Placed, Runs
<1>3. Unstarted'
  BY <1>r, <1>c, <1>s DEF Unstarted, TypeInv, Works, Local, remote, Runs
<1> QED BY <1>1, <1>2, <1>3 DEF TypeInv

\* What the branches, the pull requests and the issue range over.
Heads == {NoSha, Foreign} \cup Shas
Prs == [state : {"none", "draft", "open", "closed", "merged"}, head : Heads]
Issues == [state : {"prior", "claimed", "delivered", "completed"}, assignee : {"none", "bot"}]

\* The types of what is kept outside of the run.
LEMMA RemoteFacts ==
  ASSUME TypeInv
  PROVE  /\ issue \in Issues /\ branch \in [Runs -> Heads] /\ pr \in [Runs -> Prs]
         /\ applied \subseteq Runs \X Ops /\ attended \subseteq Runs
         /\ row \in [Runs \X Ops -> Statuses]
  BY DEF TypeInv, TypeOK, Issues, Prs, Heads, Statuses

\* The parts of an effect have their types.
LEMMA OpTargets ==
  ASSUME NEW e \in Runs \X Ops PROVE e[1] \in Runs /\ e[2] \in Ops /\ e[2][2] \in Shas
  BY ShasFacts DEF Ops

\* What an effect can change on the remote.
LEMMA Landing ==
  ASSUME TypeInv, NEW e \in Runs \X Ops, Land(e)
  PROVE  /\ applied' = applied \cup {e}
         /\ issue' \in Issues /\ branch' \in [Runs -> Heads] /\ pr' \in [Runs -> Prs]
         /\ \A r \in Runs : r # e[1] => pr'[r] = pr[r] /\ branch'[r] = branch[r]
<1> DEFINE r == e[1]
           SetPr(s) == /\ pr' = [pr EXCEPT ![r] = [state |-> s, head |-> branch[r]]]
                       /\ UNCHANGED <<issue, branch>>
           SetHead(h) == /\ branch' = [branch EXCEPT ![r] = h]
                         /\ pr' = [pr EXCEPT ![r].head =
                                     IF pr[r].state \in {"draft", "open"} THEN h ELSE @]
                         /\ UNCHANGED issue
<1>1. /\ r \in Runs /\ e[2][2] \in Shas /\ cand[r] \in Shas /\ issue \in Issues
      /\ branch \in [Runs -> Heads] /\ pr \in [Runs -> Prs] /\ applied' = applied \cup {e}
  BY RemoteFacts, TypeFacts, OpTargets DEF Land
<1>2. \/ issue' \in Issues /\ UNCHANGED <<branch, pr>>
      \/ \E h \in Shas : SetHead(h)
      \/ \E s \in {"draft", "open", "merged"} : SetPr(s)
  BY <1>1 DEF Land, Issues
<1>3. CASE issue' \in Issues /\ UNCHANGED <<branch, pr>>
  BY <1>1, <1>3
<1>4. ASSUME NEW h \in Shas, SetHead(h) PROVE issue' \in Issues /\ branch' \in [Runs -> Heads]
             /\ pr' \in [Runs -> Prs]
         /\ \A q \in Runs : q # e[1] => pr'[q] = pr[q] /\ branch'[q] = branch[q]
  BY <1>1, <1>4 DEF Heads, Prs
<1>5. ASSUME NEW s \in {"draft", "open", "merged"}, SetPr(s) PROVE issue' \in Issues
             /\ branch' \in [Runs -> Heads] /\ pr' \in [Runs -> Prs]
         /\ \A q \in Runs : q # e[1] => pr'[q] = pr[q] /\ branch'[q] = branch[q]
  <2>1. [state |-> s, head |-> branch[r]] \in Prs
    BY <1>1 DEF Prs
  <2> QED BY <1>1, <1>5, <2>1
<1> QED BY <1>1, <1>2, <1>3, <1>4, <1>5

\* Where #withOutbox returns to, effect by effect.
LEMMA AfterEffects ==
  ASSUME pc \in EffectPcs
  PROVE  \/ pc = "transition-claim" /\ AfterEffect \in {"assign-claim", "workspace"}
         \/ pc = "assign-claim" /\ AfterEffect = "workspace"
         \/ pc = "push" /\ AfterEffect = "open-pr"
         \/ pc = "open-pr" /\ AfterEffect \in {"mark-ready", "head-check"}
         \/ pc = "mark-ready" /\ AfterEffect = "head-check"
         \/ pc = "push-pr-fix" /\ AfterEffect = "head-after-fix"
         \/ pc = "transition-delivered" /\ AfterEffect = "comment-delivered"
         \/ pc = "merge" /\ AfterEffect \in {"transition-complete", "release"}
         \/ pc \in {"comment-delivered", "transition-complete"} /\ AfterEffect = "release"
         \/ pc = "restore-assignee" /\ AfterEffect = "restore-state"
         \/ pc = "restore-state" /\ AfterEffect = "final-release"
  BY DEF AfterEffect, EffectPcs, BacklogOps, ForgeOps, Restores

\* A confirmed effect does not end the run.
LEMMA StatesAfter ==
  ASSUME TypeInv, run \in Runs PROVE StateAfter = st[run] \/ StateAfter \in RunStates \ Done
  BY DEF StateAfter, RunStates, Done

\* Steps of the latest run leave the runs to come alone.
LEMMA UnstartedKept ==
  ASSUME TypeInv, run' = run,
         \A r \in Runs : r # run => /\ st'[r] = st[r] /\ cand'[r] = cand[r] /\ pr'[r] = pr[r]
                                   /\ \A o \in Ops : row'[<<r, o>>] = row[<<r, o>>]
  PROVE  Unstarted'
<1>1. \A r \in Runs : r > run => r # run
  BY TypeFacts DEF Runs
<1> QED BY <1>1 DEF TypeInv, Unstarted

\* The steps of #withOutbox up to the reply keep the types.
LEMMA EffectsKeepTypes ==
  ASSUME TypeInv, Intend \/ FencePasses \/ RemoteApplies \/ MergeFoundDone
  PROVE  TypeInv'
<1>1. pc \in EffectPcs
  BY DEF Intend, FencePasses, RemoteApplies, MergeFoundDone, TypeInv, Placed
<1>2. Current \in Runs \X Ops /\ run \in Runs
  BY <1>1, CurrentTyped DEF Current
<1>s. UNCHANGED <<cfg, run, pc, loc, st, leaseRow, lease, attended, evidence>>
  BY DEF Intend, FencePasses, RemoteApplies, MergeFoundDone, remote
<1>u. Placed' /\ Counted'
  BY <1>1, <1>2, <1>s DEF Placed, Counted, TypeInv, Bound, evidence, Runs
<1>l. Locals' = Locals
  BY <1>s DEF Locals, MaxReviews
<1>3. CASE Intend \/ FencePasses
  <2>1. PICK s \in Statuses : row' = [row EXCEPT ![Current] = s]
    BY <1>3 DEF Intend, FencePasses, Statuses
  <2>2. row' \in [Runs \X Ops -> Statuses] /\ \A r \in Runs : r # run
        => \A o \in Ops : row'[<<r, o>>] = row[<<r, o>>]
    BY <1>2, <2>1, RemoteFacts DEF Current
  <2>3. TypeOK'
    BY <1>3, <1>s, <2>2, <1>l, TypeFacts DEF Intend, FencePasses, TypeInv, TypeOK, remote,
        Statuses, Locals, evidence
  <2>4. Unstarted'
    <3>1. st' = st /\ cand' = cand /\ pr' = pr /\ run' = run
      BY <1>3, <1>s DEF Intend, FencePasses, remote, evidence
    <3> QED BY <3>1, <2>2, UnstartedKept
  <2> QED BY <1>u, <2>3, <2>4 DEF TypeInv
<1>4. CASE RemoteApplies \/ MergeFoundDone
  <2>1. /\ applied' \subseteq Runs \X Ops /\ issue' \in Issues /\ branch' \in [Runs -> Heads]
           /\ pr' \in [Runs -> Prs]
        /\ \A r \in Runs : r # run => pr'[r] = pr[r]
    <3>1. CASE RemoteApplies
      BY <1>2, <3>1, Landing, RemoteFacts DEF RemoteApplies, Current
    <3>2. CASE MergeFoundDone
      BY <1>2, <3>2, RemoteFacts DEF MergeFoundDone
    <3> QED BY <1>4, <3>1, <3>2
  <2>2. row' = row /\ call' = "reply"
    BY <1>4 DEF RemoteApplies, MergeFoundDone
  <2>3. TypeOK'
    BY <1>s, <2>1, <2>2, <1>l DEF TypeInv, TypeOK, Locals, evidence, Issues, Heads, Prs
  <2>4. Unstarted'
    BY <1>s, <2>1, <2>2, UnstartedKept DEF evidence
  <2> QED BY <1>u, <2>3, <2>4 DEF TypeInv
<1> QED BY <1>3, <1>4

\* So does the reply, which makes a pushed fix the candidate.
LEMMA ReplyKeepsTypes ==
  ASSUME TypeInv, ReplyArrives
  PROVE  TypeInv' /\ cand'[run] = IF pc = "push-pr-fix" THEN cand[run] + 1 ELSE cand[run]
<1>1. pc \in EffectPcs
  BY DEF ReplyArrives, TypeInv, Placed
<1>2. Current \in Runs \X Ops /\ run \in Runs
  BY <1>1, CurrentTyped DEF Current
<1>3. row' \in [Runs \X Ops -> Statuses] /\ \A r \in Runs : r # run
      => \A o \in Ops : row'[<<r, o>>] = row[<<r, o>>]
  BY <1>2, RemoteFacts DEF ReplyArrives, Current, Statuses
<1>4. pc = "push-pr-fix" => cand[run] + 1 \in Shas
  BY <1>1, CurrentTyped DEF CurOp, Ops
<1>5. cand' \in [Runs -> Shas]
      /\ cand'[run] = (IF pc = "push-pr-fix" THEN cand[run] + 1 ELSE cand[run])
      /\ \A r \in Runs : r # run => cand'[r] = cand[r]
  BY <1>2, <1>4, TypeFacts DEF ReplyArrives
<1>6. st' \in [Runs -> RunStates] /\ \A r \in Runs : r # run => st'[r] = st[r]
  <2>1. StateAfter \in RunStates
    BY <1>2, StatesAfter, TypeFacts
  <2> QED BY <1>2, <2>1, TypeFacts DEF ReplyArrives, Advance
<1>7. loc' \in Locals /\ loc'.count = loc.count /\ loc'.iter = loc.iter
  BY TypeFacts DEF ReplyArrives, Locals
<1>s. UNCHANGED <<cfg, run, leaseRow, lease, remote, proof>> /\ call' = "idle"
  BY DEF ReplyArrives
<1>l. Locals' = Locals
  BY <1>s DEF Locals, MaxReviews
<1>p. pc' = AfterEffect /\ pc' \in Pcs
  BY <1>1, AfterEffects DEF ReplyArrives, Pcs, BodyPcs, EffectPcs, BacklogOps, ForgeOps, Restores
<1>8. TypeOK'
  BY <1>3, <1>5, <1>6, <1>7, <1>s, <1>l, <1>p DEF TypeInv, TypeOK, Locals, Statuses, remote
<1>9. Placed'
  <2>1. pc \in BodyPcs \/ pc' \notin BodyPcs
    BY <1>1, <1>p, AfterEffects DEF BodyPcs, EffectPcs, BacklogOps, ForgeOps, Restores
  <2>2. loc'.held = loc.held
    BY TypeFacts DEF ReplyArrives, Locals
  <2> QED BY <1>2, <1>s, <2>1, <2>2 DEF TypeInv, Placed, Runs
<1>10. Unstarted'
  BY <1>3, <1>5, <1>6, <1>s, UnstartedKept DEF remote
<1>11. Counted'
  <2>1. Bound' = Bound
    BY <1>7, <1>s DEF Bound
  <2>2. cand'[run] <= Bound \/ pc' \in Ending
    BY <1>1, <1>5, <1>p, AfterEffects DEF TypeInv, Counted, Ending, Restores
  <2>3. CASE pc' \in {"assign-claim", "workspace"}
    BY <1>1, <1>5, <1>7, <1>s, <1>p, <2>1, <2>2, <2>3, AfterEffects DEF TypeInv, Counted, Ending,
        Restores
  <2>4. CASE pc' \notin {"assign-claim", "workspace"}
    BY <1>1, <1>5, <1>7, <1>s, <1>p, <2>1, <2>2, <2>4, AfterEffects DEF TypeInv, Counted, Ending,
        Restores
  <2> QED BY <2>3, <2>4
<1> QED BY <1>5, <1>8, <1>9, <1>10, <1>11 DEF TypeInv

\* So do the start of a run and its claim.
LEMMA StartKeepsTypes ==
  ASSUME TypeInv, StartRun \/ Acquires
  PROVE  TypeInv'
<1>1. CASE StartRun
  <2>1. run + 1 \in Runs /\ run' = run + 1 /\ run \in Nat
    <3>1. run \in 0 .. MaxRuns /\ run < cfg.runs /\ cfg.runs \in 0 .. MaxRuns
      BY <1>1, TypeFacts DEF StartRun
    <3> QED BY <1>1, <3>1 DEF StartRun, Runs
  <2>2. loc' \in Locals /\ loc' = FreshLocals(issue.assignee)
    BY <1>1, FreshTyped, TypeFacts, RemoteFacts DEF StartRun, Issues
  <2>3. st' \in [Runs -> RunStates] /\ \A r \in Runs : r # run + 1 => st'[r] = st[r]
    BY <1>1, <2>1, TypeFacts DEF StartRun, RunStates
  <2>s. UNCHANGED <<cfg, call, row, leaseRow, lease, remote, evidence>> /\ pc' = "acquire"
        /\ call = "idle"
    BY <1>1 DEF StartRun, TypeInv, Placed, EffectPcs, BacklogOps, ForgeOps, Restores
  <2>l. Locals' = Locals
    BY <2>s DEF Locals, MaxReviews
  <2>o. pc' \in Pcs /\ run' \in 0 .. MaxRuns
    BY <2>1, <2>s DEF Pcs, Runs
  <2>4. TypeOK'
    BY <2>o, <2>2, <2>3, <2>s, <2>l DEF TypeInv, TypeOK, Locals, remote, evidence
  <2>5. Placed'
    BY <2>1, <2>s DEF Placed, Runs, BodyPcs, EffectPcs, BacklogOps, ForgeOps, Restores
  <2>6. Unstarted'
    BY <2>1, <2>3, <2>s DEF TypeInv, Unstarted, Runs, remote, evidence
  <2>7. Counted'
    <3>1. cand[run + 1] = 0
      BY <2>1 DEF TypeInv, Unstarted
    <3>2. loc'.iter = 0 /\ loc'.count["prFixer"] = 0
      BY <2>2 DEF FreshLocals, Limits
    <3> QED BY <2>1, <2>s, <3>1, <3>2, TypeFacts DEF Counted, Ending, Restores, Bound, evidence
  <2> QED BY <2>4, <2>5, <2>6, <2>7 DEF TypeInv
<1>2. CASE Acquires
  <2>1. run \in Runs /\ pc = "acquire" /\ pc' = "transition-claim"
    BY <1>2 DEF Acquires, TypeInv, Placed
  <2>2. loc' \in Locals /\ loc'.count = loc.count /\ loc'.iter = loc.iter
    BY <1>2, TypeFacts DEF Acquires, Locals
  <2>3. st' \in [Runs -> RunStates] /\ \A r \in Runs : r # run => st'[r] = st[r]
    BY <1>2, <2>1, TypeFacts DEF Acquires, Advance, RunStates
  <2>s. UNCHANGED <<cfg, run, call, row, remote, evidence>> /\ lease' = run /\ leaseRow' = run
    BY <1>2 DEF Acquires
  <2>l. Locals' = Locals
    BY <2>s DEF Locals, MaxReviews
  <2>4. TypeOK'
    BY <2>1, <2>2, <2>3, <2>s, <2>l DEF TypeInv, TypeOK, Locals, remote, evidence, Pcs, BodyPcs,
       EffectPcs, BacklogOps, ForgeOps, Restores, Runs
  <2>5. Placed'
    <3>1. loc'.held
      BY <1>2, TypeFacts DEF Acquires, Locals
    <3> QED BY <2>1, <2>s, <3>1 DEF Placed, TypeInv, EffectPcs, BacklogOps, Runs
  <2>6. Unstarted'
    BY <2>3, <2>s, UnstartedKept DEF remote, evidence
  <2>7. Counted'
    BY <2>1, <2>2, <2>s DEF TypeInv, Counted, Ending, Restores, Bound, evidence
  <2> QED BY <2>4, <2>5, <2>6, <2>7 DEF TypeInv
<1> QED BY <1>1, <1>2

\* The environment outside of a run.
World ==
  \/ LeaseMoves \/ OperatorDeletesRef \/ OperatorResolvesLease \/ OperatorRestoresIssue
  \/ HumanTouchesPr \/ \E e \in Runs \X Ops : LandsLate(e) \/ OperatorResolves(e)

\* So does what other people, the network and the operator do.
LEMMA WorldKeepsTypes ==
  ASSUME TypeInv, World
  PROVE  TypeInv'
<1>s. UNCHANGED <<cfg, run, pc, call, loc, st, evidence>>
  BY DEF World, LeaseMoves, OperatorDeletesRef, OperatorResolvesLease, OperatorRestoresIssue,
         HumanTouchesPr, LandsLate, OperatorResolves
<1>l. Locals' = Locals
  BY <1>s DEF Locals, MaxReviews
<1>u. Counted'
  BY <1>s DEF Counted, TypeInv, Bound, evidence
<1>t. /\ applied \subseteq Runs \X Ops /\ issue \in Issues /\ branch \in [Runs -> Heads]
         /\ pr \in [Runs -> Prs]
      /\ attended \subseteq Runs /\ row \in [Runs \X Ops -> Statuses] /\ leaseRow \in 0 .. MaxRuns
      /\ lease \in Leases
  BY RemoteFacts DEF TypeInv, TypeOK, Leases
<1> DEFINE G ==
        /\ applied' \subseteq Runs \X Ops /\ issue' \in Issues /\ branch' \in [Runs -> Heads]
           /\ pr' \in [Runs -> Prs]
        /\ attended' \subseteq Runs /\ row' \in [Runs \X Ops -> Statuses]
           /\ leaseRow' \in 0 .. MaxRuns
        /\ lease' \in Leases
        /\ run = 0 => issue' = issue
        /\ \A r \in Runs : r > run
           => pr'[r] = pr[r] /\ \A o \in Ops : row'[<<r, o>>] = row[<<r, o>>]
<1>1. G
  <2>1. CASE LeaseMoves \/ OperatorDeletesRef \/ OperatorResolvesLease
    BY <1>t, <2>1 DEF LeaseMoves, OperatorDeletesRef, OperatorResolvesLease, Leases, Other, remote
  <2>2. CASE OperatorRestoresIssue
    <3>1. issue' \in Issues
      BY <2>2 DEF OperatorRestoresIssue, Issues
    <3>2. run \in Runs /\ run # 0
      <4>1. run # 0 /\ run \in 0 .. MaxRuns
        BY <2>2, TypeFacts DEF OperatorRestoresIssue, TypeInv, Placed
      <4> QED BY <4>1 DEF Runs
    <3>3. attended' \subseteq Runs
      BY <1>t, <2>2, <3>2 DEF OperatorRestoresIssue
    <3>4. UNCHANGED <<applied, branch, pr, row, leaseRow, lease>>
      BY <2>2 DEF OperatorRestoresIssue
    <3> QED BY <1>t, <3>1, <3>2, <3>3, <3>4
  <2>3. CASE HumanTouchesPr
    <3>1. run \in Runs
      BY <2>3, TypeFacts DEF HumanTouchesPr, Runs
    <3>2. \E b \in Heads, p \in Prs : branch' = [branch EXCEPT ![run] = b]
          /\ pr' = [pr EXCEPT ![run] = p]
      <4>1. branch[run] \in Heads /\ pr[run] \in Prs /\ Foreign \in Heads
        BY <1>t, <3>1 DEF Heads
      <4>2. branch = [branch EXCEPT ![run] = branch[run]]
        BY <1>t
      <4>3. CASE pr' = [pr EXCEPT ![run].head = Foreign]
                 /\ branch' = [branch EXCEPT ![run] = Foreign]
        <5>1. [pr[run] EXCEPT !.head = Foreign] \in Prs
          BY <4>1 DEF Prs
        <5> QED BY <4>1, <4>3, <5>1
      <4>4. CASE \E s \in {"closed", "merged"} : pr' = [pr EXCEPT ![run].state = s]
                 /\ branch' = branch
        <5>1. \A s \in {"closed", "merged"} : [pr[run] EXCEPT !.state = s] \in Prs
          BY <4>1 DEF Prs
        <5> QED BY <4>1, <4>2, <4>4, <5>1
      <4> QED BY <2>3, <4>3, <4>4 DEF HumanTouchesPr
    <3>3. branch' \in [Runs -> Heads] /\ pr' \in [Runs -> Prs] /\ \A r \in Runs : r # run
          => pr'[r] = pr[r]
      BY <1>t, <3>1, <3>2
    <3>4. \A r \in Runs : r > run => r # run
      BY <3>1 DEF Runs
    <3>5. UNCHANGED <<applied, issue, attended, row, leaseRow, lease>>
      BY <2>3 DEF HumanTouchesPr
    <3> QED BY <1>t, <3>3, <3>4, <3>5
  <2>4. ASSUME NEW e \in Runs \X Ops, LandsLate(e) PROVE G
    <3>1. ~(e[1] > run)
      <4>1. row[e] # "none"
        BY <2>4 DEF LandsLate
      <4>2. e[1] \in Runs /\ e[2] \in Ops /\ e = <<e[1], e[2]>>
        OBVIOUS
      <4> QED BY <4>1, <4>2 DEF TypeInv, Unstarted
    <3>2. run # 0
      BY <3>1, TypeFacts DEF Runs
    <3>3. \A r \in Runs : r > run => r # e[1]
      BY <3>1
    <3>4. UNCHANGED <<attended, row, leaseRow, lease>> /\ Land(e)
      BY <2>4 DEF LandsLate
    <3>5. /\ applied' = applied \cup {e} /\ issue' \in Issues /\ branch' \in [Runs -> Heads]
          /\ pr' \in [Runs -> Prs] /\ \A r \in Runs : r # e[1] => pr'[r] = pr[r]
      BY <3>4, Landing
    <3> QED BY <1>t, <3>2, <3>3, <3>4, <3>5
  <2>5. ASSUME NEW e \in Runs \X Ops, OperatorResolves(e) PROVE G
    <3>1. ~(e[1] > run)
      <4>1. row[e] # "none"
        BY <2>5 DEF OperatorResolves, Pending
      <4>2. e[1] \in Runs /\ e[2] \in Ops /\ e = <<e[1], e[2]>>
        OBVIOUS
      <4> QED BY <4>1, <4>2 DEF TypeInv, Unstarted
    <3>2. /\ applied' = applied /\ issue' = issue /\ branch' = branch /\ pr' = pr
          /\ leaseRow' = leaseRow /\ lease' = lease
      BY <2>5 DEF OperatorResolves
    <3>3. attended' \subseteq Runs
      BY <1>t, <2>5 DEF OperatorResolves
    <3>4. row' \in [Runs \X Ops -> Statuses] /\ \A r \in Runs : r # e[1]
          => \A o \in Ops : row'[<<r, o>>] = row[<<r, o>>]
      BY <1>t, <2>5 DEF OperatorResolves, Statuses
    <3>5. \A r \in Runs : r > run => r # e[1]
      BY <3>1
    <3>6. \A r \in Runs : r > run
          => pr'[r] = pr[r] /\ \A o \in Ops : row'[<<r, o>>] = row[<<r, o>>]
      BY <3>2, <3>4, <3>5
    <3>7. row' \in [Runs \X Ops -> Statuses]
      BY <3>4
    <3>8. /\ applied' \subseteq Runs \X Ops /\ issue' \in Issues /\ branch' \in [Runs -> Heads]
          /\ pr' \in [Runs -> Prs] /\ leaseRow' \in 0 .. MaxRuns /\ lease' \in Leases
      BY <1>t, <3>2
    <3> QED BY <3>2, <3>3, <3>6, <3>7, <3>8
  <2> QED BY <2>1, <2>2, <2>3, <2>4, <2>5 DEF World
<1>2. TypeOK'
  BY <1>s, <1>l, <1>1 DEF TypeInv, TypeOK, Locals, evidence, Issues, Heads, Prs, Leases, Statuses
<1>3. Unstarted'
  BY <1>s, <1>1 DEF TypeInv, Unstarted, evidence
<1>4. Placed'
  BY <1>s, <1>1 DEF TypeInv, Placed
<1> QED BY <1>u, <1>2, <1>3, <1>4 DEF TypeInv

\* How far a run has come.
Rank(p) ==
  CASE p = "acquire" -> 0
    [] p = "transition-claim" -> 1
    [] p = "assign-claim" -> 2
    [] p \in {"workspace", "packet", "implement", "agent", "verify", "review"} -> 3
    [] p = "push" -> 4
    [] p = "open-pr" -> 5
    [] p = "mark-ready" -> 6
    [] p = "transition-delivered" -> 8
    [] p = "comment-delivered" -> 9
    [] p = "merge" -> 10
    [] p = "transition-complete" -> 11
    [] p = "release" -> 12
    [] p = "restore-assignee" -> 13
    [] p = "restore-state" -> 14
    [] p = "final-release" -> 15
    [] OTHER -> 7

\* A run has performed only effects it has passed, and a fix only of a commit
\* it has passed: no effect is attempted twice.
Fresh ==
  pc # "idle" =>
    /\ \A p \in EffectPcs \ {"push-pr-fix"} :
         row[<<run, <<p, 0>>>>] # "none" => Rank(p) < Rank(pc) \/ (p = pc /\ call # "idle")
    /\ pc \notin Ending =>
         \A s \in Shas : row[<<run, <<"push-pr-fix", s>>>>] # "none" =>
            s <= cand[run] \/ (s = cand[run] + 1 /\ pc = "push-pr-fix" /\ call # "idle")

\* The ranks, one by one.
LEMMA RankValues ==
  /\ Rank("acquire") = 0 /\ Rank("transition-claim") = 1 /\ Rank("assign-claim") = 2
  /\ Rank("workspace") = 3 /\ Rank("packet") = 3 /\ Rank("implement") = 3 /\ Rank("agent") = 3
  /\ Rank("verify") = 3 /\ Rank("review") = 3 /\ Rank("push") = 4 /\ Rank("open-pr") = 5
  /\ Rank("mark-ready") = 6 /\ Rank("head-check") = 7 /\ Rank("ci") = 7 /\ Rank("ci-pause") = 7
  /\ Rank("evidence") = 7 /\ Rank("pr-review") = 7 /\ Rank("pr-fix") = 7 /\ Rank("reverify") = 7
  /\ Rank("push-pr-fix") = 7 /\ Rank("head-after-fix") = 7 /\ Rank("deliver") = 7
  /\ Rank("merge-check") = 7 /\ Rank("transition-delivered") = 8 /\ Rank("comment-delivered") = 9
  /\ Rank("merge") = 10 /\ Rank("transition-complete") = 11 /\ Rank("release") = 12
  /\ Rank("restore-assignee") = 13 /\ Rank("restore-state") = 14 /\ Rank("final-release") = 15
  BY DEF Rank

\* A rank is a small number.
LEMMA RankTyped == \A p \in Pcs : Rank(p) \in 0 .. 15
  BY DEF Rank

\* The body of run lies between the claim and the clean-up.
LEMMA RankOfBody == \A p \in BodyPcs : Rank(p) \in 1 .. 12
  BY RankValues DEF BodyPcs, EffectPcs, BacklogOps, ForgeOps, Restores

\* Loops of the body return to a place of the same rank at the earliest.
LEMMA WorkAdvances ==
  ASSUME Work PROVE Rank(pc) <= Rank(pc')
<1> USE RankValues
<1>1. CASE CreateWorkspace \/ BuildPacket \/ StartAgent \/ AgentReturns \/ VerifyPasses
           \/ ReviewPasses
  BY <1>1 DEF CreateWorkspace, BuildPacket, StartAgent, AgentReturns, VerifyPasses, ReviewPasses
<1>2. CASE VerifyFails \/ ReviewBlocks
  BY <1>2 DEF VerifyFails, ReviewBlocks, Retry
<1>3. CASE HeadChecked \/ CiWaits \/ CiPolls \/ CiSatisfied
  BY <1>3 DEF HeadChecked, CiWaits, CiPolls, CiSatisfied, AfterHead
<1>4. CASE StartPrReview \/ PrReviewPasses \/ PrReviewBlocks \/ PrFixReturns \/ ReverifyPasses
  BY <1>4 DEF StartPrReview, PrReviewPasses, PrReviewBlocks, PrFixReturns, ReverifyPasses
<1>5. CASE DeliverPr
  BY <1>5 DEF DeliverPr
<1>6. CASE MergeAllowed \/ MergeChecked
  BY <1>6 DEF MergeAllowed, MergeChecked
<1> QED BY <1>1, <1>2, <1>3, <1>4, <1>5, <1>6 DEF Work

\* Every step keeps the typing invariant.
LEMMA NextInvType == TypeInv /\ [Next]_vars => TypeInv'
<1> SUFFICES ASSUME TypeInv, [Next]_vars PROVE TypeInv'
  OBVIOUS
<1>1. CASE StartRun \/ Acquires
  BY <1>1, StartKeepsTypes
<1>2. CASE \/ Observes \/ AcquireFails \/ BodyThrows \/ FenceRefuses \/ ActFails \/ NotStarted
           \/ AwaitsApproval \/ Releases \/ ReleaseFails \/ FinalRelease \/ Crash
  BY <1>2, Quitting, QuitsKeepsTypes
<1>3. CASE Intend \/ FencePasses \/ RemoteApplies \/ MergeFoundDone
  BY <1>3, EffectsKeepTypes
<1>4. CASE ReplyArrives
  BY <1>4, ReplyKeepsTypes
<1>5. CASE Work
  BY <1>5, Working, WorksKeepsTypes
<1>6. CASE World
  BY <1>6, WorldKeepsTypes
<1>7. CASE UNCHANGED vars
  <2>1. TypeOK'
    BY <1>7 DEF vars, TypeInv, TypeOK, MaxReviews
  <2>2. Placed' /\ Unstarted' /\ Counted'
    BY <1>7 DEF vars, TypeInv, Placed, Unstarted, Counted, Bound
  <2> QED BY <2>1, <2>2 DEF TypeInv
<1> QED BY <1>1, <1>2, <1>3, <1>4, <1>5, <1>6, <1>7 DEF Next, RunStep, Environment, Work, World

-----------------------------------------------------------------------------

\* The keys of the side_effects rows.
LEMMA KeysTyped ==
  /\ \A p \in EffectPcs \ {"push-pr-fix"} : <<p, 0>> \in Ops
  /\ \A s \in Shas : <<"push-pr-fix", s>> \in Ops
  BY DEF Ops

\* Leaving the body leads past every effect asked for.
LEMMA QuitsKeepsFresh ==
  ASSUME TypeInv, Fresh, Quits PROVE Fresh'
<1> SUFFICES ASSUME pc' # "idle", NEW p \in EffectPcs \ {"push-pr-fix"},
                    row'[<<run, <<p, 0>>>>] # "none"
             PROVE  Rank(p) < Rank(pc')
  BY DEF Fresh, Quits
<1>1. pc # "idle" /\ run \in Runs /\ pc \in Pcs /\ p \in Pcs
  BY PcSets DEF Quits, TypeInv, Placed, TypeOK
<1>2. Rank(pc) < Rank(pc')
  <2>1. pc' \in {"restore-assignee", "restore-state", "final-release"}
    BY DEF Quits, Ending, Restores
  <2>2. CASE pc \in BodyPcs
    BY <2>1, <2>2, RankOfBody, RankValues
  <2>3. CASE pc = "acquire"
    BY <2>1, <2>3, RankValues
  <2>4. CASE pc \in Restores \cup {"final-release"}
    BY <2>1, <2>4, RankValues DEF Quits, Restores
  <2> QED BY <1>1, <2>2, <2>3, <2>4 DEF Pcs
<1>3. Rank(p) <= Rank(pc)
  <2>1. CASE row[<<run, <<p, 0>>>>] # "none"
    BY <1>1, <2>1, RankTyped DEF Fresh
  <2>2. CASE row[<<run, <<p, 0>>>>] = "none"
    <3>1. <<run, <<p, 0>>>> = Current
      BY <1>1, <2>2, RemoteFacts, KeysTyped DEF Quits
    <3>2. p = pc
      BY <3>1 DEF Current, CurOp
    <3> QED BY <3>2, <1>1, RankTyped
  <2> QED BY <2>1, <2>2
<1> QED BY <1>1, <1>2, <1>3, RankTyped, PcSets DEF Quits

\* Every step keeps it: no run asks twice for the same effect.
LEMMA NextFresh == TypeInv /\ TypeInv' /\ Fresh /\ [Next]_vars => Fresh'
<1> SUFFICES ASSUME TypeInv, TypeInv', Fresh, [Next]_vars PROVE Fresh'
  OBVIOUS
<1>1. CASE StartRun
  <2>1. run' = run + 1 /\ row' = row /\ run' \in Runs /\ run + 1 > run
    BY <1>1, TypeFacts DEF StartRun, TypeInv, Placed
  <2>2. \A o \in Ops : row'[<<run', o>>] = "none"
    BY <2>1 DEF TypeInv, Unstarted
  <2> QED BY <2>2, KeysTyped DEF Fresh
<1>2. CASE Acquires
  <2>1. pc = "acquire" /\ pc' = "transition-claim" /\ run' = run /\ row' = row /\ cand' = cand
        /\ call' = call
        /\ call = "idle"
    BY <1>2 DEF Acquires, evidence, TypeInv, Placed, EffectPcs, BacklogOps, ForgeOps, Restores
  <2>2. \A p \in EffectPcs : Rank(p) \in Nat
    BY RankTyped, PcSets
  <2> QED BY <2>1, <2>2, RankValues DEF Fresh, Ending, Restores
<1>3. CASE \/ Observes \/ AcquireFails \/ BodyThrows \/ FenceRefuses \/ ActFails \/ NotStarted
           \/ AwaitsApproval \/ Releases \/ ReleaseFails \/ FinalRelease \/ Crash
  BY <1>3, Quitting, QuitsKeepsFresh
<1>4. CASE Intend \/ FencePasses \/ RemoteApplies \/ MergeFoundDone
  <2>1. UNCHANGED <<run, pc, cand>> /\ call' # "idle"
    BY <1>4 DEF Intend, FencePasses, RemoteApplies, MergeFoundDone, evidence
  <2>2. \A o \in Ops : row'[<<run, o>>] = row[<<run, o>>] \/ o = CurOp
    BY <1>4, RemoteFacts DEF Intend, FencePasses, RemoteApplies, MergeFoundDone, Current, TypeInv,
        TypeOK, Placed
  <2>3. ASSUME pc # "idle", NEW p \in EffectPcs \ {"push-pr-fix"}, row'[<<run, <<p, 0>>>>] # "none"
        PROVE  Rank(p) < Rank(pc) \/ p = pc
    BY <2>2, <2>3, KeysTyped DEF Fresh, CurOp
  <2>4. ASSUME pc \notin Ending, NEW s \in Shas, row'[<<run, <<"push-pr-fix", s>>>>] # "none"
        PROVE  s <= cand[run] \/ (s = cand[run] + 1 /\ pc = "push-pr-fix")
    BY <2>2, <2>4, KeysTyped DEF Fresh, CurOp, Ending
  <2> QED BY <2>1, <2>3, <2>4 DEF Fresh
<1>5. CASE ReplyArrives
  <2>0. pc \in EffectPcs /\ pc # "idle" /\ run \in Runs
    BY <1>5, PcSets DEF ReplyArrives, TypeInv, Placed, EffectPcs, BacklogOps, ForgeOps, Restores
  <2>1. run' = run /\ call' = "idle" /\ pc' = AfterEffect
    BY <1>5 DEF ReplyArrives
  <2>2. \A o \in Ops : row'[<<run, o>>] = row[<<run, o>>] \/ o = CurOp
    BY <1>5, <2>0, RemoteFacts DEF ReplyArrives, Current
  <2>a. pc \in Pcs /\ pc' \in Pcs
    BY DEF TypeInv, TypeOK
  <2>3. \A p \in EffectPcs \cup {pc, pc'} : Rank(p) \in Nat
    BY <2>a, RankTyped, PcSets
  <2>4. Rank(pc) < Rank(pc') \/ (pc = "push-pr-fix" /\ pc' = "head-after-fix")
    BY <2>0, <2>1, AfterEffects, RankValues
  <2>5. ASSUME NEW p \in EffectPcs \ {"push-pr-fix"}, row'[<<run, <<p, 0>>>>] # "none"
        PROVE  Rank(p) < Rank(pc')
    <3>1. Rank(p) < Rank(pc) \/ p = pc
      BY <2>0, <2>2, <2>5, KeysTyped DEF Fresh, CurOp
    <3>2. pc = "push-pr-fix" => Rank(pc) = Rank("head-after-fix")
      BY RankValues
    <3> QED BY <3>1, <3>2, <2>3, <2>4
  <2>6. ASSUME pc' \notin Ending, NEW s \in Shas, row'[<<run, <<"push-pr-fix", s>>>>] # "none"
        PROVE  s <= cand'[run]
    <3>1. cand'[run] = (IF pc = "push-pr-fix" THEN cand[run] + 1 ELSE cand[run])
      BY <1>5, ReplyKeepsTypes
    <3>2. pc \notin Ending
      BY <2>0, <2>1, <2>6, AfterEffects DEF Ending, Restores
    <3>3. s <= cand[run] \/ (s = cand[run] + 1 /\ pc = "push-pr-fix")
      BY <2>0, <2>2, <2>6, <3>2, KeysTyped DEF Fresh, CurOp
    <3>4. s \in Nat /\ cand[run] \in Nat
      BY <2>0, ShasFacts, TypeFacts
    <3> QED BY <3>1, <3>3, <3>4
  <2> QED BY <2>1, <2>5, <2>6 DEF Fresh
<1>6. CASE Work
  <2>1. Works /\ Rank(pc) <= Rank(pc')
    BY <1>6, Working, WorkAdvances
  <2>2. pc # "idle" /\ pc \notin Ending /\ pc \in Pcs /\ pc' \in Pcs /\ call = "idle"
        /\ call' = "idle" /\ run' = run /\ row' = row
    BY <2>1, PcSets DEF Works, Local, Ending, TypeInv, TypeOK
  <2>3. cand[run] \in Nat /\ cand'[run] \in Nat /\ cand[run] <= cand'[run]
    BY <2>1, <2>2, TypeFacts DEF Works
  <2>4. \A p \in EffectPcs \cup {pc, pc'} : Rank(p) \in Nat
    BY <2>2, RankTyped, PcSets
  <2>5. Shas \subseteq Nat
    BY ShasFacts
  <2>6. ASSUME NEW p \in EffectPcs \ {"push-pr-fix"}, row[<<run, <<p, 0>>>>] # "none"
        PROVE  Rank(p) < Rank(pc')
    BY <2>1, <2>2, <2>4, <2>6 DEF Fresh
  <2>7. ASSUME NEW s \in Shas, row[<<run, <<"push-pr-fix", s>>>>] # "none"
        PROVE  s <= cand'[run]
    BY <2>2, <2>3, <2>5, <2>7 DEF Fresh
  <2> QED BY <2>2, <2>6, <2>7 DEF Fresh
<1>7. CASE World
  <2>1. UNCHANGED <<run, pc, call, cand>>
    BY <1>7 DEF World, LeaseMoves, OperatorDeletesRef, OperatorResolvesLease,
        OperatorRestoresIssue,
         HumanTouchesPr, LandsLate, OperatorResolves, evidence
  <2>2. pc # "idle" => \A o \in Ops : row'[<<run, o>>] = row[<<run, o>>]
    <3>1. CASE \E e \in Runs \X Ops : OperatorResolves(e)
      BY <3>1, RemoteFacts DEF OperatorResolves, Alive, TypeInv, Placed
    <3>2. CASE row' = row
      BY <3>2
    <3> QED BY <1>7, <3>1, <3>2 DEF World, LeaseMoves, OperatorDeletesRef, OperatorResolvesLease,
        OperatorRestoresIssue,
         HumanTouchesPr, LandsLate
  <2> QED BY <2>1, <2>2, KeysTyped DEF Fresh
<1>8. CASE UNCHANGED vars
  BY <1>8 DEF vars, Fresh
<1> QED BY <1>1, <1>2, <1>3, <1>4, <1>5, <1>6, <1>7, <1>8 DEF Next, RunStep, Environment, Work,
    World

\* What Outbox proves, for the effects of successive runs.
OP == INSTANCE OutboxProofs WITH
    Runs <- Runs, Ops <- Ops, NoOp <- <<"none", 0>>,
    phase <- [r \in Runs |-> CASE r > run -> "new" [] Alive(r) -> "running" [] OTHER -> "over"],
    call <- [r \in Runs |-> IF r = run THEN call ELSE "idle"],
    cur <- [r \in Runs |-> IF r = run /\ call # "idle" THEN CurOp ELSE <<"none", 0>>]

\* The values of the variables of Outbox.
phaseBar == [r \in Runs |-> CASE r > run -> "new" [] Alive(r) -> "running" [] OTHER -> "over"]
callBar == [r \in Runs |-> IF r = run THEN call ELSE "idle"]
curBar == [r \in Runs |-> IF r = run /\ call # "idle" THEN CurOp ELSE <<"none", 0>>]

\* No operation of Delivery is the placeholder of Outbox.
LEMMA NoOpIsNone == OP!NoOpAssumption
  BY DEF OP!NoOpAssumption, Ops, EffectPcs, BacklogOps, ForgeOps, Restores

\* The phase of a run, as Outbox sees it.
LEMMA PhaseBar ==
  ASSUME TypeInv
  PROVE  /\ phaseBar \in [Runs -> {"new", "running", "over"}]
         /\ \A r \in Runs : /\ phaseBar[r] = "new" <=> r > run
                            /\ phaseBar[r] = "running" <=> r = run /\ pc # "idle"
                            /\ phaseBar[r] = "over" <=> r < run \/ (r = run /\ pc = "idle")
<1> SUFFICES ASSUME NEW r \in Runs
             PROVE LET x == CASE r > run -> "new" [] Alive(r) -> "running" [] OTHER -> "over"
                   IN /\ x \in {"new", "running", "over"}
                      /\ x = "new" <=> r > run
                      /\ x = "running" <=> r = run /\ pc # "idle"
                      /\ x = "over" <=> r < run \/ (r = run /\ pc = "idle")
  BY DEF phaseBar
<1>1. run \in Nat /\ r \in Nat
  BY TypeFacts DEF Runs
<1>2. CASE r > run
  BY <1>1, <1>2 DEF Alive
<1>3. CASE Alive(r)
  BY <1>1, <1>3 DEF Alive
<1>4. CASE ~(r > run) /\ ~Alive(r)
  <2>1. r < run \/ (r = run /\ pc = "idle")
    BY <1>1, <1>4 DEF Alive
  <2> QED BY <1>1, <1>4, <2>1 DEF Alive
<1> QED BY <1>2, <1>3, <1>4

\* The initial states map to initial states of Outbox.
LEMMA InitBar == Init => OP!Init
  BY DEF Init, OP!Init, OP!Effects, Runs, Alive, NoSha

\* Starting a run maps to Start: its entry check found no effect in doubt.
LEMMA StartBar ==
  ASSUME TypeInv, TypeInv', StartRun
  PROVE  \E r \in Runs : OP!Start(r)
<1>1. run + 1 \in Runs /\ run' = run + 1 /\ run \in Nat /\ pc = "idle" /\ pc' = "acquire"
      /\ call = "idle" /\ call' = "idle"
      /\ row' = row /\ applied' = applied
  <2>1. run \in 0 .. MaxRuns /\ run < cfg.runs /\ cfg.runs \in 0 .. MaxRuns
    BY TypeFacts DEF StartRun
  <2> QED BY <2>1 DEF StartRun, Runs, TypeInv, Placed, EffectPcs, BacklogOps, ForgeOps, Restores,
      remote
<1>2. phaseBar[run + 1] = "new"
  BY <1>1, PhaseBar
<1>3. phaseBar' = [phaseBar EXCEPT ![run + 1] = "running"]
  <2>1. ASSUME NEW r \in Runs PROVE phaseBar'[r] = [phaseBar EXCEPT ![run + 1] = "running"][r]
    <3>1. r \in Nat
      BY DEF Runs
    <3>2. CASE r = run + 1
      BY <1>1, <3>2, PhaseBar DEF phaseBar, Alive
    <3>3. CASE r > run + 1
      BY <1>1, <3>1, <3>3 DEF phaseBar, Alive
    <3>4. CASE r < run + 1
      BY <1>1, <3>1, <3>4 DEF phaseBar, Alive
    <3> QED BY <1>1, <3>1, <3>2, <3>3, <3>4
  <2> QED BY <2>1 DEF phaseBar
<1>4. callBar' = callBar /\ curBar' = curBar
  BY <1>1 DEF callBar, curBar
<1>5. OP!Pending = {}
  BY DEF StartRun, NothingInDoubt, Pending, OP!Pending, OP!Effects, OP!PendingStatus
<1>6. PICK r \in Runs : r = run + 1
  BY <1>1
<1>7. OP!Start(r)
  BY <1>1, <1>2, <1>3, <1>4, <1>5, <1>6 DEF OP!Start, phaseBar, callBar, curBar
<1> QED BY <1>7

\* A run that goes on keeps its phase.
LEMMA SamePhase ==
  ASSUME run' = run, pc # "idle" <=> pc' # "idle"
  PROVE  phaseBar' = phaseBar
  BY DEF phaseBar, Alive

\* The steps of #withOutbox map to those of Outbox; Intend does because no
\* effect is asked for twice.
LEMMA EffectBar ==
  ASSUME TypeInv, TypeInv', Fresh, Intend \/ FencePasses \/ RemoteApplies \/ MergeFoundDone
  PROVE  \E r \in Runs : OP!RunStep(r)
<1>1. pc \in EffectPcs
  BY DEF Intend, FencePasses, RemoteApplies, MergeFoundDone, TypeInv, Placed
<1>2. run \in Runs /\ CurOp \in Ops /\ Current = <<run, CurOp>> /\ pc # "idle"
  BY <1>1, CurrentTyped DEF Current, TypeInv, Placed, EffectPcs, BacklogOps, ForgeOps, Restores
<1>r. PICK r \in Runs : r = run
  BY <1>2
<1>o. PICK o \in Ops : o = CurOp
  BY <1>2
<1>3. UNCHANGED <<run, pc, cand>> /\ CurOp' = CurOp /\ call' # "idle"
  BY DEF Intend, FencePasses, RemoteApplies, MergeFoundDone, evidence, CurOp
<1>4. phaseBar' = phaseBar /\ phaseBar[run] = "running"
  BY <1>2, <1>3, SamePhase, PhaseBar
<1>5. callBar' = [callBar EXCEPT ![run] = call'] /\ callBar[run] = call
  BY <1>2, <1>3 DEF callBar
<1>6. call # "idle" => curBar' = curBar /\ curBar[run] = CurOp
  BY <1>2, <1>3 DEF curBar
<1>7. CASE Intend
  <2>1. curBar' = [curBar EXCEPT ![run] = CurOp]
    BY <1>2, <1>3 DEF curBar
  <2>2. row[<<run, CurOp>>] = "none"
    <3>1. CASE pc = "push-pr-fix"
      <4>1. cand[run] + 1 \in Shas /\ cand[run] \in Nat /\ pc \notin Ending
            /\ CurOp = <<"push-pr-fix", cand[run] + 1>>
        BY <1>2, <3>1, TypeFacts DEF CurOp, Ops, Ending, Restores
      <4>2. ~(cand[run] + 1 <= cand[run])
        BY <4>1
      <4> QED BY <1>2, <1>7, <4>1, <4>2 DEF Fresh, Intend
    <3>2. CASE pc # "push-pr-fix"
      <4>1. CurOp = <<pc, 0>> /\ Rank(pc) \in Nat
        BY <3>2, <1>1, RankTyped, PcSets DEF CurOp
      <4> QED BY <1>1, <1>2, <1>7, <3>2, <4>1 DEF Fresh, Intend
    <3> QED BY <3>1, <3>2
  <2>3. call = "idle" /\ row' = [row EXCEPT ![<<run, CurOp>>] = "intended"] /\ call' = "fence"
        /\ applied' = applied
    BY <1>2, <1>7 DEF Intend, remote
  <2>4. OP!Intend(r, o)
    BY <1>r, <1>o, <1>4, <1>5, <2>1, <2>2, <2>3 DEF OP!Intend, phaseBar, callBar, curBar
  <2> QED BY <2>4 DEF OP!RunStep
<1>8. CASE FencePasses
  <2>1. call = "fence" /\ row' = [row EXCEPT ![<<run, CurOp>>] = "inFlight"] /\ call' = "act"
        /\ applied' = applied
    BY <1>2, <1>8 DEF FencePasses, remote
  <2>2. OP!FencePasses(r)
    BY <1>r, <1>4, <1>5, <1>6, <2>1 DEF OP!FencePasses, OP!Current, phaseBar, callBar, curBar
  <2> QED BY <2>2 DEF OP!RunStep
<1>9. CASE RemoteApplies \/ MergeFoundDone
  <2>1. call = "act" /\ applied' = applied \cup {<<run, CurOp>>} /\ call' = "reply" /\ row' = row
    BY <1>2, <1>9 DEF RemoteApplies, MergeFoundDone, Land
  <2>2. OP!RemoteApplies(r)
    BY <1>r, <1>4, <1>5, <1>6, <2>1 DEF OP!RemoteApplies, OP!Current, phaseBar, callBar, curBar
  <2> QED BY <2>2 DEF OP!RunStep
<1> QED BY <1>7, <1>8, <1>9

\* The reply of an effect maps to ReplyArrives.
LEMMA ReplyBar ==
  ASSUME TypeInv, TypeInv', ReplyArrives
  PROVE  \E r \in Runs : OP!RunStep(r)
<1>1. pc \in EffectPcs /\ call = "reply" /\ call' = "idle" /\ run' = run /\ applied' = applied
  BY DEF ReplyArrives, TypeInv, Placed, remote
<1>2. run \in Runs /\ CurOp \in Ops /\ Current = <<run, CurOp>> /\ pc # "idle"
  BY <1>1, CurrentTyped DEF Current, TypeInv, Placed, EffectPcs, BacklogOps, ForgeOps, Restores
<1>3. pc' # "idle"
  BY <1>1, AfterEffects DEF ReplyArrives
<1>4. phaseBar' = phaseBar /\ phaseBar[run] = "running"
  BY <1>1, <1>2, <1>3, SamePhase, PhaseBar
<1>5. callBar' = [callBar EXCEPT ![run] = "idle"] /\ callBar[run] = "reply"
  BY <1>1, <1>2 DEF callBar
<1>6. curBar[run] = CurOp /\ curBar' = [curBar EXCEPT ![run] = <<"none", 0>>]
  BY <1>1, <1>2 DEF curBar
<1>7. row' = [row EXCEPT ![<<run, curBar[run]>>] = "confirmed"]
  BY <1>2, <1>6 DEF ReplyArrives
<1>8. PICK r \in Runs : r = run
  BY <1>2
<1>9. OP!ReplyArrives(r)
  BY <1>1, <1>4, <1>5, <1>6, <1>7, <1>8 DEF OP!ReplyArrives, OP!Close, OP!Current, phaseBar,
      callBar, curBar
<1> QED BY <1>9 DEF OP!RunStep

\* Quitting maps to a failed effect, to the end of the run, or to a stutter.
LEMMA QuitsBar ==
  ASSUME TypeInv, TypeInv', Quits
  PROVE  (\E r \in Runs : OP!RunStep(r)) \/ UNCHANGED OP!vars
<1>1. run \in Runs /\ pc # "idle" /\ call' = "idle" /\ run' = run /\ applied' = applied
  BY DEF Quits, TypeInv, Placed, remote
<1>r. PICK r \in Runs : r = run
  BY <1>1
<1>2. phaseBar[run] = "running"
  BY <1>1, PhaseBar
<1>3. callBar' = [callBar EXCEPT ![run] = "idle"] /\ callBar[run] = call
  BY <1>1 DEF callBar
<1>4. curBar' = [curBar EXCEPT ![run] = <<"none", 0>>] /\ (call # "idle" => curBar[run] = CurOp)
  BY <1>1 DEF curBar
<1>5. CASE row' = row /\ pc' = "idle"
  <2>1. phaseBar' = [phaseBar EXCEPT ![run] = "over"]
    <3>1. ASSUME NEW q \in Runs PROVE phaseBar'[q] = [phaseBar EXCEPT ![run] = "over"][q]
      BY <1>1, <1>5, TypeFacts DEF phaseBar, Alive, Runs
    <3> QED BY <3>1 DEF phaseBar
  <2>2. OP!Over(r)
    BY <1>r, <1>1, <1>2, <1>3, <1>4, <1>5, <2>1 DEF OP!Over, phaseBar, callBar, curBar
  <2> QED BY <2>2 DEF OP!RunStep
<1>6. CASE row' = row /\ pc' # "idle" /\ call = "idle"
  <2>1. phaseBar' = phaseBar
    BY <1>1, <1>6, SamePhase
  <2>2. callBar' = callBar /\ curBar' = curBar
    BY <1>1, <1>6 DEF callBar, curBar
  <2> QED BY <1>1, <1>6, <2>1, <2>2 DEF OP!vars, phaseBar, callBar, curBar
<1>7. CASE /\ pc' # "idle"
           /\ \/ call \in {"fence", "act"} /\ row' = [row EXCEPT ![Current] = "notApplied"]
              \/ call \in {"act", "reply"} /\ row' = [row EXCEPT ![Current] = "failed"]
  <2>1. phaseBar' = phaseBar
    BY <1>1, <1>7, SamePhase
  <2>2. Current = <<run, curBar[run]>>
    BY <1>4, <1>7 DEF Current
  <2>3. OP!FenceRefuses(r) \/ OP!NotStarted(r) \/ OP!ActFails(r)
    BY <1>r, <1>1, <1>2, <1>3, <1>4, <1>7, <2>1, <2>2 DEF OP!FenceRefuses, OP!NotStarted,
        OP!ActFails, OP!Close,
       OP!Current, OP!ErrorOutcome, phaseBar, callBar, curBar
  <2> QED BY <2>3 DEF OP!RunStep
<1> QED BY <1>5, <1>6, <1>7 DEF Quits

\* The environment maps to late requests, to `effects resolve`, or to a stutter.
LEMMA WorldBar ==
  ASSUME TypeInv, TypeInv', World
  PROVE  OP!Next \/ UNCHANGED OP!vars
<1>1. UNCHANGED <<run, pc, call, cand>>
  BY DEF World, LeaseMoves, OperatorDeletesRef, OperatorResolvesLease, OperatorRestoresIssue,
         HumanTouchesPr, LandsLate, OperatorResolves, evidence
<1>2. phaseBar' = phaseBar /\ callBar' = callBar /\ curBar' = curBar
  BY <1>1 DEF phaseBar, callBar, curBar, Alive, CurOp
<1>3. \A e \in Runs \X Ops : row[e] # "none" /\ ~Alive(e[1]) => phaseBar[e[1]] = "over"
  <2> SUFFICES ASSUME NEW e \in Runs \X Ops, row[e] # "none", ~Alive(e[1])
                      PROVE phaseBar[e[1]] = "over"
    OBVIOUS
  <2>1. e[1] \in Runs /\ e[2] \in Ops /\ e = <<e[1], e[2]>>
    OBVIOUS
  <2>2. ~(e[1] > run)
    BY <2>1 DEF TypeInv, Unstarted
  <2>3. e[1] < run \/ (e[1] = run /\ pc = "idle")
    BY <2>1, <2>2, TypeFacts DEF Alive, Runs
  <2> QED BY <2>1, <2>3, PhaseBar
<1>4. ASSUME NEW e \in Runs \X Ops, LandsLate(e) PROVE OP!LandsLate(e)
  BY <1>2, <1>3, <1>4 DEF LandsLate, Land, OP!LandsLate, phaseBar, callBar, curBar
<1>5. ASSUME NEW e \in Runs \X Ops, OperatorResolves(e) PROVE OP!OperatorResolves(e)
  BY <1>2, <1>3, <1>5 DEF OperatorResolves, Pending, OP!OperatorResolves, OP!Pending,
      OP!PendingStatus,
     OP!Effects, phaseBar, callBar, curBar
<1>6. CASE row' = row /\ applied' = applied
  BY <1>2, <1>6 DEF OP!vars, phaseBar, callBar, curBar
<1>7. LeaseMoves \/ OperatorDeletesRef \/ OperatorResolvesLease \/ OperatorRestoresIssue
      \/ HumanTouchesPr
        => row' = row /\ applied' = applied
  BY DEF LeaseMoves, OperatorDeletesRef, OperatorResolvesLease, OperatorRestoresIssue,
      HumanTouchesPr, remote
<1> QED BY <1>4, <1>5, <1>6, <1>7 DEF World, OP!Next, OP!Effects

\* Every step maps to a step of Outbox or to a stutter.
LEMMA NextBar == TypeInv /\ TypeInv' /\ Fresh /\ [Next]_vars => [OP!Next]_OP!vars
<1> SUFFICES ASSUME TypeInv, TypeInv', Fresh, [Next]_vars PROVE OP!Next \/ UNCHANGED OP!vars
  OBVIOUS
<1>1. CASE StartRun
  <2>1. \E r \in Runs : OP!Start(r)
    BY <1>1, StartBar
  <2> QED BY <2>1 DEF OP!Next, OP!RunStep
<1>2. CASE Acquires
  <2>1. pc = "acquire" /\ pc' = "transition-claim" /\ run' = run /\ row' = row
        /\ applied' = applied /\ call' = call
        /\ call = "idle"
    BY <1>2 DEF Acquires, remote, TypeInv, Placed, EffectPcs, BacklogOps, ForgeOps, Restores
  <2>2. phaseBar' = phaseBar /\ callBar' = callBar /\ curBar' = curBar
    BY <2>1, SamePhase DEF callBar, curBar
  <2> QED BY <2>1, <2>2 DEF OP!vars, phaseBar, callBar, curBar
<1>3. CASE \/ Observes \/ AcquireFails \/ BodyThrows \/ FenceRefuses \/ ActFails \/ NotStarted
           \/ AwaitsApproval \/ Releases \/ ReleaseFails \/ FinalRelease \/ Crash
  BY <1>3, Quitting, QuitsBar DEF OP!Next
<1>4. CASE Intend \/ FencePasses \/ RemoteApplies \/ MergeFoundDone
  BY <1>4, EffectBar DEF OP!Next
<1>5. CASE ReplyArrives
  BY <1>5, ReplyBar DEF OP!Next
<1>6. CASE Work
  <2>1. pc # "idle" /\ pc' # "idle" /\ run' = run /\ row' = row /\ applied' = applied
        /\ call = "idle" /\ call' = "idle"
    BY <1>6, Working DEF Works, Local, remote, BodyPcs, EffectPcs, BacklogOps, ForgeOps, Restores
  <2>2. phaseBar' = phaseBar /\ callBar' = callBar /\ curBar' = curBar
    BY <2>1, SamePhase DEF callBar, curBar
  <2> QED BY <2>1, <2>2 DEF OP!vars, phaseBar, callBar, curBar
<1>7. CASE World
  BY <1>7, WorldBar
<1>8. CASE UNCHANGED vars
  BY <1>8 DEF vars, OP!vars, Alive, CurOp
<1> QED BY <1>1, <1>2, <1>3, <1>4, <1>5, <1>6, <1>7, <1>8 DEF Next, RunStep, Environment, Work,
    World

\* The instance of the proofs is the instance of the model.
LEMMA SameProtocol == (OP!Init <=> Outboxes!Init)
    /\ ([OP!Next]_OP!vars <=> [Outboxes!Next]_Outboxes!vars)
  BY DEF OP!Init, Outboxes!Init, OP!Next, Outboxes!Next, OP!vars, Outboxes!vars, OP!RunStep,
      Outboxes!RunStep,
    OP!Start, Outboxes!Start, OP!Intend, Outboxes!Intend, OP!FencePasses, Outboxes!FencePasses,
    OP!FenceRefuses, Outboxes!FenceRefuses, OP!RemoteApplies, Outboxes!RemoteApplies,
    OP!ReplyArrives, Outboxes!ReplyArrives, OP!ActFails, Outboxes!ActFails, OP!NotStarted,
    Outboxes!NotStarted,
    OP!Over, Outboxes!Over, OP!LandsLate, Outboxes!LandsLate, OP!OperatorResolves,
    Outboxes!OperatorResolves,
    OP!Effects, Outboxes!Effects, OP!Pending, Outboxes!Pending, OP!PendingStatus,
    Outboxes!PendingStatus,
    OP!Close, Outboxes!Close, OP!Current, Outboxes!Current, OP!ErrorOutcome, Outboxes!ErrorOutcome

\* What the invariant of Outbox says of the rows of Delivery.
LEMMA RowFacts ==
  ASSUME TypeInv, OP!OutboxInv
  PROVE  /\ \A e \in Runs \X Ops :
              /\ row[e] = "confirmed" => e \in applied
              /\ e \in applied => row[e] \in {"confirmed", "inFlight", "failed"}
         /\ call # "idle" => Current \in Runs \X Ops /\ row[Current] \in {"intended", "inFlight"}
         /\ call = "reply" => Current \in applied
<1>1. \A e \in Runs \X Ops :
         /\ row[e] = "confirmed" => e \in applied
         /\ e \in applied => row[e] \in {"confirmed", "inFlight", "failed"}
  BY DEF OP!OutboxInv, OP!RowInv, OP!Effects
<1>2. CASE call # "idle"
  <2>1. pc \in EffectPcs
    BY <1>2 DEF TypeInv, Placed
  <2>2. CurOp \in Ops /\ Current \in Runs \X Ops /\ run \in Runs
    BY <2>1, CurrentTyped DEF Current
  <2>r. PICK r \in Runs : r = run
    BY <2>2
  <2>3. OP!CallInv(r)
    BY DEF OP!OutboxInv
  <2>4. callBar[r] = call /\ curBar[r] = CurOp
    BY <1>2, <2>r DEF callBar, curBar
  <2>5. Current = <<r, curBar[r]>>
    BY <2>4, <2>r DEF Current
  <2>6. call \in {"fence", "act", "reply"}
    BY <1>2 DEF TypeInv, TypeOK
  <2>7. row[Current] \in {"intended", "inFlight"} /\ (call = "reply" => Current \in applied)
    BY <2>3, <2>4, <2>5, <2>6 DEF OP!CallInv, OP!Current, phaseBar, callBar, curBar
  <2> QED BY <1>1, <2>2, <2>7
<1> QED BY <1>1, <1>2

\* The invariant of Outbox is inherited by way of the refinement.
LEMMA NextOutbox == TypeInv /\ TypeInv' /\ Fresh /\ OP!OutboxInv /\ [Next]_vars => OP!OutboxInv'
  BY NextBar, NoOpIsNone, OP!InvInductive

\* What an effect does to its pull request and to the issue (forge and backlog
\* adapters).
LEMMA Touching ==
  ASSUME TypeInv, NEW e \in Runs \X Ops, Land(e), NEW r, r = e[1]
  PROVE  /\ (pr[r].state \in {"draft", "open"} => pr[r].head = branch[r])
              => (pr'[r].state \in {"draft", "open"} => pr'[r].head = branch'[r])
         /\ pr[r].state = "merged" => pr'[r] = pr[r]
         /\ e[2][1] = "merge" => /\ pr[r] = [state |-> "open", head |-> cand[r]]
                                 /\ pr'[r] = [state |-> "merged", head |-> branch[r]]
         /\ pr'[r].state # "none" => pr[r].state # "none" \/ e[2][1] = "open-pr"
         /\ issue'.state = "prior" =>
              (issue.state = "prior" /\ e[2][1] # "transition-claim") \/ e[2][1] = "restore-state"
<1>1. r \in Runs /\ e[2][2] \in Shas /\ cand[r] \in Shas /\ issue \in Issues
      /\ branch \in [Runs -> Heads] /\ pr \in [Runs -> Prs]
  BY RemoteFacts, TypeFacts, OpTargets
<1>2. /\ pr[r].state = "none" \/ pr[r].state \in {"draft", "open"}
         \/ pr[r].state \in {"closed", "merged"}
      /\ pr[r] = [state |-> pr[r].state, head |-> pr[r].head]
  BY <1>1 DEF Prs
<1> DEFINE op == e[2][1]
           SetPr(s) == pr' = [pr EXCEPT ![r] = [state |-> s, head |-> branch[r]]]
                       /\ issue' = issue /\ branch' = branch
           SetHead(h) == /\ branch' = [branch EXCEPT ![r] = h] /\ issue' = issue
                         /\ pr' = [pr EXCEPT ![r].head =
                                     IF pr[r].state \in {"draft", "open"} THEN h ELSE @]
<1>3. CASE op \in {"transition-claim", "assign-claim", "transition-delivered",
                   "transition-complete",
                   "restore-assignee", "restore-state", "comment-delivered"}
  BY <1>1, <1>3 DEF Land, Issues
<1>4. CASE op \in {"push", "push-pr-fix"}
  <2>1. PICK h \in Shas : SetHead(h)
    BY <1>1, <1>4 DEF Land
  <2>2. pr'[r].state = pr[r].state /\ branch'[r] = h /\ issue' = issue
    BY <1>1, <2>1 DEF Prs
  <2>3. pr[r].state \in {"draft", "open"} => pr'[r].head = h
    BY <1>1, <2>1 DEF Prs
  <2>4. pr[r].state \notin {"draft", "open"} => pr'[r] = pr[r]
    BY <1>1, <2>1 DEF Prs
  <2> QED BY <1>4, <2>2, <2>3, <2>4
<1>5. CASE op = "open-pr"
  <2>1. pr[r].state = "none" /\ SetPr(IF cfg.draft THEN "draft" ELSE "open")
    BY <1>1, <1>5 DEF Land
  <2> QED BY <1>1, <1>5, <2>1
<1>6. CASE op = "mark-ready"
  <2>1. pr[r].state = "draft" /\ SetPr("open")
    BY <1>1, <1>6 DEF Land
  <2> QED BY <1>1, <1>6, <2>1
<1>7. CASE op = "merge"
  <2>1. pr[r] = [state |-> "open", head |-> cand[r]] /\ SetPr("merged")
    BY <1>1, <1>7 DEF Land
  <2> QED BY <1>1, <1>7, <2>1
<1> QED BY <1>1, <1>3, <1>4, <1>5, <1>6, <1>7 DEF Land

\* Where the candidate has been verified.
Checked == {"review", "push", "open-pr", "mark-ready", "head-check", "head-after-fix", "ci",
            "ci-pause", "evidence", "pr-review", "deliver", "merge-check", "merge"}

\* The evidence a run relies on is about the commit it is about to use.
Evidenced ==
  /\ pc \in Checked => proof[run].verified = cand[run]
  /\ pc = "push-pr-fix" => proof[run].verified = cand[run] + 1
  /\ pc \in {"evidence", "pr-review", "deliver", "merge-check", "merge"}
     => proof[run].ci = cand[run]
  /\ pc \in {"deliver", "merge-check", "merge"} => proof[run].reviewed = cand[run]
  /\ pc \in {"merge-check", "merge"} => proof[run].allowed = cand[run]

\* Each verification, CI result, review and risk decision is recorded for the
\* candidate it is about, and a changed candidate is checked again.
LEMMA WorkEvidenced ==
  ASSUME TypeInv, Evidenced, Work PROVE Evidenced'
<1> USE DEF Evidenced, Checked
<1>1. run' = run /\ pc # "idle" /\ run \in Runs /\ proof \in [Runs -> Proofs] /\ cand[run] \in Shas
  BY Working, TypeFacts DEF Works, Local, BodyPcs, EffectPcs, BacklogOps, ForgeOps, Restores
<1>2. CASE CreateWorkspace \/ BuildPacket \/ StartAgent \/ AgentReturns \/ VerifyFails
           \/ ReviewBlocks
           \/ PrReviewBlocks \/ PrFixReturns \/ DeliverPr
  BY <1>2 DEF CreateWorkspace, BuildPacket, StartAgent, AgentReturns, VerifyFails, ReviewBlocks,
      Retry,
              PrReviewBlocks, PrFixReturns, DeliverPr
<1>3. CASE ReviewPasses \/ HeadChecked \/ CiWaits \/ CiPolls \/ StartPrReview \/ MergeChecked
  BY <1>1, <1>3 DEF ReviewPasses, HeadChecked, AfterHead, CiWaits, CiPolls, StartPrReview,
      MergeChecked, evidence
<1>4. CASE VerifyPasses
  <2>1. proof' = [proof EXCEPT ![run].verified = cand[run]]
    BY <1>1, <1>4, Verifying DEF VerifyPasses
  <2> QED BY <1>1, <1>4, <2>1 DEF VerifyPasses, Proofs
<1>5. CASE ReverifyPasses
  <2>1. cand[run] + 1 \in Shas
    <3>1. cand[run] \in Nat /\ cand[run] + 1 <= cfg.fixes + 1 + loc.count["prFixer"]
      BY <1>1, <1>5, TypeFacts DEF ReverifyPasses, TypeInv, Counted, Bound
    <3> QED BY <1>1, <3>1, CommitFits
  <2>2. proof' = [proof EXCEPT ![run].verified = cand[run] + 1]
    BY <1>1, <1>5, <2>1, Verifying DEF ReverifyPasses, RecordReverified
  <2> QED BY <1>1, <1>5, <2>2 DEF ReverifyPasses, Proofs
<1>6. CASE CiSatisfied
  BY <1>1, <1>6 DEF CiSatisfied, Proofs
<1>7. CASE PrReviewPasses
  <2>1. PICK o \in Opinions :
          /\ o.says = "clean"
          /\ proof' = [proof EXCEPT ![run].reviewed = IF o.approves THEN cand[run] ELSE NoSha]
    BY <1>7 DEF PrReviewPasses
  <2>2. PICK a \in Assessments : o = [says |-> Policy!Conclusion(a.review, a.change, a.policy),
                                      approves |-> Policy!Approves(a.review, a.change, a.policy)]
    BY DEF Opinions
  <2>3. o.says = Policy!Conclusion(a.review, a.change, a.policy)
        /\ o.approves = Policy!Approves(a.review, a.change, a.policy)
    BY <2>2
  <2>4. o.approves
    BY <2>1, <2>3, CleanMeansApproved
  <2>5. proof' = [proof EXCEPT ![run].reviewed = cand[run]]
    BY <2>1, <2>4
  <2> QED BY <1>1, <1>7, <2>5 DEF PrReviewPasses, Proofs
<1>8. CASE MergeAllowed
  <2>1. PICK k \in Risks :
          /\ k.says = "allow"
          /\ proof' = [proof EXCEPT ![run].allowed = IF k.sensitive THEN NoSha ELSE cand[run]]
    BY <1>8 DEF MergeAllowed
  <2>2. PICK a \in Assessments : k = [says |-> Policy!MergeRisk(a.policy, a.change),
                                      sensitive |-> Policy!Sensitive(a.policy, a.change)]
    BY DEF Risks
  <2>3. k.says = Policy!MergeRisk(a.policy, a.change)
        /\ k.sensitive = Policy!Sensitive(a.policy, a.change)
    BY <2>2
  <2>4. ~k.sensitive
    BY <2>1, <2>3, AllowedIsNotSensitive
  <2>5. proof' = [proof EXCEPT ![run].allowed = cand[run]]
    BY <2>1, <2>4
  <2> QED BY <1>1, <1>8, <2>5 DEF MergeAllowed, Proofs
<1> QED BY <1>2, <1>3, <1>4, <1>5, <1>6, <1>7, <1>8 DEF Work

\* Every step keeps the evidence current.
LEMMA NextEvidenced == TypeInv /\ TypeInv' /\ Evidenced /\ [Next]_vars => Evidenced'
<1> SUFFICES ASSUME TypeInv, TypeInv', Evidenced, [Next]_vars PROVE Evidenced'
  OBVIOUS
<1> USE DEF Evidenced, Checked
<1>1. CASE StartRun \/ Acquires
  BY <1>1 DEF StartRun, Acquires
<1>2. CASE \/ Observes \/ AcquireFails \/ BodyThrows \/ FenceRefuses \/ ActFails \/ NotStarted
           \/ AwaitsApproval \/ Releases \/ ReleaseFails \/ FinalRelease \/ Crash
  BY <1>2, Quitting DEF Quits, Ending, Restores
<1>3. CASE Intend \/ FencePasses \/ RemoteApplies \/ MergeFoundDone
  BY <1>3 DEF Intend, FencePasses, RemoteApplies, MergeFoundDone, evidence
<1>4. CASE ReplyArrives
  <2>1. pc \in EffectPcs /\ pc' = AfterEffect /\ run' = run /\ proof' = proof
    BY <1>4 DEF ReplyArrives, TypeInv, Placed
  <2>2. cand'[run] = IF pc = "push-pr-fix" THEN cand[run] + 1 ELSE cand[run]
    BY <1>4, ReplyKeepsTypes
  <2> QED BY <2>1, <2>2, AfterEffects
<1>5. CASE Work
  BY <1>5, WorkEvidenced
<1>6. CASE World
  BY <1>6 DEF World, LeaseMoves, OperatorDeletesRef, OperatorResolvesLease, OperatorRestoresIssue,
         HumanTouchesPr, LandsLate, OperatorResolves, evidence
<1>7. CASE UNCHANGED vars
  BY <1>7 DEF vars
<1> QED BY <1>1, <1>2, <1>3, <1>4, <1>5, <1>6, <1>7 DEF Next, RunStep, Environment, Work, World

-----------------------------------------------------------------------------

\* All the evidence on the candidate of run r; its merge.
Vetted(r) ==
  proof[r] = [verified |-> cand[r], ci |-> cand[r], reviewed |-> cand[r], allowed |-> cand[r]]
MergeOf(r) == <<r, <<"merge", 0>>>>

\* What a merge, asked for or carried out, says of the commit; and a pull
\* request that is not done with follows its branch.
Merged ==
  \A r \in Runs :
    /\ pr[r].state \in {"draft", "open"} => pr[r].head = branch[r]
    /\ row[MergeOf(r)] # "none" => Vetted(r)
    /\ MergeOf(r) \in applied => pr[r] = [state |-> "merged", head |-> cand[r]]

\* A merge is an effect.
LEMMA MergeKey == \A r \in Runs : MergeOf(r) \in Runs \X Ops
  BY DEF MergeOf, Ops, EffectPcs, BacklogOps, ForgeOps, Restores

\* A run about to merge holds all the evidence on its candidate.
LEMMA MergeIsVetted ==
  ASSUME TypeInv, Evidenced, pc = "merge"
  PROVE  Vetted(run) /\ Current = MergeOf(run) /\ run \in Runs
<1>1. run \in Runs /\ proof[run] \in Proofs
  BY TypeFacts
<1>2. proof[run] = [verified |-> proof[run].verified, ci |-> proof[run].ci,
                    reviewed |-> proof[run].reviewed, allowed |-> proof[run].allowed]
  BY <1>1 DEF Proofs
<1> QED BY <1>1, <1>2 DEF Vetted, Evidenced, Checked, Current, CurOp, MergeOf

\* The merge has not been asked for where the commit can still change.
LEMMA UnmergedYet ==
  ASSUME TypeInv, Fresh, pc \in Pcs \ Ending, Rank(pc) <= 7
  PROVE  row[MergeOf(run)] = "none"
<1>1. Rank("merge") = 10 /\ pc # "idle" /\ pc # "merge" /\ Rank(pc) \in Nat
  BY RankValues, RankTyped DEF Ending
<1> QED BY <1>1 DEF Fresh, MergeOf, EffectPcs, ForgeOps

\* An effect that reaches the forge, in time or late, merges only the vetted
\* head, and nothing touches a merged pull request.
LEMMA LandKeepsMerged ==
  ASSUME TypeInv, OP!OutboxInv, Merged, NEW e \in Runs \X Ops, Land(e),
         UNCHANGED <<row, evidence>>
  PROVE  Merged'
<1> SUFFICES ASSUME NEW r \in Runs
             PROVE  /\ pr'[r].state \in {"draft", "open"} => pr'[r].head = branch'[r]
                    /\ row'[MergeOf(r)] # "none" => Vetted(r)'
                    /\ MergeOf(r) \in applied' => pr'[r] = [state |-> "merged", head |-> cand'[r]]
  BY DEF Merged, MergeOf
<1>1. CASE r # e[1]
  <2>1. pr'[r] = pr[r] /\ branch'[r] = branch[r]
        /\ (MergeOf(r) \in applied' => MergeOf(r) \in applied)
    BY <1>1, Landing DEF MergeOf
  <2>2. UNCHANGED <<row, cand, proof>>
    BY DEF evidence
  <2> QED BY <2>1, <2>2 DEF Merged, Vetted
<1>2. CASE r = e[1]
  <2>1. /\ pr[r].state \in {"draft", "open"} => pr[r].head = branch[r]
        /\ row[MergeOf(r)] # "none" => Vetted(r)
        /\ MergeOf(r) \in applied => pr[r] = [state |-> "merged", head |-> cand[r]]
    BY DEF Merged
  <2>2. applied' = applied \cup {e} /\ row' = row /\ cand' = cand /\ proof' = proof
    BY DEF Land, evidence
  <2>3. (MergeOf(r) \in applied' => pr'[r] = [state |-> "merged", head |-> cand[r]])
    <3>1. CASE MergeOf(r) \in applied
      <4>1. pr[r] = [state |-> "merged", head |-> cand[r]]
        BY <2>1, <3>1
      <4>2. pr[r].state = "merged"
        BY <4>1
      <4>3. pr'[r] = pr[r]
        BY <1>2, <4>2, Touching
      <4> QED BY <4>1, <4>3
    <3>2. CASE e = MergeOf(r)
      <4>1. e[2][1] = "merge"
        BY <3>2 DEF MergeOf
      <4>2. pr[r] = [state |-> "open", head |-> cand[r]]
            /\ pr'[r] = [state |-> "merged", head |-> branch[r]]
        BY <1>2, <4>1, Touching
      <4> QED BY <2>1, <4>2
    <3> QED BY <2>2, <3>1, <3>2
  <2>4. pr'[r].state \in {"draft", "open"} => pr'[r].head = branch'[r]
    BY <1>2, <2>1, Touching
  <2> QED BY <2>1, <2>2, <2>3, <2>4 DEF Vetted
<1> QED BY <1>1, <1>2

\* Every step keeps it.
LEMMA NextMerged ==
  TypeInv /\ TypeInv' /\ Fresh /\ OP!OutboxInv /\ Evidenced /\ Merged /\ [Next]_vars => Merged'
<1> SUFFICES ASSUME TypeInv, TypeInv', Fresh, OP!OutboxInv, Evidenced, Merged, [Next]_vars
             PROVE  Merged'
  OBVIOUS
<1> DEFINE Kept(r) == /\ pr'[r] = pr[r] /\ branch'[r] = branch[r]
                      /\ MergeOf(r) \in applied' => MergeOf(r) \in applied
                      /\ cand'[r] = cand[r] /\ proof'[r] = proof[r]
                      /\ row'[MergeOf(r)] # "none" => row[MergeOf(r)] # "none"
<1>k. ASSUME \A r \in Runs : Kept(r) PROVE Merged'
  <2>1. ASSUME NEW r \in Runs
        PROVE  /\ pr'[r].state \in {"draft", "open"} => pr'[r].head = branch'[r]
               /\ row'[MergeOf(r)] # "none" => Vetted(r)'
               /\ MergeOf(r) \in applied' => pr'[r] = [state |-> "merged", head |-> cand'[r]]
    BY <1>k DEF Merged, Vetted
  <2> QED BY <2>1 DEF Merged, MergeOf
<1>1. CASE StartRun \/ Acquires
  BY <1>1, <1>k DEF StartRun, Acquires, remote, evidence
<1>2. CASE \/ Observes \/ AcquireFails \/ BodyThrows \/ FenceRefuses \/ ActFails \/ NotStarted
           \/ AwaitsApproval \/ Releases \/ ReleaseFails \/ FinalRelease \/ Crash
  <2>1. Quits
    BY <1>2, Quitting
  <2>2. UNCHANGED <<pr, branch, applied, cand, proof>>
    BY <2>1 DEF Quits, remote, evidence
  <2>3. row' = row \/ (call # "idle" /\ \E s \in Statuses : row' = [row EXCEPT ![Current] = s])
    BY <2>1 DEF Quits, Statuses
  <2>4. ASSUME NEW r \in Runs, row'[MergeOf(r)] # "none" PROVE row[MergeOf(r)] # "none"
    BY <2>3, <2>4, MergeKey, RowFacts, RemoteFacts
  <2> QED BY <1>k, <2>2, <2>4
<1>3. CASE Intend \/ FencePasses
  <2>1. pc \in EffectPcs /\ UNCHANGED <<pr, branch, applied, cand, proof>>
    BY <1>3 DEF Intend, FencePasses, remote, evidence, TypeInv, Placed
  <2>2. Current \in Runs \X Ops /\ \E s \in Statuses : row' = [row EXCEPT ![Current] = s]
    BY <1>3, <2>1, CurrentTyped DEF Intend, FencePasses, Statuses
  <2>3. ASSUME NEW r \in Runs, row'[MergeOf(r)] # "none" PROVE Vetted(r)
    <3>1. CASE row[MergeOf(r)] # "none"
      BY <3>1 DEF Merged
    <3>2. CASE row[MergeOf(r)] = "none"
      <4>1. Current = MergeOf(r)
        BY <2>2, <2>3, <3>2, MergeKey, RemoteFacts
      <4>2. pc = "merge" /\ run = r
        BY <4>1 DEF Current, CurOp, MergeOf
      <4> QED BY <4>2, MergeIsVetted
    <3> QED BY <3>1, <3>2
  <2>4. \A r \in Runs : Vetted(r)' <=> Vetted(r)
    BY <2>1 DEF Vetted
  <2> QED BY <2>1, <2>3, <2>4 DEF Merged, MergeOf
<1>4. CASE RemoteApplies
  <2>1. Current \in Runs \X Ops /\ Land(Current) /\ UNCHANGED <<row, evidence>>
    BY <1>4, RowFacts DEF RemoteApplies
  <2>2. PICK e \in Runs \X Ops : e = Current
    BY <2>1
  <2> QED BY <2>1, <2>2, LandKeepsMerged
<1>5. CASE MergeFoundDone
  <2>1. /\ pr[run] = [state |-> "merged", head |-> cand[run]]
           /\ applied' = applied \cup {MergeOf(run)}
        /\ UNCHANGED <<row, branch, pr, cand, proof>>
    BY <1>5, MergeIsVetted DEF MergeFoundDone, evidence
  <2>2. \A r \in Runs : MergeOf(r) = MergeOf(run) => r = run
    BY DEF MergeOf
  <2>3. \A r \in Runs : Vetted(r)' <=> Vetted(r)
    BY <2>1 DEF Vetted
  <2>4. \A r \in Runs : MergeOf(r) \in applied' => pr[r] = [state |-> "merged", head |-> cand[r]]
    BY <2>1, <2>2 DEF Merged
  <2> QED BY <2>1, <2>3, <2>4 DEF Merged, MergeOf
<1>6. CASE ReplyArrives
  <2>1. /\ pc \in EffectPcs /\ run \in Runs /\ Current \in Runs \X Ops /\ pc \in Pcs
           /\ call # "idle"
        /\ UNCHANGED <<pr, branch, applied, proof>> /\ row' = [row EXCEPT ![Current] = "confirmed"]
    BY <1>6, RowFacts, PcSets DEF ReplyArrives, remote, TypeInv, Placed, EffectPcs, BacklogOps,
        ForgeOps, Restores
  <2>2. ASSUME NEW r \in Runs, row'[MergeOf(r)] # "none" PROVE row[MergeOf(r)] # "none"
    BY <2>1, <2>2, MergeKey, RowFacts, RemoteFacts
  <2>3. CASE pc # "push-pr-fix"
    <3>1. cand' = cand
      BY <1>6, <2>1, <2>3, TypeFacts DEF ReplyArrives
    <3> QED BY <1>k, <2>1, <2>2, <3>1
  <2>4. CASE pc = "push-pr-fix"
    <3>1. row[MergeOf(run)] = "none"
      BY <2>1, <2>4, UnmergedYet, RankValues DEF Ending, Restores
    <3>2. MergeOf(run) \notin applied
      BY <2>1, <3>1, MergeKey, RowFacts
    <3>3. \A r \in Runs : r # run => cand'[r] = cand[r]
      BY <1>6, <2>1, TypeFacts DEF ReplyArrives
    <3>4. ASSUME NEW r \in Runs
          PROVE  /\ pr'[r].state \in {"draft", "open"} => pr'[r].head = branch'[r]
                 /\ row'[MergeOf(r)] # "none" => Vetted(r)'
                 /\ MergeOf(r) \in applied' => pr'[r] = [state |-> "merged", head |-> cand'[r]]
      BY <2>1, <2>2, <3>1, <3>2, <3>3 DEF Merged, Vetted
    <3> QED BY <3>4 DEF Merged, MergeOf
  <2> QED BY <2>3, <2>4
<1>7. CASE Work
  <2>1. Works
    BY <1>7, Working
  <2>2. run \in Runs /\ pc \in Pcs \ Ending /\ UNCHANGED <<pr, branch, applied, row>>
    BY <2>1, PcSets DEF Works, Local, remote, TypeInv, TypeOK, Placed, Ending, BodyPcs, EffectPcs,
        BacklogOps,
       ForgeOps, Restores
  <2>3. Rank(pc) <= 7
    BY <2>1, RankValues DEF Works, BodyPcs, EffectPcs, BacklogOps, ForgeOps, Restores
  <2>4. row[MergeOf(run)] = "none"
    BY <2>2, <2>3, UnmergedYet
  <2>5. MergeOf(run) \notin applied
    BY <2>2, <2>4, MergeKey, RowFacts
  <2>6. \A r \in Runs : r # run => cand'[r] = cand[r] /\ proof'[r] = proof[r]
    BY <2>1, <2>2, TypeFacts DEF Works
  <2>7. ASSUME NEW r \in Runs
        PROVE  /\ pr'[r].state \in {"draft", "open"} => pr'[r].head = branch'[r]
               /\ row'[MergeOf(r)] # "none" => Vetted(r)'
               /\ MergeOf(r) \in applied' => pr'[r] = [state |-> "merged", head |-> cand'[r]]
    BY <2>2, <2>4, <2>5, <2>6 DEF Merged, Vetted
  <2> QED BY <2>7 DEF Merged, MergeOf
<1>8. CASE LeaseMoves \/ OperatorDeletesRef \/ OperatorResolvesLease \/ OperatorRestoresIssue
  BY <1>8, <1>k DEF LeaseMoves, OperatorDeletesRef, OperatorResolvesLease, OperatorRestoresIssue,
      remote, evidence
<1>9. CASE HumanTouchesPr
  <2>1. run \in Runs /\ pr[run].state \in {"draft", "open"}
        /\ UNCHANGED <<row, applied, cand, proof>>
    BY <1>9, TypeFacts DEF HumanTouchesPr, Runs, evidence
  <2>2. MergeOf(run) \notin applied
    <3>1. MergeOf(run) \in applied => pr[run] = [state |-> "merged", head |-> cand[run]]
      BY <2>1 DEF Merged
    <3>2. MergeOf(run) \in applied => pr[run].state = "merged"
      BY <3>1
    <3> QED BY <2>1, <3>2
  <2>3. \A r \in Runs : r # run => pr'[r] = pr[r] /\ branch'[r] = branch[r]
    BY <1>9, <2>1, RemoteFacts DEF HumanTouchesPr
  <2>4. pr'[run].state \in {"draft", "open"} => pr'[run].head = branch'[run]
    BY <1>9, <2>1, RemoteFacts DEF HumanTouchesPr, Prs
  <2>5. ASSUME NEW r \in Runs
        PROVE  /\ pr'[r].state \in {"draft", "open"} => pr'[r].head = branch'[r]
               /\ row'[MergeOf(r)] # "none" => Vetted(r)'
               /\ MergeOf(r) \in applied' => pr'[r] = [state |-> "merged", head |-> cand'[r]]
    BY <2>1, <2>2, <2>3, <2>4 DEF Merged, Vetted
  <2> QED BY <2>5 DEF Merged, MergeOf
<1>10. ASSUME NEW e \in Runs \X Ops, LandsLate(e) PROVE Merged'
  BY <1>10, LandKeepsMerged DEF LandsLate
<1>11. ASSUME NEW e \in Runs \X Ops, OperatorResolves(e) PROVE Merged'
  <2>1. UNCHANGED <<pr, branch, applied, cand, proof>> /\ row[e] # "none"
        /\ \E s \in Statuses : row' = [row EXCEPT ![e] = s]
    BY <1>11 DEF OperatorResolves, Pending, evidence, Statuses
  <2>2. ASSUME NEW r \in Runs, row'[MergeOf(r)] # "none" PROVE row[MergeOf(r)] # "none"
    BY <2>1, <2>2, MergeKey, RemoteFacts
  <2> QED BY <1>k, <2>1, <2>2
<1>12. CASE UNCHANGED vars
  BY <1>12, <1>k DEF vars
<1> QED BY <1>1, <1>2, <1>3, <1>4, <1>5, <1>6, <1>7, <1>8, <1>9, <1>10, <1>11, <1>12
        DEF Next, RunStep, Environment, Work

\* The opening of its pull request, and the restoring of the issue.
OpenOf(r) == <<r, <<"open-pr", 0>>>>
RestoreOf(r) == <<r, <<"restore-state", 0>>>>

\* Only the run under way, or the last one, has effects in doubt; a pull
\* request has its effect; and earlier runs left none, unless an operator
\* has looked at them.
Repeated ==
  /\ \A e \in Pending : e[1] = run
  /\ \A r \in Runs : pr[r].state # "none" => OpenOf(r) \in applied
  /\ \A r \in Runs : r < run /\ r \notin attended => pr[r].state = "none"

\* An issue with a pull request, or that a run is working on, is not offered
\* to another run.
Taken ==
  /\ pc \notin Ending \cup {"acquire"}
     => issue.state # "prior" \/ (pc = "transition-claim" /\ call # "reply")
  /\ pc # "idle" /\ row[OpenOf(run)] = "confirmed" => loc.opened
  /\ pc \in Restores => ~loc.opened
  /\ run \in Runs /\ run \notin attended /\ row[OpenOf(run)] = "confirmed" =>
       issue.state # "prior" /\ row[RestoreOf(run)] = "none"

\* Opening the pull request and restoring the issue are effects.
LEMMA PrKeys == \A r \in Runs : OpenOf(r) \in Runs \X Ops /\ RestoreOf(r) \in Runs \X Ops
  BY DEF OpenOf, RestoreOf, Ops, EffectPcs, BacklogOps, ForgeOps, Restores

\* The issue is not handed back before the run has left its body.
LEMMA UnrestoredYet ==
  ASSUME TypeInv, Fresh, pc \in Pcs \ Ending
  PROVE  row[RestoreOf(run)] = "none"
<1>1. Rank("restore-state") = 14 /\ pc # "idle" /\ pc # "restore-state" /\ Rank(pc) \in Nat
      /\ Rank(pc) <= 12
  BY RankValues, RankOfBody DEF Ending, Restores, Pcs
<1> QED BY <1>1 DEF Fresh, RestoreOf, EffectPcs, BacklogOps, Restores

\* A run that is handing the issue back has opened no pull request.
LEMMA NotOpened ==
  ASSUME Taken, pc \in Restores
  PROVE  row[OpenOf(run)] # "confirmed"
  BY DEF Taken, Restores

\* Every step keeps it: a new run starts only if nothing is in doubt and the
\* issue is open, so the last one left no pull request.
LEMMA NextRepeated ==
  TypeInv /\ TypeInv' /\ OP!OutboxInv /\ Taken /\ Repeated /\ [Next]_vars => Repeated'
<1> SUFFICES ASSUME TypeInv, TypeInv', OP!OutboxInv, Taken, Repeated, [Next]_vars PROVE Repeated'
  OBVIOUS
<1> DEFINE G == /\ \A e \in Runs \X Ops : row'[e] \in {"intended", "inFlight", "failed"}
                   => e[1] = run'
                /\ \A r \in Runs : pr'[r].state # "none" => OpenOf(r) \in applied'
                /\ \A r \in Runs : r < run' /\ r \notin attended' => pr'[r].state = "none"
<1>g. G => Repeated'
  BY DEF Repeated, Pending, OpenOf
<1>p. \A e \in Runs \X Ops : row[e] \in {"intended", "inFlight", "failed"} => e[1] = run
  BY DEF Repeated, Pending
<1>o. \A r \in Runs : pr[r].state # "none" => OpenOf(r) \in applied
  BY DEF Repeated
<1>a. \A r \in Runs : r < run /\ r \notin attended => pr[r].state = "none"
  BY DEF Repeated
<1>1. CASE StartRun
  <2>1. run' = run + 1 /\ run \in 0 .. MaxRuns /\ UNCHANGED <<row, applied, attended, pr>>
        /\ Pending = {}
        /\ issue.state = "prior"
    BY <1>1, TypeFacts DEF StartRun, NothingInDoubt, remote
  <2>2. \A e \in Runs \X Ops : row'[e] \notin {"intended", "inFlight", "failed"}
    BY <2>1 DEF Pending
  <2>3. ASSUME NEW r \in Runs, r < run + 1, r \notin attended, pr[r].state # "none" PROVE FALSE
    <3>1. r = run
      <4>1. r \in Nat /\ run \in Nat
        BY <2>1 DEF Runs
      <4> QED BY <1>a, <2>3, <4>1
    <3>2. OpenOf(r) \in applied /\ OpenOf(r) \in Runs \X Ops
      BY <1>o, <2>3, PrKeys
    <3>3. row[OpenOf(r)] = "confirmed"
      BY <2>1, <2>2, <3>2, RowFacts
    <3> QED BY <2>1, <2>3, <3>1, <3>3 DEF Taken
  <2> QED BY <1>g, <1>o, <2>1, <2>2, <2>3
<1>2. CASE \/ Observes \/ AcquireFails \/ BodyThrows \/ FenceRefuses \/ ActFails \/ NotStarted
           \/ AwaitsApproval \/ Releases \/ ReleaseFails \/ FinalRelease \/ Crash
  <2>1. Quits
    BY <1>2, Quitting
  <2>2. UNCHANGED <<run, pr, applied, attended>>
    BY <2>1 DEF Quits, remote
  <2>3. row' = row \/ (call # "idle" /\ \E s \in Statuses : row' = [row EXCEPT ![Current] = s])
    BY <2>1 DEF Quits, Statuses
  <2>4. call # "idle" => Current \in Runs \X Ops /\ Current[1] = run
    BY RowFacts DEF Current
  <2>5. \A e \in Runs \X Ops : row'[e] \in {"intended", "inFlight", "failed"} => e[1] = run
    BY <1>p, <2>3, <2>4, RemoteFacts
  <2> QED BY <1>g, <1>o, <1>a, <2>2, <2>5
<1>3. CASE Intend \/ FencePasses \/ ReplyArrives
  <2>1. UNCHANGED <<run, pr, applied, attended>> /\ pc \in EffectPcs
    BY <1>3 DEF Intend, FencePasses, ReplyArrives, remote, TypeInv, Placed
  <2>2. Current \in Runs \X Ops /\ Current[1] = run
        /\ \E s \in Statuses : row' = [row EXCEPT ![Current] = s]
    <3>1. Current \in Runs \X Ops /\ Current[1] = run
      BY <2>1, CurrentTyped DEF Current
    <3>2. \E s \in Statuses : row' = [row EXCEPT ![Current] = s]
      BY <1>3 DEF Intend, FencePasses, ReplyArrives, Statuses
    <3> QED BY <3>1, <3>2
  <2>5. \A e \in Runs \X Ops : row'[e] \in {"intended", "inFlight", "failed"} => e[1] = run
    BY <1>p, <2>2, RemoteFacts
  <2> QED BY <1>g, <1>o, <1>a, <2>1, <2>5
<1>l. ASSUME NEW e \in Runs \X Ops, e[1] = run, Land(e), UNCHANGED <<row, run, attended>>
             PROVE Repeated'
  <2>1. applied' = applied \cup {e} /\ \A r \in Runs : r # run => pr'[r] = pr[r]
    BY <1>l, Landing
  <2>2. ASSUME NEW r \in Runs, pr'[r].state # "none" PROVE OpenOf(r) \in applied'
    <3>1. CASE r # run
      BY <1>o, <2>1, <2>2, <3>1
    <3>2. CASE r = run
      <4>1. pr[r].state # "none" \/ e[2][1] = "open-pr"
        BY <1>l, <2>2, <3>2, Touching
      <4>2. e[2][1] = "open-pr" => e = OpenOf(r)
        <5>1. e = <<e[1], e[2]>> /\ e[2] \in Ops
          OBVIOUS
        <5>2. e[2][1] = "open-pr" => e[2] = <<"open-pr", 0>>
          BY <5>1 DEF Ops
        <5> QED BY <1>l, <3>2, <5>1, <5>2 DEF OpenOf
      <4> QED BY <1>o, <2>1, <4>1, <4>2
    <3> QED BY <3>1, <3>2
  <2>3. \A r \in Runs : r < run => r # run
    BY TypeFacts DEF Runs
  <2> QED BY <1>g, <1>p, <1>a, <1>l, <2>1, <2>2, <2>3
<1>4. CASE RemoteApplies
  <2>1. Current \in Runs \X Ops /\ Land(Current) /\ UNCHANGED <<row, run, attended>>
        /\ Current[1] = run
    BY <1>4, RowFacts DEF RemoteApplies, Current
  <2> QED BY <1>l, <2>1
<1>5. CASE MergeFoundDone
  BY <1>5, <1>g, <1>p, <1>o, <1>a DEF MergeFoundDone
<1>6. CASE Work
  <2>1. UNCHANGED <<run, row, pr, applied, attended>>
    BY <1>6, Working DEF Works, Local, remote
  <2> QED BY <1>g, <1>p, <1>o, <1>a, <2>1
<1>7. CASE LeaseMoves \/ OperatorDeletesRef \/ OperatorResolvesLease \/ OperatorRestoresIssue
           \/ Acquires
  BY <1>7, <1>g, <1>p, <1>o, <1>a DEF LeaseMoves, OperatorDeletesRef, OperatorResolvesLease,
      OperatorRestoresIssue,
     Acquires, remote
<1>8. CASE HumanTouchesPr
  <2>1. run \in Runs /\ pr[run].state \in {"draft", "open"}
        /\ UNCHANGED <<row, applied, attended, run>>
    BY <1>8, TypeFacts DEF HumanTouchesPr, Runs
  <2>2. \A r \in Runs : r # run => pr'[r] = pr[r]
    BY <1>8, <2>1, RemoteFacts DEF HumanTouchesPr
  <2>3. OpenOf(run) \in applied
    BY <2>1, <1>o
  <2>4. \A r \in Runs : r < run => r # run
    BY TypeFacts DEF Runs
  <2> QED BY <1>g, <1>p, <1>o, <1>a, <2>1, <2>2, <2>3, <2>4
<1>9. ASSUME NEW e \in Runs \X Ops, LandsLate(e) PROVE Repeated'
  <2>1. e[1] = run /\ Land(e) /\ UNCHANGED <<row, run, attended>>
    BY <1>9, <1>p DEF LandsLate
  <2> QED BY <2>1, <1>l
<1>10. ASSUME NEW e \in Runs \X Ops, OperatorResolves(e) PROVE Repeated'
  <2>1. UNCHANGED <<run, pr, applied>> /\ attended \subseteq attended'
        /\ \E s \in {"confirmed", "notApplied"} : row' = [row EXCEPT ![e] = s]
    BY <1>10 DEF OperatorResolves
  <2>2. \A f \in Runs \X Ops : row'[f] \in {"intended", "inFlight", "failed"} => row[f] = row'[f]
    BY <2>1, RemoteFacts
  <2> QED BY <1>g, <1>p, <1>o, <1>a, <2>1, <2>2
<1>11. CASE UNCHANGED vars
  BY <1>11, <1>g, <1>p, <1>o, <1>a DEF vars
<1> QED BY <1>1, <1>2, <1>3, <1>4, <1>5, <1>6, <1>7, <1>8, <1>9, <1>10, <1>11
        DEF Next, RunStep, Environment, Work

\* Every step keeps it: the finally block hands the issue back only if no pull
\* request was opened, and a late restore cannot land after one was.
LEMMA NextTaken ==
  TypeInv /\ TypeInv' /\ Fresh /\ OP!OutboxInv /\ Repeated /\ Taken /\ [Next]_vars => Taken'
<1> SUFFICES ASSUME TypeInv, TypeInv', Fresh, OP!OutboxInv, Repeated, Taken, [Next]_vars
                    PROVE Taken'
  OBVIOUS
<1> DEFINE Open == row[OpenOf(run)] = "confirmed"
           Open1 == row'[OpenOf(run')] = "confirmed"
           T1 == pc' \notin Ending \cup {"acquire"} =>
                   issue'.state # "prior" \/ (pc' = "transition-claim" /\ call' # "reply")
           T2 == pc' # "idle" /\ Open1 => loc'.opened
           T3 == pc' \in Restores => ~loc'.opened
           T4 == run' \in Runs /\ run' \notin attended' /\ Open1 =>
                   issue'.state # "prior" /\ row'[RestoreOf(run')] = "none"
<1>g. T1 /\ T2 /\ T3 /\ T4 => Taken'
  BY DEF Taken, OpenOf, RestoreOf
<1>e. "idle" \in Ending /\ Restores \subseteq Ending
      /\ Restores = {"restore-assignee", "restore-state"}
      /\ "transition-claim" \notin Ending
  BY DEF Ending, Restores
<1>1. CASE StartRun
  <2>1. run' = run + 1 /\ row' = row /\ run' \in Runs /\ run + 1 > run /\ pc' = "acquire"
    BY <1>1, TypeFacts DEF StartRun, TypeInv, Placed
  <2>2. ~Open1
    BY <2>1 DEF TypeInv, Unstarted, OpenOf, Ops, EffectPcs, ForgeOps
  <2> QED BY <1>g, <1>e, <2>1, <2>2
<1>2. CASE Acquires
  <2>1. /\ pc = "acquire" /\ pc' = "transition-claim" /\ call' = call /\ call = "idle"
        /\ UNCHANGED <<run, row, issue, attended>>
    BY <1>2 DEF Acquires, remote, TypeInv, Placed, EffectPcs, BacklogOps, ForgeOps, Restores
  <2>2. loc'.opened = loc.opened
    BY <1>2, TypeFacts DEF Acquires, Locals
  <2> QED BY <1>g, <1>e, <2>1, <2>2 DEF Taken
<1>3. CASE \/ Observes \/ AcquireFails \/ BodyThrows \/ FenceRefuses \/ ActFails \/ NotStarted
           \/ AwaitsApproval \/ Releases \/ ReleaseFails \/ FinalRelease \/ Crash
  <2>1. Quits
    BY <1>3, Quitting
  <2>2. UNCHANGED <<run, issue, attended>> /\ pc # "idle" /\ run \in Runs /\ pc' \in Ending
    BY <2>1 DEF Quits, remote, TypeInv, Placed
  <2>3. \/ row' = row
        \/ /\ call # "idle"
           /\ \E s \in {"notApplied", "failed"} : row' = [row EXCEPT ![Current] = s]
    BY <2>1 DEF Quits
  <2>4. Open1 => Open
    BY <2>2, <2>3, PrKeys, RowFacts, RemoteFacts
  <2>5. row[RestoreOf(run)] = "none" => row'[RestoreOf(run)] = "none"
    BY <2>2, <2>3, PrKeys, RowFacts, RemoteFacts
  <2>6. T1 /\ T3
    BY <2>1, <2>2 DEF Quits
  <2>7. T2
    BY <2>1, <2>2, <2>4 DEF Quits, Taken
  <2>8. T4
    BY <2>2, <2>4, <2>5 DEF Taken
  <2> QED BY <1>g, <2>6, <2>7, <2>8
<1>4. CASE Intend \/ FencePasses
  <2>1. UNCHANGED <<run, pc, loc, issue, attended>> /\ pc \in EffectPcs /\ call # "reply"
        /\ call' # "reply"
        /\ run \in Runs /\ pc # "idle" /\ pc # "acquire"
    BY <1>4 DEF Intend, FencePasses, remote, TypeInv, Placed, EffectPcs, BacklogOps, ForgeOps,
        Restores
  <2>2. Current \in Runs \X Ops
        /\ \E s \in {"intended", "inFlight"} : row' = [row EXCEPT ![Current] = s]
    BY <1>4, <2>1, CurrentTyped DEF Intend, FencePasses
  <2>3. Open1 => Open
    BY <2>1, <2>2, PrKeys, RemoteFacts
  <2>4. Current = RestoreOf(run) => pc \in Restores
    BY <1>e DEF Current, CurOp, RestoreOf
  <2>5. Open1 => row'[RestoreOf(run)] = row[RestoreOf(run)]
    BY <2>1, <2>2, <2>3, <2>4, PrKeys, RemoteFacts, NotOpened
  <2>6. T1 /\ T2 /\ T3
    BY <2>1, <2>3 DEF Taken
  <2>7. T4
    BY <2>1, <2>3, <2>5 DEF Taken
  <2> QED BY <1>g, <2>6, <2>7
<1>5. CASE RemoteApplies
  <2>1. UNCHANGED <<run, pc, loc, row, attended>> /\ pc \in EffectPcs /\ pc # "idle"
        /\ run \in Runs
    BY <1>5 DEF RemoteApplies, TypeInv, Placed, EffectPcs, BacklogOps, ForgeOps, Restores
  <2>2. Current \in Runs \X Ops /\ Land(Current) /\ Current[2][1] = pc
    BY <1>5, <2>1, CurrentTyped DEF RemoteApplies, Current, CurOp
  <2>3. PICK e \in Runs \X Ops : e = Current
    BY <2>2
  <2>4. issue'.state = "prior"
        => (issue.state = "prior" /\ pc # "transition-claim") \/ pc = "restore-state"
    BY <2>2, <2>3, Touching
  <2>5. call # "reply"
    BY <1>5 DEF RemoteApplies
  <2>6. T1
    BY <2>1, <2>4, <2>5, <1>e DEF Taken
  <2>7. T2 /\ T3
    BY <2>1 DEF Taken
  <2>8. T4
    BY <2>1, <2>4, <1>e, NotOpened DEF Taken
  <2> QED BY <1>g, <2>6, <2>7, <2>8
<1>6. CASE MergeFoundDone
  <2>1. UNCHANGED <<run, pc, loc, row, issue, attended>> /\ pc = "merge"
    BY <1>6 DEF MergeFoundDone
  <2> QED BY <1>g, <2>1 DEF Taken
<1>7. CASE ReplyArrives
  <2>1. /\ UNCHANGED <<run, issue, attended>> /\ pc \in EffectPcs /\ pc # "idle" /\ pc # "acquire"
           /\ run \in Runs
        /\ call = "reply" /\ pc' = AfterEffect /\ row' = [row EXCEPT ![Current] = "confirmed"]
    BY <1>7 DEF ReplyArrives, remote, TypeInv, Placed, EffectPcs, BacklogOps, ForgeOps, Restores
  <2>2. loc'.opened = (loc.opened \/ pc = "open-pr")
    BY <1>7, TypeFacts DEF ReplyArrives, Locals
  <2>3. pc' \notin Ending => pc \notin Ending
    BY <2>1, AfterEffects DEF Ending, Restores
  <2>4. T1
    BY <2>1, <2>3 DEF Taken
  <2>5. (Current = OpenOf(run) <=> pc = "open-pr")
        /\ (Current = RestoreOf(run) <=> pc = "restore-state")
    BY DEF Current, CurOp, OpenOf, RestoreOf
  <2>6. Open1 => Open \/ pc = "open-pr"
    BY <2>1, <2>5, PrKeys, RemoteFacts
  <2>7. pc # "restore-state" => row'[RestoreOf(run)] = row[RestoreOf(run)]
    BY <2>1, <2>5, PrKeys, RemoteFacts
  <2>8. T2
    BY <2>1, <2>2, <2>6 DEF Taken
  <2>9. T3
    <3>1. pc' \in Restores => pc = "restore-assignee"
      BY <2>1, AfterEffects DEF Restores
    <3> QED BY <3>1, <2>2, <1>e DEF Taken
  <2>10. T4
    <3>1. CASE pc = "open-pr"
      <4>1. pc \in Pcs \ Ending
        BY <3>1, PcSets DEF Ending, Restores, EffectPcs, ForgeOps
      <4>2. issue.state # "prior"
        BY <2>1, <3>1, <4>1 DEF Taken
      <4>3. row[RestoreOf(run)] = "none"
        BY <4>1, UnrestoredYet
      <4> QED BY <2>1, <2>7, <3>1, <4>2, <4>3
    <3>2. CASE pc # "open-pr"
      BY <2>1, <2>6, <2>7, <3>2, <1>e, NotOpened DEF Taken
    <3> QED BY <3>1, <3>2
  <2> QED BY <1>g, <2>4, <2>8, <2>9, <2>10
<1>8. CASE Work
  <2>1. /\ UNCHANGED <<run, row, issue, attended>> /\ loc'.opened = loc.opened
        /\ pc \in BodyPcs \ EffectPcs /\ pc' \in BodyPcs
    BY <1>8, Working DEF Works, Local, remote
  <2>2. pc \notin Ending \cup {"acquire"} /\ pc # "transition-claim" /\ pc # "idle"
        /\ pc' \notin Restores
    BY <2>1, PcSets, <1>e DEF BodyPcs, EffectPcs, BacklogOps, ForgeOps, Restores
  <2> QED BY <1>g, <2>1, <2>2 DEF Taken
<1>9. CASE LeaseMoves \/ OperatorDeletesRef \/ OperatorResolvesLease \/ HumanTouchesPr
  <2>1. UNCHANGED <<run, pc, call, loc, row, issue, attended>>
    BY <1>9 DEF LeaseMoves, OperatorDeletesRef, OperatorResolvesLease, HumanTouchesPr, remote
  <2> QED BY <1>g, <2>1 DEF Taken
<1>10. CASE OperatorRestoresIssue
  <2>1. pc' = "idle" /\ run' \in attended'
    BY <1>10 DEF OperatorRestoresIssue
  <2> QED BY <1>g, <1>e, <2>1
<1>11. ASSUME NEW e \in Runs \X Ops, LandsLate(e) PROVE Taken'
  <2>1. UNCHANGED <<run, pc, call, loc, row, attended>> /\ Land(e)
        /\ row[e] \in {"inFlight", "failed"}
    BY <1>11 DEF LandsLate
  <2>2. e[1] = run
    BY <2>1 DEF Repeated, Pending
  <2>3. issue'.state = "prior" => issue.state = "prior" \/ e[2][1] = "restore-state"
    BY <2>1, Touching
  <2>4. e[2][1] = "restore-state" => e = RestoreOf(run)
    <3>1. e = <<e[1], e[2]>> /\ e[2] \in Ops
      OBVIOUS
    <3>2. e[2][1] = "restore-state" => e[2] = <<"restore-state", 0>>
      BY <3>1 DEF Ops
    <3> QED BY <2>2, <3>1, <3>2 DEF RestoreOf
  <2>5. e[2][1] = "restore-state" => row[RestoreOf(run)] # "none"
    BY <2>1, <2>4
  <2>6. pc \notin Ending => e[2][1] # "restore-state"
    BY <2>5, UnrestoredYet DEF TypeInv, TypeOK
  <2>7. T1
    BY <2>1, <2>3, <2>6 DEF Taken
  <2>8. T2 /\ T3 /\ T4
    BY <2>1, <2>3, <2>5 DEF Taken
  <2> QED BY <1>g, <2>7, <2>8
<1>12. ASSUME NEW e \in Runs \X Ops, OperatorResolves(e) PROVE Taken'
  <2>1. UNCHANGED <<run, pc, call, loc, issue>> /\ attended' = attended \cup {e[1]}
        /\ ~(e[1] = run /\ pc # "idle")
        /\ \E s \in Statuses : row' = [row EXCEPT ![e] = s]
    BY <1>12 DEF OperatorResolves, Alive, Statuses
  <2>2. CASE e[1] = run
    BY <1>g, <1>e, <2>1, <2>2
  <2>3. CASE e[1] # run
    <3>1. run \in Runs => /\ row'[OpenOf(run)] = row[OpenOf(run)]
                          /\ row'[RestoreOf(run)] = row[RestoreOf(run)]
      <4>1. e # OpenOf(run) /\ e # RestoreOf(run)
        BY <2>3 DEF OpenOf, RestoreOf
      <4> QED BY <2>1, <4>1, PrKeys, RemoteFacts
    <3>2. pc # "idle" => run \in Runs
      BY TypeFacts
    <3>3. T1 /\ T2 /\ T3
      BY <2>1, <3>1, <3>2 DEF Taken
    <3>4. T4
      BY <2>1, <3>1 DEF Taken
    <3> QED BY <1>g, <3>3, <3>4
  <2> QED BY <2>2, <2>3
<1>13. CASE UNCHANGED vars
  BY <1>13 DEF vars, Taken, OpenOf, RestoreOf
<1> QED BY <1>1, <1>2, <1>3, <1>4, <1>5, <1>6, <1>7, <1>8, <1>9, <1>10, <1>11, <1>12, <1>13
        DEF Next, RunStep, Environment, Work

\* While a run is in its body every effect it has asked for is confirmed, but
\* for the one it is waiting for.
Unfailed ==
  pc \notin Ending =>
    \A o \in Ops : row[<<run, o>>] \in {"none", "confirmed"} \/ (call # "idle" /\ o = CurOp)

\* Where a run stands tells what it has done and in which mode.
OnCourse ==
  /\ pc # "idle" /\ Rank(pc) \in 6 .. 12 => row[OpenOf(run)] = "confirmed"
  /\ pc \notin Ending \cup {"acquire"} => cfg.autonomy # "observe"
  /\ pc \in {"merge-check", "merge", "transition-complete"} => cfg.autonomy = "merge"
  /\ pc \in {"transition-delivered", "comment-delivered"} => cfg.autonomy = "pr-only"
  /\ pc = "transition-complete" => row[MergeOf(run)] = "confirmed"
  /\ pc = "release" /\ cfg.autonomy # "pr-only" => row[MergeOf(run)] = "confirmed"
  /\ pc # "idle" => st[run] \notin Done

\* Every step keeps it: an effect that fails throws, and the run leaves its body.
LEMMA NextUnfailed ==
  TypeInv /\ TypeInv' /\ OP!OutboxInv /\ Unfailed /\ [Next]_vars => Unfailed'
<1> SUFFICES ASSUME TypeInv, TypeInv', OP!OutboxInv, Unfailed, [Next]_vars PROVE Unfailed'
  OBVIOUS
<1>1. CASE StartRun
  <2>1. run' = run + 1 /\ row' = row /\ run' \in Runs /\ run + 1 > run
    BY <1>1, TypeFacts DEF StartRun, TypeInv, Placed
  <2> QED BY <2>1 DEF TypeInv, Unstarted, Unfailed
<1>2. CASE Acquires
  <2>1. /\ pc = "acquire" /\ call' = call /\ call = "idle" /\ UNCHANGED <<run, row>>
    BY <1>2 DEF Acquires, remote, TypeInv, Placed, EffectPcs, BacklogOps, ForgeOps, Restores
  <2> QED BY <2>1 DEF Unfailed, Ending, Restores
<1>3. CASE \/ Observes \/ AcquireFails \/ BodyThrows \/ FenceRefuses \/ ActFails \/ NotStarted
           \/ AwaitsApproval \/ Releases \/ ReleaseFails \/ FinalRelease \/ Crash
  BY <1>3, Quitting DEF Quits, Unfailed, Ending, Restores
<1>4. CASE Intend \/ FencePasses \/ RemoteApplies \/ MergeFoundDone
  <2>1. UNCHANGED <<run, pc, cand>> /\ call' # "idle" /\ pc \in EffectPcs
    BY <1>4 DEF Intend, FencePasses, RemoteApplies, MergeFoundDone, evidence, TypeInv, Placed
  <2>2. Current \in Runs \X Ops
        /\ (row' = row \/ \E s \in Statuses : row' = [row EXCEPT ![Current] = s])
    BY <1>4, <2>1, CurrentTyped DEF Intend, FencePasses, RemoteApplies, MergeFoundDone, Statuses
  <2>3. CurOp' = CurOp
    BY <2>1 DEF CurOp
  <2>4. \A o \in Ops : o # CurOp => row'[<<run, o>>] = row[<<run, o>>]
    BY <2>2, RemoteFacts DEF Current
  <2> QED BY <2>1, <2>3, <2>4 DEF Unfailed
<1>5. CASE ReplyArrives
  <2>1. run' = run /\ pc \in EffectPcs /\ pc' = AfterEffect
        /\ row' = [row EXCEPT ![Current] = "confirmed"]
        /\ Current \in Runs \X Ops
    BY <1>5, RowFacts DEF ReplyArrives, TypeInv, Placed
  <2>2. pc' \notin Ending => pc \notin Ending
    BY <2>1, AfterEffects DEF Ending, Restores
  <2>3. \A o \in Ops :
          (row'[<<run, o>>] = row[<<run, o>>] /\ o # CurOp) \/ row'[<<run, o>>] = "confirmed"
    BY <2>1, RemoteFacts DEF Current, TypeInv, Placed
  <2> QED BY <2>1, <2>2, <2>3 DEF Unfailed
<1>6. CASE Work
  <2>1. UNCHANGED <<run, row>> /\ call = "idle" /\ pc \in BodyPcs
    BY <1>6, Working DEF Works, Local
  <2> QED BY <2>1, PcSets DEF Unfailed
<1>7. CASE LeaseMoves \/ OperatorDeletesRef \/ OperatorResolvesLease \/ HumanTouchesPr
           \/ OperatorRestoresIssue
           \/ \E e \in Runs \X Ops : LandsLate(e)
  <2>1. UNCHANGED <<run, pc, call, row, cand>>
    BY <1>7 DEF LeaseMoves, OperatorDeletesRef, OperatorResolvesLease, HumanTouchesPr,
        OperatorRestoresIssue,
       LandsLate, evidence
  <2>2. CurOp' = CurOp
    BY <2>1 DEF CurOp
  <2> QED BY <2>1, <2>2 DEF Unfailed
<1>8. ASSUME NEW e \in Runs \X Ops, OperatorResolves(e) PROVE Unfailed'
  <2>1. UNCHANGED <<run, pc, call, cand>> /\ ~(e[1] = run /\ pc # "idle")
        /\ \E s \in Statuses : row' = [row EXCEPT ![e] = s]
    BY <1>8 DEF OperatorResolves, Alive, Statuses, evidence
  <2>2. pc # "idle" => \A o \in Ops : row'[<<run, o>>] = row[<<run, o>>]
    BY <2>1, RemoteFacts, TypeFacts
  <2>3. CurOp' = CurOp /\ "idle" \in Ending
    BY <2>1 DEF CurOp, Ending
  <2> QED BY <2>1, <2>2, <2>3 DEF Unfailed, Ending
<1>9. CASE UNCHANGED vars
  <2>1. CurOp' = CurOp
    BY <1>9 DEF vars, CurOp
  <2> QED BY <1>9, <2>1 DEF vars, Unfailed
<1> QED BY <1>1, <1>2, <1>3, <1>4, <1>5, <1>6, <1>7, <1>8, <1>9 DEF Next, RunStep, Environment,
    Work

\* Work gets past the pull request only from where there is one, and to the
\* end only in the mode that allows it.
LEMMA WorkStays ==
  ASSUME TypeInv, OnCourse, Work
  PROVE  /\ Rank(pc') \in 6 .. 12 => Rank(pc) = 7
         /\ pc' \in {"merge-check", "merge"} => cfg.autonomy = "merge"
         /\ pc' \in {"transition-delivered", "comment-delivered"} => cfg.autonomy = "pr-only"
         /\ pc' \notin {"transition-complete", "release"}
<1> USE RankValues
<1>1. CASE CreateWorkspace \/ BuildPacket \/ StartAgent \/ AgentReturns \/ VerifyPasses
           \/ ReviewPasses
  BY <1>1 DEF CreateWorkspace, BuildPacket, StartAgent, AgentReturns, VerifyPasses, ReviewPasses
<1>2. CASE VerifyFails \/ ReviewBlocks
  BY <1>2 DEF VerifyFails, ReviewBlocks, Retry
<1>3. CASE HeadChecked \/ CiWaits \/ CiPolls \/ CiSatisfied
  BY <1>3 DEF HeadChecked, CiWaits, CiPolls, CiSatisfied, AfterHead
<1>4. CASE StartPrReview \/ PrReviewPasses \/ PrReviewBlocks \/ PrFixReturns \/ ReverifyPasses
  BY <1>4 DEF StartPrReview, PrReviewPasses, PrReviewBlocks, PrFixReturns, ReverifyPasses
<1>5. CASE DeliverPr
  BY <1>5 DEF DeliverPr
<1>6. CASE MergeAllowed \/ MergeChecked
  BY <1>6 DEF MergeAllowed, MergeChecked, OnCourse
<1> QED BY <1>1, <1>2, <1>3, <1>4, <1>5, <1>6 DEF Work

\* Every step keeps it.
LEMMA NextOnCourse ==
  TypeInv /\ TypeInv' /\ OP!OutboxInv /\ OnCourse /\ [Next]_vars => OnCourse'
<1> SUFFICES ASSUME TypeInv, TypeInv', OP!OutboxInv, OnCourse, [Next]_vars PROVE OnCourse'
  OBVIOUS
<1> DEFINE C1 == pc' # "idle" /\ Rank(pc') \in 6 .. 12 => row'[OpenOf(run')] = "confirmed"
           C2 == pc' \notin Ending \cup {"acquire"} => cfg'.autonomy # "observe"
           C3 == pc' \in {"merge-check", "merge", "transition-complete"} => cfg'.autonomy = "merge"
           C4 == pc' \in {"transition-delivered", "comment-delivered"} => cfg'.autonomy = "pr-only"
           C5 == pc' = "transition-complete" => row'[MergeOf(run')] = "confirmed"
           C6 == pc' = "release" /\ cfg'.autonomy # "pr-only" => row'[MergeOf(run')] = "confirmed"
           C7 == pc' # "idle" => st'[run'] \notin Done
<1>g. C1 /\ C2 /\ C3 /\ C4 /\ C5 /\ C6 /\ C7 => OnCourse'
  BY DEF OnCourse, OpenOf, MergeOf, Rank
<1>e. Ending = {"restore-assignee", "restore-state", "final-release", "idle"}
  BY DEF Ending, Restores
<1>1. CASE StartRun
  <2>1. pc' = "acquire" /\ run' = run + 1 /\ run' \in Runs
        /\ st' = [st EXCEPT ![run + 1] = "ELIGIBILITY_CHECKED"]
    BY <1>1, TypeFacts DEF StartRun, TypeInv, Placed
  <2>2. C7
    BY <2>1, TypeFacts DEF Done
  <2> QED BY <1>g, <2>1, <2>2, RankValues
<1>2. CASE Acquires
  <2>1. pc' = "transition-claim" /\ run' = run /\ run \in Runs
        /\ st' = [st EXCEPT ![run] = "CLAIMED"]
        /\ cfg' = cfg /\ cfg.autonomy # "observe"
    BY <1>2 DEF Acquires, Advance, TypeInv, Placed
  <2>2. C7
    BY <2>1, TypeFacts DEF Done
  <2> QED BY <1>g, <2>1, <2>2, RankValues
<1>3. CASE \/ Observes \/ AcquireFails \/ BodyThrows \/ FenceRefuses \/ ActFails \/ NotStarted
           \/ AwaitsApproval \/ Releases \/ ReleaseFails \/ FinalRelease \/ Crash
  <2>1. Quits /\ (Releases \/ Observes \/ StaysOpen)
    BY <1>3, Quitting
  <2>2. pc' \in Ending /\ pc # "idle" /\ run' = run /\ run \in Runs
    BY <2>1 DEF Quits, TypeInv, Placed
  <2>3. Releases \/ Observes => pc' = "idle"
    BY DEF Releases, Observes
  <2>4. StaysOpen => st'[run] \notin Done
    BY <2>2, TypeFacts DEF StaysOpen, OnCourse
  <2>5. C7
    BY <2>1, <2>2, <2>3, <2>4
  <2>6. pc' # "idle" => Rank(pc') \notin 6 .. 12
    BY <2>2, <1>e, RankValues
  <2> HIDE DEF C7
  <2> QED BY <1>g, <2>2, <2>5, <2>6, <1>e
<1>4. CASE Intend \/ FencePasses \/ RemoteApplies \/ MergeFoundDone
  <2>1. UNCHANGED <<cfg, run, pc, st>> /\ pc \in EffectPcs /\ pc # "idle" /\ run \in Runs
    BY <1>4 DEF Intend, FencePasses, RemoteApplies, MergeFoundDone, TypeInv, Placed, EffectPcs,
        BacklogOps,
       ForgeOps, Restores
  <2>2. Current \in Runs \X Ops
        /\ (row' = row \/ \E s \in Statuses : row' = [row EXCEPT ![Current] = s])
    BY <1>4, <2>1, CurrentTyped DEF Intend, FencePasses, RemoteApplies, MergeFoundDone, Statuses
  <2>3. Rank(pc) \in 6 .. 12 => row'[OpenOf(run)] = row[OpenOf(run)]
    <3>1. pc # "open-pr" => Current # OpenOf(run)
      BY DEF Current, CurOp, OpenOf
    <3> QED BY <2>1, <2>2, <3>1, RankValues, PrKeys, RemoteFacts
  <2>4. pc # "merge" => row'[MergeOf(run)] = row[MergeOf(run)]
    <3>1. pc # "merge" => Current # MergeOf(run)
      BY DEF Current, CurOp, MergeOf
    <3> QED BY <2>1, <2>2, <3>1, MergeKey, RemoteFacts
  <2>5. C1
    BY <2>1, <2>3 DEF OnCourse
  <2>6. C2 /\ C3 /\ C4 /\ C5 /\ C6 /\ C7
    BY <2>1, <2>4 DEF OnCourse
  <2> QED BY <1>g, <2>5, <2>6
<1>5. CASE ReplyArrives
  <2>1. /\ UNCHANGED <<cfg, run>> /\ pc \in EffectPcs /\ pc # "idle" /\ pc # "acquire"
           /\ run \in Runs
        /\ pc' = AfterEffect /\ row' = [row EXCEPT ![Current] = "confirmed"]
           /\ st' = [st EXCEPT ![run] = StateAfter]
    BY <1>5 DEF ReplyArrives, Advance, TypeInv, Placed, EffectPcs, BacklogOps, ForgeOps, Restores
  <2>2. (pc = "open-pr" => Current = OpenOf(run)) /\ (pc = "merge" => Current = MergeOf(run))
    BY DEF Current, CurOp, OpenOf, MergeOf
  <2>3. Current \in Runs \X Ops
    BY <2>1, CurrentTyped
  <2>4. /\ pc = "open-pr" \/ row[OpenOf(run)] = "confirmed" => row'[OpenOf(run)] = "confirmed"
        /\ pc = "merge" \/ row[MergeOf(run)] = "confirmed" => row'[MergeOf(run)] = "confirmed"
    BY <2>1, <2>2, <2>3, PrKeys, MergeKey, RemoteFacts
  <2>5. C1
    <3>1. pc' # "idle" /\ Rank(pc') \in 6 .. 12 => pc = "open-pr" \/ Rank(pc) \in 6 .. 12
      BY <2>1, AfterEffects, RankValues
    <3> QED BY <2>1, <2>4, <3>1 DEF OnCourse
  <2>6. C2
    BY <2>1, <1>e, AfterEffects DEF OnCourse
  <2>7. C3 /\ C4 /\ C5 /\ C6
    BY <2>1, <2>4, AfterEffects DEF OnCourse
  <2>8. C7
    BY <2>1, StatesAfter, TypeFacts DEF OnCourse
  <2> HIDE DEF C1, C2, C3, C4, C5, C6, C7
  <2> QED BY <1>g, <2>5, <2>6, <2>7, <2>8
<1>6. CASE Work
  <2>1. /\ UNCHANGED <<cfg, run, row>> /\ pc \in BodyPcs \ EffectPcs /\ pc' \in BodyPcs
           /\ pc # "idle"
        /\ run \in Runs /\ pc \notin Ending \cup {"acquire"}
    BY <1>6, Working, PcSets DEF Works, Local, TypeInv, Placed, BodyPcs, EffectPcs, BacklogOps,
        ForgeOps, Restores
  <2>2. st' = st \/ \E s \in RunStates \ Done : st' = [st EXCEPT ![run] = s]
    BY <1>6, Working DEF Works
  <2>3. C7
    BY <2>1, <2>2, TypeFacts DEF OnCourse
  <2>4. C1
    <3>1. Rank(pc') \in 6 .. 12 => Rank(pc) = 7
      BY <1>6, WorkStays
    <3> QED BY <2>1, <3>1 DEF OnCourse
  <2>5. C2 /\ C3 /\ C4 /\ C5 /\ C6
    BY <1>6, <2>1, WorkStays DEF OnCourse
  <2> HIDE DEF C1, C2, C3, C4, C5, C6, C7
  <2> QED BY <1>g, <2>3, <2>4, <2>5
<1>7. CASE LeaseMoves \/ OperatorDeletesRef \/ OperatorResolvesLease \/ HumanTouchesPr
           \/ OperatorRestoresIssue
           \/ \E e \in Runs \X Ops : LandsLate(e)
  <2>1. UNCHANGED <<cfg, run, pc, row, st>>
    BY <1>7 DEF LeaseMoves, OperatorDeletesRef, OperatorResolvesLease, HumanTouchesPr,
        OperatorRestoresIssue,
       LandsLate
  <2> QED BY <1>g, <2>1 DEF OnCourse
<1>8. ASSUME NEW e \in Runs \X Ops, OperatorResolves(e) PROVE OnCourse'
  <2>1. UNCHANGED <<cfg, run, pc, st>> /\ ~(e[1] = run /\ pc # "idle")
        /\ \E s \in Statuses : row' = [row EXCEPT ![e] = s]
    BY <1>8 DEF OperatorResolves, Alive, Statuses
  <2>2. pc # "idle"
        => row'[OpenOf(run)] = row[OpenOf(run)] /\ row'[MergeOf(run)] = row[MergeOf(run)]
    <3>1. e[1] # run => e # OpenOf(run) /\ e # MergeOf(run)
      BY DEF OpenOf, MergeOf
    <3> QED BY <2>1, <3>1, PrKeys, MergeKey, RemoteFacts, TypeFacts
  <2> QED BY <1>g, <2>1, <2>2 DEF OnCourse
<1>9. CASE UNCHANGED vars
  BY <1>9, <1>g DEF vars, OnCourse
<1> QED BY <1>1, <1>2, <1>3, <1>4, <1>5, <1>6, <1>7, <1>8, <1>9 DEF Next, RunStep, Environment,
    Work

\* #releaseLease on the clean path is the only step that records a run as done,
\* and what it finds stays.
LEMMA NextCleanExit ==
  TypeInv /\ TypeInv' /\ OP!OutboxInv /\ Unfailed /\ OnCourse /\ CleanExitIsComplete /\ [Next]_vars
    => CleanExitIsComplete'
<1> SUFFICES ASSUME TypeInv, TypeInv', OP!OutboxInv, Unfailed, OnCourse, CleanExitIsComplete,
                    [Next]_vars
             PROVE  CleanExitIsComplete'
  OBVIOUS
<1> DEFINE Doubt(e) == row[e] \in {"intended", "inFlight", "failed"}
           Settled(r) == /\ lease # r /\ leaseRow # r
                         /\ \A e \in Runs \X Ops : e[1] = r => ~Doubt(e)
                         /\ OpenOf(r) \in applied
                         /\ st[r] = "COMPLETED" => MergeOf(r) \in applied
           Kept(r) == /\ cfg' = cfg /\ st'[r] = st[r] /\ lease' \in {0, -1, run, lease}
                      /\ leaseRow' \in {0, leaseRow, run}
                      /\ \A e \in Runs \X Ops : e[1] = r => row'[e] = row[e] \/ ~Doubt(e)'
                      /\ applied \subseteq applied'
<1>c. CleanExitIsComplete <=> \A r \in Runs : st[r] \in Done /\ cfg.autonomy # "observe"
      => Settled(r)
  BY DEF CleanExitIsComplete, Done, Pending, OpenOf, MergeOf
<1>d. CleanExitIsComplete' <=> \A r \in Runs : st'[r] \in Done /\ cfg'.autonomy # "observe"
      => Settled(r)'
  BY DEF CleanExitIsComplete, Done, Pending, OpenOf, MergeOf
<1>k. ASSUME NEW r \in Runs, Kept(r),
             (r # run \/ (lease' \in {0, -1, lease} /\ leaseRow' \in {0, leaseRow})),
             st'[r] \in Done, cfg'.autonomy # "observe"
      PROVE  Settled(r)'
  <2>1. Settled(r)
    BY <1>k, <1>c
  <2>2. r # 0 /\ r # -1
    BY DEF Runs
  <2>3. lease' # r /\ leaseRow' # r
    BY <1>k, <2>1, <2>2
  <2>4. \A e \in Runs \X Ops : e[1] = r => ~Doubt(e)'
    BY <1>k, <2>1
  <2>5. OpenOf(r)' \in applied' /\ (st'[r] = "COMPLETED" => MergeOf(r)' \in applied')
    BY <1>k, <2>1 DEF OpenOf, MergeOf
  <2> HIDE DEF Doubt
  <2> QED BY <2>3, <2>4, <2>5
<1> HIDE DEF Settled, Doubt
\* A run that is under way has not ended, so it suffices to look at the others.
<1>o. ASSUME run' = run, run \in Runs, st'[run] \notin Done,
             \A r \in Runs : r # run => Kept(r)
      PROVE  CleanExitIsComplete'
  BY <1>o, <1>k, <1>d
<1>s. ASSUME NEW r \in Runs, call # "idle", r # run,
             \E s \in Statuses : row' = [row EXCEPT ![Current] = s]
      PROVE  \A e \in Runs \X Ops : e[1] = r => row'[e] = row[e]
  <2>1. Current \in Runs \X Ops /\ Current[1] = run
    BY <1>s, RowFacts DEF Current
  <2> QED BY <1>s, <2>1, RemoteFacts
<1>1. CASE StartRun
  <2>1. /\ run' = run + 1 /\ run' \in Runs /\ st' = [st EXCEPT ![run + 1] = "ELIGIBILITY_CHECKED"]
        /\ UNCHANGED <<cfg, row, lease, leaseRow, applied>>
    BY <1>1, TypeFacts DEF StartRun, TypeInv, Placed, remote
  <2>2. ASSUME NEW r \in Runs, st'[r] \in Done PROVE st'[r] = st[r]
    BY <2>1, <2>2, TypeFacts DEF Done
  <2>3. ASSUME NEW r \in Runs, st'[r] \in Done PROVE Kept(r)
    BY <2>1, <2>2, <2>3
  <2> QED BY <2>1, <2>3, <1>k, <1>d
<1>2. CASE Acquires
  <2>1. run' = run /\ run \in Runs /\ st' = [st EXCEPT ![run] = "CLAIMED"] /\ lease' = run
        /\ leaseRow' = run
        /\ UNCHANGED <<cfg, row, applied>>
    BY <1>2 DEF Acquires, Advance, remote, TypeInv, Placed
  <2>2. st'[run] \notin Done /\ \A r \in Runs : r # run => st'[r] = st[r]
    BY <2>1, TypeFacts DEF Done
  <2> QED BY <1>o, <2>1, <2>2
<1>3. CASE \/ Observes \/ AcquireFails \/ BodyThrows \/ FenceRefuses \/ ActFails \/ NotStarted
           \/ AwaitsApproval \/ Releases \/ ReleaseFails \/ FinalRelease \/ Crash
  <2>1. Quits /\ (Releases \/ Observes \/ StaysOpen)
    BY <1>3, Quitting
  <2>2. /\ run' = run /\ run \in Runs /\ pc # "idle" /\ cfg' = cfg /\ applied' = applied
        /\ lease' \in {0, run, lease} /\ leaseRow' \in {0, leaseRow} /\ \A r \in Runs : r # run
           => st'[r] = st[r]
    BY <2>1, TypeFacts DEF Quits, remote, TypeInv, Placed
  <2>3. row' = row \/ (call # "idle" /\ \E s \in Statuses : row' = [row EXCEPT ![Current] = s])
    BY <2>1 DEF Quits, Statuses
  <2>4. ASSUME NEW r \in Runs, r # run PROVE Kept(r)
    BY <2>2, <2>3, <2>4, <1>s
  <2>5. CASE StaysOpen
    <3>1. st'[run] \notin Done
      BY <2>2, <2>5, TypeFacts DEF StaysOpen, OnCourse
    <3> QED BY <1>o, <2>2, <2>4, <3>1
  <2>6. CASE Observes
    BY <1>d, <2>2, <2>6 DEF Observes
  <2>7. CASE Releases
    <3>1. /\ pc = "release" /\ lease' = 0 /\ leaseRow' = (IF leaseRow = run THEN 0 ELSE leaseRow)
          /\ st' = [st EXCEPT ![run] = IF cfg.autonomy = "pr-only" THEN "PR_DELIVERED"
                                       ELSE "COMPLETED"]
          /\ row' = row
      BY <2>7 DEF Releases, Advance
    <3>2. call = "idle"
      BY <3>1 DEF TypeInv, Placed, EffectPcs, BacklogOps, ForgeOps, Restores
    <3>3. \A e \in Runs \X Ops : e[1] = run => ~Doubt(e)'
      <4>1. \A o \in Ops : row[<<run, o>>] \in {"none", "confirmed"}
        BY <3>1, <3>2 DEF Unfailed, Ending, Restores
      <4>2. \A e \in Runs \X Ops : e = <<e[1], e[2]>> /\ e[2] \in Ops
        OBVIOUS
      <4> QED BY <3>1, <4>1, <4>2 DEF Doubt
    <3>4. OpenOf(run) \in applied
      <4>1. row[OpenOf(run)] = "confirmed"
        BY <3>1, RankValues DEF OnCourse
      <4> QED BY <2>2, <4>1, PrKeys, RowFacts
    <3>5. st'[run] = "COMPLETED" => MergeOf(run) \in applied
      <4>1. st'[run] = "COMPLETED" => cfg.autonomy # "pr-only"
        BY <2>2, <3>1, TypeFacts
      <4>2. cfg.autonomy # "pr-only" => row[MergeOf(run)] = "confirmed"
        BY <3>1 DEF OnCourse
      <4> QED BY <2>2, <4>1, <4>2, MergeKey, RowFacts
    <3>6. run # 0
      BY <2>2 DEF Runs
    <3>7. Settled(run)'
      <4>1. lease' # run' /\ leaseRow' # run'
        BY <2>2, <3>1, <3>6
      <4>2. \A e \in Runs \X Ops : e[1] = run' => ~Doubt(e)'
        BY <2>2, <3>3
      <4>3. OpenOf(run)' \in applied' /\ (st'[run'] = "COMPLETED" => MergeOf(run)' \in applied')
        BY <2>2, <3>4, <3>5 DEF OpenOf, MergeOf
      <4> QED BY <4>1, <4>2, <4>3 DEF Settled
    <3>8. PICK q \in Runs : q = run
      BY <2>2
    <3>9. Settled(q)'
      <4>1. lease' # q /\ leaseRow' # q
        BY <3>1, <3>6, <3>8
      <4>2. \A e \in Runs \X Ops : e[1] = q => ~Doubt(e)'
        BY <3>3, <3>8
      <4>3. OpenOf(q)' \in applied' /\ (st'[q] = "COMPLETED" => MergeOf(q)' \in applied')
        BY <2>2, <3>4, <3>5, <3>8 DEF OpenOf, MergeOf
      <4> QED BY <4>1, <4>2, <4>3 DEF Settled
    <3> QED BY <1>k, <1>d, <2>4, <3>8, <3>9
  <2> QED BY <2>1, <2>5, <2>6, <2>7
<1>4. CASE Intend \/ FencePasses \/ RemoteApplies \/ MergeFoundDone \/ ReplyArrives
  <2>1. /\ UNCHANGED <<cfg, run, lease, leaseRow>> /\ applied \subseteq applied'
           /\ pc \in EffectPcs /\ run \in Runs
        /\ pc # "idle"
    BY <1>4 DEF Intend, FencePasses, RemoteApplies, MergeFoundDone, ReplyArrives, Land, remote,
        TypeInv, Placed,
       EffectPcs, BacklogOps, ForgeOps, Restores
  <2>2. row' = row \/ \E s \in Statuses : row' = [row EXCEPT ![Current] = s]
    BY <1>4 DEF Intend, FencePasses, RemoteApplies, MergeFoundDone, ReplyArrives, Statuses
  <2>3. Current \in Runs \X Ops /\ Current[1] = run
    BY <2>1, CurrentTyped DEF Current
  <2>4. \A r \in Runs : r # run => st'[r] = st[r] /\ \A e \in Runs \X Ops : e[1] = r
        => row'[e] = row[e]
    <3>1. st' = st \/ st' = [st EXCEPT ![run] = StateAfter]
      BY <1>4 DEF Intend, FencePasses, RemoteApplies, MergeFoundDone, ReplyArrives, Advance
    <3> QED BY <2>1, <2>2, <2>3, <3>1, TypeFacts, RemoteFacts
  <2>5. st'[run] \notin Done
    <3>1. st' = st \/ st' = [st EXCEPT ![run] = StateAfter]
      BY <1>4 DEF Intend, FencePasses, RemoteApplies, MergeFoundDone, ReplyArrives, Advance
    <3> QED BY <2>1, <3>1, StatesAfter, TypeFacts DEF OnCourse
  <2> QED BY <1>o, <2>1, <2>4, <2>5
<1>5. CASE Work
  <2>1. /\ UNCHANGED <<cfg, run, row, lease, leaseRow, applied>> /\ run \in Runs /\ pc # "idle"
        /\ (st' = st \/ \E s \in RunStates \ Done : st' = [st EXCEPT ![run] = s])
    BY <1>5, Working DEF Works, Local, remote, TypeInv, Placed, BodyPcs, EffectPcs, BacklogOps,
        ForgeOps, Restores
  <2>2. st'[run] \notin Done /\ \A r \in Runs : r # run => st'[r] = st[r]
    BY <2>1, TypeFacts DEF OnCourse
  <2> QED BY <1>o, <2>1, <2>2
<1>6. CASE World
  <2>1. /\ UNCHANGED <<cfg, st>> /\ lease' \in {0, -1, lease} /\ leaseRow' \in {0, leaseRow}
        /\ applied \subseteq applied'
    BY <1>6 DEF World, LeaseMoves, OperatorDeletesRef, OperatorResolvesLease, HumanTouchesPr,
        OperatorRestoresIssue,
       LandsLate, OperatorResolves, Land, Other, remote
  <2>2. \A e \in Runs \X Ops : row'[e] = row[e] \/ ~Doubt(e)'
    <3>1. row' = row
          \/ \E e \in Runs \X Ops, s \in {"confirmed", "notApplied"} : row' = [row EXCEPT ![e] = s]
      BY <1>6 DEF World, LeaseMoves, OperatorDeletesRef, OperatorResolvesLease, HumanTouchesPr,
          OperatorRestoresIssue,
         LandsLate, OperatorResolves, remote
    <3> QED BY <3>1, RemoteFacts DEF Doubt
  <2> QED BY <1>k, <1>d, <2>1, <2>2
<1>7. CASE UNCHANGED vars
  BY <1>7, <1>k, <1>d DEF vars
<1> QED BY <1>1, <1>2, <1>3, <1>4, <1>5, <1>6, <1>7 DEF Next, RunStep, Environment, Work, World

\* The inductive invariant: types, the outbox, the evidence, and what the run
\* has done and left by where it stands.
DeliveryInv ==
  /\ TypeInv
  /\ Fresh
  /\ OP!OutboxInv
  /\ Evidenced
  /\ Merged
  /\ Repeated
  /\ Taken
  /\ Unfailed
  /\ OnCourse
  /\ CleanExitIsComplete

\* The invariant holds at the start.
LEMMA InitDeliveryInv == Init => DeliveryInv
<1> SUFFICES ASSUME Init PROVE DeliveryInv
  OBVIOUS
<1>1. TypeInv
  BY InitTypeInv
<1>2. OP!OutboxInv
  BY InitBar, NoOpIsNone, OP!InitInv
<1>3. Fresh /\ Evidenced /\ Unfailed /\ OnCourse
  BY DEF Init, Fresh, Evidenced, Checked, Unfailed, OnCourse, Ending
<1>4. Merged
  BY MergeKey DEF Init, Merged
<1>5. Repeated /\ Taken
  BY PrKeys DEF Init, Repeated, Taken, Pending, Ending, Restores, Runs
<1>6. CleanExitIsComplete
  BY DEF Init, CleanExitIsComplete
<1> QED BY <1>1, <1>2, <1>3, <1>4, <1>5, <1>6 DEF DeliveryInv

\* Every reachable state of Orchestrator.run, over any number of runs,
\* configurations, crashes, late requests and interventions, satisfies the
\* invariant.
THEOREM DeliveryInvariant == Spec => []DeliveryInv
<1>1. DeliveryInv /\ [Next]_vars => DeliveryInv'
  BY NextInvType, NextFresh, NextOutbox, NextEvidenced, NextMerged, NextRepeated, NextTaken,
     NextUnfailed, NextOnCourse, NextCleanExit DEF DeliveryInv
<1> QED BY <1>1, InitDeliveryInv, PTL DEF Spec

\* The variables keep their types: run, #runPrReview and the store stay within
\* the bounds of their loops.
THEOREM TypeCorrect == Spec => []TypeOK
<1>1. DeliveryInv => TypeOK
  BY DEF DeliveryInv, TypeInv
<1> QED BY <1>1, DeliveryInvariant, PTL

\* A merged commit has its own evidence (#runPrReview, expectedHeadSha).
THEOREM OnlyVettedMerges == Spec => []MergedIsVetted
<1>1. DeliveryInv => MergedIsVetted
  <2>1. ASSUME DeliveryInv, NEW r \in Runs, <<r, <<"merge", 0>>>> \in applied
        PROVE  pr[r] = [state |-> "merged", head |-> cand[r]] /\ Vetted(r)
    <3>1. row[MergeOf(r)] # "none"
      BY <2>1, MergeKey, RowFacts DEF DeliveryInv, MergeOf
    <3> QED BY <2>1, <3>1 DEF DeliveryInv, Merged, MergeOf
  <2> QED BY <2>1 DEF MergedIsVetted, Vetted
<1> QED BY <1>1, DeliveryInvariant, PTL

\* A run recorded PR_DELIVERED or COMPLETED left nothing behind (finish,
\* #releaseLease).
THEOREM CleanExits == Spec => []CleanExitIsComplete
<1>1. DeliveryInv => CleanExitIsComplete
  BY DEF DeliveryInv
<1> QED BY <1>1, DeliveryInvariant, PTL

\* Runs on one issue do not open a second pull request unless an operator has
\* stepped in (the entry checks, the finally block).
THEOREM OnePullRequest == Spec => []OnePullRequestPerIssue
<1>1. DeliveryInv => OnePullRequestPerIssue
  <2>1. ASSUME DeliveryInv, NEW r \in Runs, NEW q \in Runs, r < q, pr[r].state # "none",
               pr[q].state # "none"
        PROVE  r \in attended
    <3>1. ~(q > run) /\ run \in Nat /\ r \in Nat /\ q \in Nat
      BY <2>1, TypeFacts DEF DeliveryInv, TypeInv, Unstarted, Runs
    <3> QED BY <2>1, <3>1 DEF DeliveryInv, Repeated
  <2> QED BY <2>1 DEF OnePullRequestPerIssue
<1> QED BY <1>1, DeliveryInvariant, PTL

\* Orchestrator.run implements the outbox protocol (#withOutbox), step by step.
THEOREM Implements == Spec => ImplementsOutbox
<1>1. Init => Outboxes!Init
  BY InitBar, SameProtocol
<1>2. DeliveryInv /\ DeliveryInv' /\ [Next]_vars => [Outboxes!Next]_Outboxes!vars
  BY NextBar, SameProtocol DEF DeliveryInv
<1> QED BY <1>1, <1>2, DeliveryInvariant, PTL DEF Spec, ImplementsOutbox, Outboxes!Spec

\* So the side_effects rows of its runs never misstate the remote, and a closed
\* row is final (confirmSideEffect, failSideEffect, `effects resolve`).
THEOREM StoreStaysTruthful == Spec => []OP!OutboxTruthful /\ OP!ClosedIsFinal
<1>1. OP!Spec => []OP!OutboxTruthful
  BY NoOpIsNone, OP!StoreIsTruthful
<1>2. OP!Spec => OP!ClosedIsFinal
  BY NoOpIsNone, OP!ClosedRowsAreFinal
<1>3. Init => OP!Init
  BY InitBar
<1>4. DeliveryInv /\ DeliveryInv' /\ [Next]_vars => [OP!Next]_OP!vars
  BY NextBar DEF DeliveryInv
<1> QED BY <1>1, <1>2, <1>3, <1>4, DeliveryInvariant, PTL DEF Spec, OP!Spec
=============================================================================
