------------------------------- MODULE CiWait -------------------------------
(***************************************************************************)
(* #waitForCi (src/src/orchestrator/orchestrator.ts) and reconcileChecks   *)
(* (src/src/pr/reconcile.ts): waiting for the required checks of one       *)
(* candidate commit while CI schedules, completes and re-runs them.        *)
(*                                                                         *)
(* The forge's check-runs and commit statuses are two lists, read by two   *)
(* concurrent requests at two moments.  A commit status is a new entry     *)
(* each time it is set and carries a time even when pending; a check-run   *)
(* is updated in place and carries a time only once completed.             *)
(***************************************************************************)
EXTENDS Integers, FiniteSets

CONSTANTS Contexts,   \* names a check can report under
          Apps,       \* the GitHub Apps that may report
          NoApp,      \* the app of a commit status; as an expectation, any app
          Rules,      \* branch rules to consider: required context -> mapping
          NoMapping,  \* a required context without a mapping
          NoCheck,    \* no matching check was observed
          Deadline,   \* CI_SCHEDULE_DEADLINE_MS
          Interval,   \* ciPollIntervalMs
          MaxChecks,  \* bound on the checks and statuses CI creates
          MaxTime     \* bound on the clock

ASSUME CiWaitAssumption ==
  /\ Deadline \in Nat /\ Interval \in Nat \ {0}
  /\ MaxChecks \in Nat /\ MaxTime \in Nat
  /\ NoApp \notin Apps
  /\ \A rule \in Rules :
       /\ DOMAIN rule \subseteq Contexts
       /\ \A c \in DOMAIN rule :
            rule[c] \in [name : Contexts, app : Apps \cup {NoApp}] \cup {NoMapping}

NoTime == -1    \* completedAt is absent; it sorts before every time
Ids == 1 .. MaxChecks
Conclusions == {"pending", "success", "failure", "skipped"}
Check == [id : Ids, kind : {"run", "status"}, name : Contexts, app : Apps \cup {NoApp},
          candidate : BOOLEAN, conclusion : Conclusions, at : {NoTime} \cup 0 .. MaxTime]
VerdictStates == {"satisfied", "waiting", "failed", "never-scheduled", "unmapped"}
Ended == {"satisfied", "blocked", "unreadable", "thrown"}

VARIABLES rule,      \* the required contexts and how each is mapped
          clock,     \* time since ciWaitStartedMs
          checks,    \* what CI has reported, on the candidate or another commit
          stage,     \* where #waitForCi stands
          attempt,   \* the polling attempt
          fetched,   \* the lists that have arrived for this attempt
          observed,  \* their contents
          verdicts,  \* the latest verdicts
          waited,    \* waitedMs of the latest verdicts
          wake       \* when the pause ends, 0 outside of it

ciWaitVars == <<rule, clock, checks, stage, attempt, fetched, observed, verdicts, waited, wake>>

\* A mutant: one attempt too few.
MaxAttemptsShort == LET n == (Deadline + Interval - 1) \div Interval
                    IN IF n > 1 THEN n ELSE 1

\* max(1, ceil(deadline / interval)) + 1
MaxAttempts == LET n == (Deadline + Interval - 1) \div Interval
               IN (IF n > 1 THEN n ELSE 1) + 1

CiWaitTypeOK ==
  /\ rule \in Rules
  /\ clock \in 0 .. MaxTime
  /\ checks \subseteq Check
  /\ stage \in {"protection", "poll", "fence", "pause"} \cup Ended
  /\ attempt \in 0 .. MaxAttempts
  /\ fetched \subseteq {"run", "status"}
  /\ observed \subseteq Check
  /\ DOMAIN verdicts \subseteq DOMAIN rule
  /\ \A c \in DOMAIN verdicts : verdicts[c] \in VerdictStates
  /\ waited \in 0 .. MaxTime
  /\ wake \in 0 .. MaxTime + Interval

CiWaitInit ==
  /\ rule \in Rules
  /\ clock = 0
  /\ checks = {}
  /\ stage = "protection"
  /\ attempt = 0
  /\ fetched = {}
  /\ observed = {}
  /\ verdicts = [c \in {} |-> "waiting"]
  /\ waited = 0
  /\ wake = 0

-----------------------------------------------------------------------------
(* reconcileChecks *)

\* A mutant: a check is recognised by its name alone.
MatchingByName(c) == {k \in observed : k.name = rule[c].name}

\* The observed checks that count for a mapped context: name, commit and app.
Matching(c) ==
  {k \in observed : /\ k.name = rule[c].name
                    /\ k.candidate
                    /\ rule[c].app \in {NoApp, k.app}}

\* latest: the last one by completion time.  Equal times keep the order of
\* the listing, which is the forge's choice.
Latest(c) ==
  IF rule[c] = NoMapping \/ Matching(c) = {} THEN {NoCheck}
  ELSE {k \in Matching(c) : \A j \in Matching(c) : j.at <= k.at}

\* The verdict on context c when k is its latest check.
Verdict(c, k) ==
  CASE rule[c] = NoMapping                          -> "unmapped"
    [] rule[c] # NoMapping /\ k = NoCheck           ->
         IF clock >= Deadline THEN "never-scheduled" ELSE "waiting"
    [] rule[c] # NoMapping /\ k # NoCheck           ->
         CASE k.conclusion = "pending" -> "waiting"
           [] k.conclusion = "success" -> "satisfied"
           [] OTHER                    -> "failed"

-----------------------------------------------------------------------------
(* #waitForCi *)

ReadProtection ==
  /\ stage = "protection"
  /\ stage' \in {"poll", "unreadable"}
  /\ UNCHANGED <<rule, clock, checks, attempt, fetched, observed, verdicts, waited, wake>>

\* listChecks: one of its two requests is answered.
Fetch(kind) ==
  /\ stage = "poll"
  /\ kind \notin fetched
  /\ fetched' = fetched \cup {kind}
  /\ observed' = observed \cup {k \in checks : k.kind = kind}
  /\ UNCHANGED <<rule, clock, checks, stage, attempt, verdicts, waited, wake>>

\* Both arrived: reconcile, and stop when everything is satisfied, when a
\* context can no longer be satisfied, or at the deadline.
Decide ==
  /\ stage = "poll"
  /\ fetched = {"run", "status"}
  /\ \E pick \in [DOMAIN rule -> observed \cup {NoCheck}] :
       /\ \A c \in DOMAIN rule : pick[c] \in Latest(c)
       /\ verdicts' = [c \in DOMAIN rule |-> Verdict(c, pick[c])]
  /\ LET states == {verdicts'[c] : c \in DOMAIN rule}
     IN stage' = CASE states \subseteq {"satisfied"}               -> "satisfied"
                   [] ~(states \subseteq {"satisfied", "waiting"}) -> "blocked"
                   [] "waiting" \in states /\ states \subseteq {"satisfied", "waiting"} ->
                        IF clock >= Deadline THEN "blocked" ELSE "fence"
  /\ waited' = clock
  /\ UNCHANGED <<rule, clock, checks, attempt, fetched, observed, wake>>

\* assertHeld passes and the pause begins.
Pause ==
  /\ stage = "fence"
  /\ stage' = "pause"
  /\ wake' = clock + Interval
  /\ fetched' = {}
  /\ observed' = {}
  /\ UNCHANGED <<rule, clock, checks, attempt, verdicts, waited>>

Resume ==
  /\ stage = "pause"
  /\ clock >= wake
  /\ attempt' = attempt + 1
  /\ stage' = IF attempt + 1 < MaxAttempts THEN "poll" ELSE "blocked"
  /\ wake' = 0
  /\ UNCHANGED <<rule, clock, checks, fetched, observed, verdicts, waited>>

\* The budget is exhausted, the forge does not answer or the lease is lost.
Throw ==
  /\ stage \in {"protection", "poll", "fence"}
  /\ stage' = "thrown"
  /\ UNCHANGED <<rule, clock, checks, attempt, fetched, observed, verdicts, waited, wake>>

-----------------------------------------------------------------------------
(* CI *)

Tick ==
  /\ clock < MaxTime
  /\ clock' = clock + 1
  /\ UNCHANGED <<rule, checks, stage, attempt, fetched, observed, verdicts, waited, wake>>

NextId == Cardinality(checks) + 1

\* A workflow is scheduled or re-run: a new check-run under the same name.
Schedule ==
  /\ NextId \in Ids
  /\ \E name \in Contexts, app \in Apps, candidate \in BOOLEAN :
       checks' = checks \cup {[id |-> NextId, kind |-> "run", name |-> name, app |-> app,
                               candidate |-> candidate, conclusion |-> "pending",
                               at |-> NoTime]}
  /\ UNCHANGED <<rule, clock, stage, attempt, fetched, observed, verdicts, waited, wake>>

Complete ==
  /\ \E k \in checks, conclusion \in Conclusions \ {"pending"} :
       /\ k.kind = "run"
       /\ k.conclusion = "pending"
       /\ checks' = (checks \ {k}) \cup
                      {[k EXCEPT !.conclusion = conclusion, !.at = clock]}
  /\ UNCHANGED <<rule, clock, stage, attempt, fetched, observed, verdicts, waited, wake>>

\* A commit status is set on the candidate (the list asked for is its own).
SetStatus ==
  /\ NextId \in Ids
  /\ \E name \in Contexts, conclusion \in Conclusions \ {"skipped"} :
       checks' = checks \cup {[id |-> NextId, kind |-> "status", name |-> name,
                               app |-> NoApp, candidate |-> TRUE,
                               conclusion |-> conclusion, at |-> clock]}
  /\ UNCHANGED <<rule, clock, stage, attempt, fetched, observed, verdicts, waited, wake>>

-----------------------------------------------------------------------------

Wait ==
  \/ ReadProtection
  \/ \E kind \in {"run", "status"} : Fetch(kind)
  \/ Decide \/ Pause \/ Resume \/ Throw

Ci == stage \notin Ended /\ (Tick \/ Schedule \/ Complete \/ SetStatus)

CiWaitNext == Wait \/ Ci

CiWaitSpec == CiWaitInit /\ [][CiWaitNext]_ciWaitVars

-----------------------------------------------------------------------------
(* Properties *)

\* The checks on the candidate that the rule accepts for context c.
Accepted(c) ==
  {k \in checks : /\ rule[c] # NoMapping
                  /\ k.name = rule[c].name
                  /\ k.candidate
                  /\ rule[c].app \in {NoApp, k.app}}

\* CI counts as passed only if every required context has a success of its
\* own on the candidate commit, from the expected app, that no observed
\* failure came after: not a success of another commit, another app, another
\* context, or one overtaken by a failing re-run (reconcileChecks).
SatisfiedIsProven ==
  stage = "satisfied" =>
    \A c \in DOMAIN rule :
      \E k \in Accepted(c) :
        /\ k.conclusion = "success"
        /\ \A j \in Accepted(c) \cap observed :
             j.conclusion \in {"failure", "skipped"} => j.at <= k.at

\* The wait never gives up early: unless a context failed or is not mapped, CI
\* was looked at once more when the whole deadline had passed, however the
\* interval divides it (maxAttempts, the second bound of the loop, must not
\* end it between the last pause and that look).
NoEarlyGiveUp ==
  stage = "blocked" =>
    \/ \E c \in DOMAIN rule : verdicts[c] \in {"failed", "unmapped"}
    \/ waited >= Deadline
=============================================================================
