------------------------------- MODULE Daemon -------------------------------
(***************************************************************************)
(* Daemon, CircuitBreakers (src/src/orchestrator/daemon.ts), the breaker   *)
(* snapshot and the daily ledger of the store (src/src/state/store.ts) and *)
(* the registration of a daemon (src/src/daemon/control.ts), as the        *)
(* `runmill daemon` command (src/src/cli/main.ts) puts them together:      *)
(* daemon processes of one project that start, loop, crash and restart     *)
(* over one database.                                                      *)
(*                                                                         *)
(* A trip carries the time it was opened; here it carries its opener, two  *)
(* daemons not opening one in the same millisecond.                        *)
(***************************************************************************)
EXTENDS Integers, FiniteSets

CONSTANTS Daemons,        \* the processes
          NoDaemon,       \* an empty registry, no opener
          MaxFailures,    \* maxConsecutiveFailures
          MaxQuarantines,
          MinRuns,        \* minRunsBeforeRateCheck
          RateNum, RateDen, \* maxEscalationRate
          DailyCap,       \* dailyCostUsd
          MaxCost,        \* what a run can cost at most
          MaxSession,     \* --max-runs
          MaxCompleted,   \* bound on the runs recorded
          MaxDay          \* bound on the days

ASSUME DaemonAssumption ==
  /\ IsFiniteSet(Daemons)
  /\ NoDaemon \notin Daemons
  /\ {MaxFailures, MaxQuarantines, MinRuns, RateNum, RateDen, DailyCap, MaxSession}
       \subseteq Nat \ {0}
  /\ {MaxCost, MaxCompleted, MaxDay} \subseteq Nat

Costs == 0 .. MaxCost
Outcomes == {"ok", "escalated", "quarantined"}
TripNames == {"quarantine", "consecutive-failures", "escalation-rate"}
NoTrip == [name |-> "none", opener |-> NoDaemon]
Trips == [name : TripNames, opener : Daemons] \cup {NoTrip}
Snapshot == [failures : Nat, quarantines : Nat, escalations : Nat, completed : Nat,
             tripped : Trips]
Fresh == [failures |-> 0, quarantines |-> 0, escalations |-> 0, completed |-> 0,
          tripped |-> NoTrip]

VARIABLES pc,        \* pc[d]: where the process stands, "off" if it does not run
          once,      \* once[d]: it was started with --once
          mem,       \* mem[d]: the counters and trip in its memory
          ran,       \* ran[d]: outcomes.length
          cost,      \* cost[d]: what the run just recorded cost
          stop,      \* stop[d]: #stopRequested
          registry,  \* the process named by daemon.json
          durable,   \* the circuit_breakers rows
          ledger,    \* ledger[day]: cost_usd in budget_ledger
          day,       \* the day bucket
          late       \* late[d]: runs d started after a breaker was durably open

vars == <<pc, once, mem, ran, cost, stop, registry, durable, ledger, day, late>>
store == <<durable, ledger>>

TypeOK ==
  /\ pc \in [Daemons -> {"off", "loaded", "checked", "top", "select", "running",
                         "recorded", "idle"}]
  /\ once \in [Daemons -> BOOLEAN]
  /\ mem \in [Daemons -> Snapshot]
  /\ ran \in [Daemons -> 0 .. MaxSession]
  /\ cost \in [Daemons -> Costs]
  /\ stop \in [Daemons -> BOOLEAN]
  /\ registry \in Daemons \cup {NoDaemon}
  /\ durable \in Snapshot
  /\ ledger \in [0 .. MaxDay -> Nat]
  /\ day \in 0 .. MaxDay
  /\ late \in [Daemons -> Nat]

Init ==
  /\ pc = [d \in Daemons |-> "off"]
  /\ once = [d \in Daemons |-> FALSE]
  /\ mem = [d \in Daemons |-> Fresh]
  /\ ran = [d \in Daemons |-> 0]
  /\ cost = [d \in Daemons |-> 0]
  /\ stop = [d \in Daemons |-> FALSE]
  /\ registry = NoDaemon
  /\ durable = Fresh
  /\ ledger = [x \in 0 .. MaxDay |-> 0]
  /\ day = 0
  /\ late = [d \in Daemons |-> 0]

-----------------------------------------------------------------------------
(* Starting and ending a process *)

\* A mutant: the counters are those of the process.
LoadedFresh == Fresh

\* getCircuitBreakerState, in the constructor of CircuitBreakers.
Loaded == durable

\* The breakers are loaded before the daemon is registered.
Load(d) ==
  /\ pc[d] = "off"
  /\ pc' = [pc EXCEPT ![d] = "loaded"]
  /\ once' \in {[once EXCEPT ![d] = b] : b \in BOOLEAN}
  /\ mem' = [mem EXCEPT ![d] = Loaded]
  /\ UNCHANGED <<ran, cost, stop, registry, store, day, late>>

\* What is left of a process that is gone: nothing.
Gone(d) ==
  /\ pc' = [pc EXCEPT ![d] = "off"]
  /\ once' = [once EXCEPT ![d] = FALSE]
  /\ mem' = [mem EXCEPT ![d] = Fresh]
  /\ ran' = [ran EXCEPT ![d] = 0]
  /\ cost' = [cost EXCEPT ![d] = 0]
  /\ stop' = [stop EXCEPT ![d] = FALSE]

\* close: the registry is removed if it is this daemon's own.
Exit(d) ==
  /\ Gone(d)
  /\ registry' = IF registry = d THEN NoDaemon ELSE registry

\* DaemonControlServer.start looks for a registered daemon that is alive.
\* (An entry of this process's own slot is that of a previous process.)
OtherRegistered(d) == registry \in Daemons \ {d} /\ pc[registry] # "off"

CheckRegistry(d) ==
  /\ pc[d] = "loaded"
  /\ ~OtherRegistered(d)
  /\ pc' = [pc EXCEPT ![d] = "checked"]
  /\ UNCHANGED <<once, mem, ran, cost, stop, registry, store, day, late>>

\* Another daemon is registered, or the start fails for another reason.
StartFails(d) ==
  /\ pc[d] \in {"loaded", "checked"}
  /\ Gone(d)
  /\ UNCHANGED <<registry, store, day, late>>

\* The old socket and registry are removed and replaced.
Register(d) ==
  /\ pc[d] = "checked"
  /\ pc' = [pc EXCEPT ![d] = "top"]
  /\ registry' = d
  /\ UNCHANGED <<once, mem, ran, cost, stop, store, day, late>>

\* The process dies and leaves the registry as it is.
Crash(d) ==
  /\ pc[d] # "off"
  /\ Gone(d)
  /\ UNCHANGED <<registry, store, day, late>>

\* requestStop, from a signal or the control socket; it wakes an idle loop.
RequestStop(d) ==
  /\ pc[d] \notin {"off", "loaded", "checked"}
  /\ ~stop[d]
  /\ stop' = [stop EXCEPT ![d] = TRUE]
  /\ pc' = [pc EXCEPT ![d] = IF @ = "idle" THEN "top" ELSE @]
  /\ UNCHANGED <<once, mem, ran, cost, registry, store, day, late>>

-----------------------------------------------------------------------------
(* saveCircuitBreakerState *)

SameCounters(new) ==
  /\ new.completed = durable.completed
  /\ new.failures = durable.failures
  /\ new.escalations = durable.escalations
  /\ new.quarantines = durable.quarantines

\* The counters after one more run than the committed ones.
OneMoreRun(new) ==
  LET q == new.quarantines - durable.quarantines
      e == new.escalations - durable.escalations
  IN /\ new.completed = durable.completed + 1
     /\ <<q, e>> \in {<<0, 0>>, <<1, 0>>, <<0, 1>>}
     /\ new.failures = IF q + e = 1 THEN durable.failures + 1 ELSE 0

SaveAccepts(new) ==
  /\ durable.tripped # NoTrip => new.tripped = durable.tripped
  /\ SameCounters(new) \/ OneMoreRun(new)

-----------------------------------------------------------------------------
(* The loop *)

\* A mutant: the cap may be reached.
CapReachedLate == ledger[day] > DailyCap

CapReached == ledger[day] >= DailyCap

RateReached(m) ==
  /\ m.completed >= MinRuns
  /\ m.escalations * RateDen >= RateNum * m.completed

\* evaluate, after #refreshDailyBudget: the breaker it returns.
Breaker(m) ==
  CASE m.tripped # NoTrip -> m.tripped.name
    [] m.tripped = NoTrip ->
         IF m.quarantines >= MaxQuarantines THEN "quarantine"
         ELSE IF m.failures >= MaxFailures THEN "consecutive-failures"
         ELSE IF CapReached THEN "daily-cost"
         ELSE IF RateReached(m) THEN "escalation-rate"
         ELSE "none"

\* A mutant: the request is only seen while idle.
StopSeenOnlyIdle(d) == stop[d] /\ pc[d] = "idle"

StopSeen(d) == stop[d]

StopsBySignal(d) ==
  /\ pc[d] = "top"
  /\ StopSeen(d)
  /\ Exit(d)
  /\ UNCHANGED <<store, day, late>>

\* A breaker opens, or was open: a new one that is not the daily one is saved
\* (if the store accepts it; if not, the loop ends with that error).
StopsByBreaker(d) ==
  LET b == Breaker(mem[d])
      opened == [mem[d] EXCEPT !.tripped = [name |-> b, opener |-> d]]
  IN /\ pc[d] = "top"
     /\ ~StopSeen(d)
     /\ b # "none"
     /\ durable' = IF mem[d].tripped = NoTrip /\ b \in TripNames /\ SaveAccepts(opened)
                   THEN opened ELSE durable
     /\ Exit(d)
     /\ UNCHANGED <<ledger, day, late>>

SessionFull(d) == ran[d] >= MaxSession

StopsAtMaxRuns(d) ==
  /\ pc[d] = "top"
  /\ ~StopSeen(d)
  /\ Breaker(mem[d]) = "none"
  /\ SessionFull(d)
  /\ Exit(d)
  /\ UNCHANGED <<store, day, late>>

CallsRunOnce(d) ==
  /\ pc[d] = "top"
  /\ ~StopSeen(d)
  /\ Breaker(mem[d]) = "none"
  /\ ~SessionFull(d)
  /\ pc' = [pc EXCEPT ![d] = "select"]
  /\ UNCHANGED <<once, mem, ran, cost, stop, registry, store, day, late>>

\* Selection finds an issue and the run starts.
RunBegins(d) ==
  /\ pc[d] = "select"
  /\ mem[d].completed < MaxCompleted
  /\ pc' = [pc EXCEPT ![d] = "running"]
  /\ late' = [late EXCEPT ![d] = IF durable.tripped = NoTrip THEN @ ELSE @ + 1]
  /\ UNCHANGED <<once, mem, ran, cost, stop, registry, store, day>>

\* Nothing is eligible: drain and exit, or wait.
FindsNothing(d) ==
  /\ pc[d] = "select"
  /\ \/ once[d] /\ Exit(d)
     \/ /\ ~once[d]
        /\ pc' = [pc EXCEPT ![d] = IF stop[d] THEN "top" ELSE "idle"]
        /\ UNCHANGED <<once, mem, ran, cost, stop, registry>>
  /\ UNCHANGED <<store, day, late>>

\* Selection, or cleaning up after a run, throws out of the loop.
RunOnceThrows(d) ==
  /\ pc[d] \in {"select", "running"}
  /\ Exit(d)
  /\ UNCHANGED <<store, day, late>>

\* record: the counters after an outcome.
Counted(m, outcome) ==
  [m EXCEPT !.completed = @ + 1,
            !.escalations = IF outcome = "escalated" THEN @ + 1 ELSE @,
            !.quarantines = IF outcome = "quarantined" THEN @ + 1 ELSE @,
            !.failures = IF outcome = "ok" THEN 0 ELSE @ + 1]

\* The run ends and is counted; a store that rejects the count ends the loop.
RunEnds(d) ==
  /\ pc[d] = "running"
  /\ \E outcome \in Outcomes, c \in Costs :
       LET new == Counted(mem[d], outcome)
       IN \/ /\ SaveAccepts(new)
             /\ durable' = new
             /\ mem' = [mem EXCEPT ![d] = new]
             /\ ran' = [ran EXCEPT ![d] = @ + 1]
             /\ cost' = [cost EXCEPT ![d] = c]
             /\ pc' = [pc EXCEPT ![d] = "recorded"]
             /\ UNCHANGED <<once, stop, registry>>
          \/ /\ ~SaveAccepts(new)
             /\ Exit(d)
             /\ UNCHANGED durable
  /\ UNCHANGED <<ledger, day, late>>

\* recordBudgetUsage, in a transaction of its own, in the bucket of now.
RecordsCost(d) ==
  /\ pc[d] = "recorded"
  /\ ledger' = [ledger EXCEPT ![day] = @ + cost[d]]
  /\ cost' = [cost EXCEPT ![d] = 0]
  /\ pc' = [pc EXCEPT ![d] = "top"]
  /\ UNCHANGED <<once, mem, ran, stop, registry, durable, day, late>>

\* The poll interval is over.
WakesUp(d) ==
  /\ pc[d] = "idle"
  /\ pc' = [pc EXCEPT ![d] = "top"]
  /\ UNCHANGED <<once, mem, ran, cost, stop, registry, store, day, late>>

-----------------------------------------------------------------------------

NextDay ==
  /\ day < MaxDay
  /\ day' = day + 1
  /\ UNCHANGED <<pc, once, mem, ran, cost, stop, registry, store, late>>

LoopStep(d) ==
  \/ CheckRegistry(d) \/ StartFails(d) \/ Register(d)
  \/ StopsBySignal(d) \/ StopsByBreaker(d) \/ StopsAtMaxRuns(d) \/ CallsRunOnce(d)
  \/ RunBegins(d) \/ FindsNothing(d) \/ RunOnceThrows(d) \/ RunEnds(d) \/ RecordsCost(d)
  \/ WakesUp(d)

Next ==
  \/ NextDay
  \/ \E d \in Daemons : Load(d) \/ LoopStep(d) \/ Crash(d) \/ RequestStop(d)

Spec == Init /\ [][Next]_vars

\* A process that can take a step takes it: timers fire and runs end.
FairSpec == Spec /\ \A d \in Daemons : WF_vars(LoopStep(d))

-----------------------------------------------------------------------------
(* Properties *)

\* A breaker that is durably open stays open, with its opener: no daemon,
\* stale or restarted, closes it or puts its own in its place
\* (saveCircuitBreakerState).
TripIsPermanent ==
  [][durable.tripped # NoTrip => durable'.tripped = durable.tripped]_vars

\* The durable counters never roll back, whichever stale snapshot a daemon
\* saves; the count of completed runs moves one at a time.
CountersNeverRollBack ==
  [][/\ durable'.completed \in {durable.completed, durable.completed + 1}
     /\ durable'.quarantines >= durable.quarantines
     /\ durable'.escalations >= durable.escalations]_vars

\* Once a breaker is durably open, a process gets to start at most one more
\* run, on counters it loaded before: saving that run ends it, and a restart
\* finds the breaker open.
AtMostOneLateRun == \A d \in Daemons : late[d] <= 1

\* The daily cap is overshot by no more than the runs that were under way
\* when it was reached, across restarts and days (#refreshDailyBudget reads
\* the ledger before every run).
CapOvershootBounded ==
  \A x \in 0 .. MaxDay :
    ledger[x] < DailyCap + Cardinality(Daemons) * MaxCost

\* A daemon that is asked to stop does.
StopIsHonoured == \A d \in Daemons : stop[d] ~> pc[d] = "off"
=============================================================================
