----------------------------- MODULE LoopProofs -----------------------------
(***************************************************************************)
(* The loops that run by themselves, for any limits.                       *)
(*                                                                         *)
(* The daemon (Daemon), for any number of processes: what its durable      *)
(* breakers guarantee.  The wait for CI (CiWait), for any contexts, apps,  *)
(* branch rules, deadline and interval: when it counts CI as passed and    *)
(* when it gives up.  The worker service (AsfService), for any processes   *)
(* and runs: what is marked as scheduled is queued or running, and a queue *)
(* that is not empty will be looked at again.                              *)
(***************************************************************************)
EXTENDS Daemon, CiWait, AsfService, FiniteSetTheorems, SequenceTheorems,
        WellFoundedInduction, TLAPS

-----------------------------------------------------------------------------
(* The daemon                                                              *)

USE DaemonAssumption

\* A process that got past the breakers has no trip in its memory; one that
\* has started a late run is in that run, gone, or knows of the trip.
Knowledge ==
  \A d \in Daemons :
    /\ pc[d] \in {"select", "running", "recorded", "idle"} => mem[d].tripped = NoTrip
    /\ pc[d] \in {"select", "running"} => ran[d] < MaxSession
    /\ late[d] > 0 => durable.tripped # NoTrip
    /\ late[d] > 0 => pc[d] \in {"off", "running"} \/ mem[d].tripped # NoTrip

Inv == TypeOK /\ Knowledge /\ AtMostOneLateRun

\* The invariant holds initially.
LEMMA InitInv == Init => Inv
PROOF
<1>1. Fresh \in Snapshot
  BY DEF Fresh, Snapshot, Trips, NoTrip
<1>2. ASSUME Init PROVE TypeOK
  BY <1>1, <1>2 DEF Init, TypeOK, Costs
<1>3. ASSUME Init PROVE Knowledge /\ AtMostOneLateRun
  BY <1>3 DEF Init, Knowledge, AtMostOneLateRun, Fresh
<1> QED
  BY <1>2, <1>3 DEF Inv

\* Leaving is always safe: a process that is gone keeps nothing.
LEMMA GoneKeepsInv ==
  ASSUME Inv, NEW d \in Daemons, Gone(d),
         registry' \in Daemons \cup {NoDaemon},
         durable' \in Snapshot,
         durable.tripped # NoTrip => durable'.tripped # NoTrip,
         UNCHANGED <<ledger, day, late>>
  PROVE  Inv'
PROOF
<1> USE DEF Inv, Gone
<1>1. Fresh \in Snapshot /\ 0 \in Costs /\ 0 \in 0 .. MaxSession
  BY DEF Fresh, Snapshot, Trips, NoTrip, Costs
<1>2. TypeOK'
  BY <1>1 DEF TypeOK
<1>3. Knowledge' /\ AtMostOneLateRun'
  BY DEF TypeOK, Knowledge, AtMostOneLateRun
<1> QED
  BY <1>2, <1>3

\* What a save writes: the trip is kept and the counters do not roll back.
LEMMA SaveIsSafe ==
  ASSUME durable \in Snapshot, NEW new \in Snapshot, SaveAccepts(new)
  PROVE  /\ durable.tripped # NoTrip => new.tripped = durable.tripped
         /\ new.completed \in {durable.completed, durable.completed + 1}
         /\ new.quarantines >= durable.quarantines
         /\ new.escalations >= durable.escalations
PROOF
<1>1. CASE SameCounters(new)
  BY <1>1 DEF SaveAccepts, SameCounters, Snapshot
<1>2. CASE OneMoreRun(new)
  <2> DEFINE q == new.quarantines - durable.quarantines
             e == new.escalations - durable.escalations
  <2>1. q \in Int /\ e \in Int
    BY DEF Snapshot
  <2>2. /\ new.completed = durable.completed + 1
        /\ <<q, e>> \in {<<0, 0>>, <<1, 0>>, <<0, 1>>}
    BY <1>2 DEF OneMoreRun
  <2>3. q >= 0 /\ e >= 0
    BY <2>1, <2>2
  <2> QED
    BY <2>2, <2>3 DEF SaveAccepts, Snapshot
<1> QED
  BY <1>1, <1>2 DEF SaveAccepts

\* Counting a run gives a snapshot with the same trip.
LEMMA CountedType ==
  ASSUME NEW m \in Snapshot, NEW outcome \in Outcomes
  PROVE  Counted(m, outcome) \in Snapshot /\ Counted(m, outcome).tripped = m.tripped
PROOF
<1>1. /\ m.failures + 1 \in Nat /\ m.quarantines + 1 \in Nat
      /\ m.escalations + 1 \in Nat /\ m.completed + 1 \in Nat
      /\ m.failures \in Nat /\ m.quarantines \in Nat /\ m.escalations \in Nat
  BY DEF Snapshot
<1>2. CASE outcome = "ok"
  BY <1>1, <1>2 DEF Counted, Snapshot
<1>3. CASE outcome = "escalated"
  BY <1>1, <1>3 DEF Counted, Snapshot
<1>4. CASE outcome = "quarantined"
  BY <1>1, <1>4 DEF Counted, Snapshot
<1> QED
  BY <1>2, <1>3, <1>4 DEF Outcomes

\* Opening a breaker gives a snapshot that differs in the trip only.
LEMMA OpenedType ==
  ASSUME NEW m \in Snapshot, NEW b \in TripNames, NEW d \in Daemons
  PROVE  /\ [m EXCEPT !.tripped = [name |-> b, opener |-> d]] \in Snapshot
         /\ [m EXCEPT !.tripped = [name |-> b, opener |-> d]].tripped # NoTrip
PROOF
<1>1. [name |-> b, opener |-> d] \in Trips
  BY DEF Trips
<1>2. [name |-> b, opener |-> d] # NoTrip
  BY DEF NoTrip, TripNames
<1> QED
  BY <1>1, <1>2 DEF Snapshot

-----------------------------------------------------------------------------

\* Every step of a process keeps the invariant.
LEMMA ProcessKeepsInv ==
  ASSUME Inv, NEW d \in Daemons, Load(d) \/ LoopStep(d) \/ Crash(d) \/ RequestStop(d)
  PROVE  Inv'
PROOF
<1> USE DEF Inv
<1>0. MaxSession \in Nat
  OBVIOUS
<1>1. CASE Load(d)
  BY <1>1 DEF Load, Loaded, TypeOK, Knowledge, AtMostOneLateRun, store
<1>2. CASE CheckRegistry(d)
  BY <1>2 DEF CheckRegistry, TypeOK, Knowledge, AtMostOneLateRun, store
<1>3. CASE StartFails(d)
  BY <1>3, GoneKeepsInv DEF StartFails, TypeOK, store
<1>4. CASE Register(d)
  BY <1>4 DEF Register, TypeOK, Knowledge, AtMostOneLateRun, store
<1>5. CASE StopsBySignal(d)
  BY <1>5, GoneKeepsInv DEF StopsBySignal, Exit, TypeOK, store
<1>6. CASE StopsByBreaker(d)
  <2> DEFINE b == Breaker(mem[d])
             opened == [mem[d] EXCEPT !.tripped = [name |-> b, opener |-> d]]
  <2>1. durable' = IF mem[d].tripped = NoTrip /\ b \in TripNames /\ SaveAccepts(opened)
                   THEN opened ELSE durable
    BY <1>6 DEF StopsByBreaker
  <2>2. b \in TripNames => opened \in Snapshot /\ opened.tripped # NoTrip
    BY OpenedType DEF TypeOK
  <2> HIDE DEF b, opened
  <2>3. durable' \in Snapshot /\ (durable.tripped # NoTrip => durable'.tripped # NoTrip)
    BY <2>1, <2>2 DEF TypeOK
  <2>4. Gone(d) /\ registry' \in Daemons \cup {NoDaemon} /\ UNCHANGED <<ledger, day, late>>
    BY <1>6 DEF StopsByBreaker, Exit, TypeOK
  <2> QED
    BY <2>3, <2>4, GoneKeepsInv
<1>7. CASE StopsAtMaxRuns(d)
  BY <1>7, GoneKeepsInv DEF StopsAtMaxRuns, Exit, TypeOK, store
<1>8. CASE CallsRunOnce(d)
  <2>1. mem[d].tripped = NoTrip
    <3>1. Breaker(mem[d]) = "none"
      BY <1>8 DEF CallsRunOnce
    <3>2. mem[d].tripped \in Trips
      BY DEF TypeOK, Snapshot
    <3> QED
      BY <3>1, <3>2 DEF Breaker, Trips, TripNames
  <2>2. ran[d] < MaxSession
    BY <1>0, <1>8 DEF CallsRunOnce, SessionFull, TypeOK
  <2>3. TypeOK'
    BY <1>8 DEF CallsRunOnce, TypeOK, store
  <2>4. Knowledge' /\ AtMostOneLateRun'
    BY <1>8, <2>1, <2>2 DEF CallsRunOnce, TypeOK, Knowledge, AtMostOneLateRun, store
  <2> QED
    BY <2>3, <2>4
<1>9. CASE RunBegins(d)
  <2>0. pc[d] = "select" /\ late[d] \in Nat
    BY <1>9 DEF RunBegins, TypeOK
  <2>1. mem[d].tripped = NoTrip /\ ran[d] < MaxSession /\ late[d] = 0
    BY <2>0 DEF Knowledge
  <2>2. late' = [late EXCEPT ![d] = IF durable.tripped = NoTrip THEN 0 ELSE 1]
    BY <1>9, <2>1 DEF RunBegins, TypeOK
  <2>3. TypeOK'
    <3>1. late' \in [Daemons -> Nat]
      BY <2>2 DEF TypeOK
    <3>2. pc' = [pc EXCEPT ![d] = "running"]
      BY <1>9 DEF RunBegins
    <3>3. UNCHANGED <<once, mem, ran, cost, stop, registry, durable, ledger, day>>
      BY <1>9 DEF RunBegins, store
    <3> QED
      BY <3>1, <3>2, <3>3 DEF TypeOK
  <2>4. /\ pc' = [pc EXCEPT ![d] = "running"]
        /\ UNCHANGED <<mem, ran, durable>>
    BY <1>9 DEF RunBegins, store
  <2>5. Knowledge'
    <3> SUFFICES ASSUME NEW e \in Daemons
                 PROVE  /\ pc'[e] \in {"select", "running", "recorded", "idle"} =>
                             mem[e].tripped = NoTrip
                        /\ pc'[e] \in {"select", "running"} => ran[e] < MaxSession
                        /\ late'[e] > 0 => durable.tripped # NoTrip
                        /\ late'[e] > 0 => pc'[e] \in {"off", "running"}
                                             \/ mem[e].tripped # NoTrip
      BY <2>4 DEF Knowledge
    <3>1. CASE e = d
      BY <2>1, <2>2, <2>4, <3>1 DEF TypeOK
    <3>2. CASE e # d
      BY <2>2, <2>4, <3>2 DEF TypeOK, Knowledge
    <3> QED
      BY <3>1, <3>2
  <2>6. AtMostOneLateRun'
    BY <2>2 DEF TypeOK, AtMostOneLateRun
  <2> QED
    BY <2>3, <2>5, <2>6
<1>10. CASE FindsNothing(d)
  <2>1. CASE Exit(d)
    BY <1>10, <2>1, GoneKeepsInv DEF FindsNothing, Exit, TypeOK, store
  <2>2. CASE ~Exit(d)
    <3>1. /\ pc[d] = "select"
          /\ pc' = [pc EXCEPT ![d] = IF stop[d] THEN "top" ELSE "idle"]
          /\ UNCHANGED <<once, mem, ran, cost, stop, registry, durable, ledger, day, late>>
      BY <1>10, <2>2 DEF FindsNothing, store
    <3> QED
      BY <3>1 DEF TypeOK, Knowledge, AtMostOneLateRun
  <2> QED
    BY <2>1, <2>2
<1>11. CASE RunOnceThrows(d)
  BY <1>11, GoneKeepsInv DEF RunOnceThrows, Exit, TypeOK, store
<1>12. CASE RunEnds(d)
  <2>1. PICK outcome \in Outcomes, c \in Costs :
          LET new == Counted(mem[d], outcome)
          IN \/ /\ SaveAccepts(new)
                /\ durable' = new
                /\ mem' = [mem EXCEPT ![d] = new]
                /\ ran' = [ran EXCEPT ![d] = @ + 1]
                /\ cost' = [cost EXCEPT ![d] = c]
                /\ pc' = [pc EXCEPT ![d] = "recorded"]
                /\ UNCHANGED <<once, stop, registry>>
             \/ /\ ~SaveAccepts(new)
                /\ Exit(d)
                /\ UNCHANGED durable
    BY <1>12 DEF RunEnds
  <2>2. pc[d] = "running" /\ UNCHANGED <<ledger, day, late>>
    BY <1>12 DEF RunEnds
  <2> DEFINE new == Counted(mem[d], outcome)
  <2>3. new \in Snapshot /\ new.tripped = mem[d].tripped
    BY CountedType DEF TypeOK
  <2>4. mem[d].tripped = NoTrip /\ ran[d] < MaxSession
    BY <2>2 DEF Knowledge
  <2> HIDE DEF new
  <2>5. CASE Exit(d) /\ UNCHANGED durable
    BY <2>2, <2>5, GoneKeepsInv DEF Exit, TypeOK
  <2>6. CASE ~(Exit(d) /\ UNCHANGED durable)
    <3>1. /\ SaveAccepts(new)
          /\ durable' = new
          /\ mem' = [mem EXCEPT ![d] = new]
          /\ ran' = [ran EXCEPT ![d] = @ + 1]
          /\ cost' = [cost EXCEPT ![d] = c]
          /\ pc' = [pc EXCEPT ![d] = "recorded"]
          /\ UNCHANGED <<once, stop, registry>>
      BY <2>1, <2>6 DEF new
    <3>2. durable.tripped = NoTrip
      BY <2>3, <2>4, <3>1 DEF SaveAccepts
    <3>3. \A e \in Daemons : late[e] = 0
      BY <3>2 DEF Knowledge, TypeOK
    <3>4. TypeOK'
      <4>0. ran[d] + 1 \in 0 .. MaxSession
        <5>1. ran[d] \in 0 .. MaxSession
          BY <1>0, Zenon DEF TypeOK
        <5> QED
          BY <1>0, <2>4, <5>1
      <4>1. ran' \in [Daemons -> 0 .. MaxSession]
        BY <3>1, <4>0, Zenon DEF TypeOK
      <4>2. mem' \in [Daemons -> Snapshot] /\ durable' \in Snapshot
        BY <2>3, <3>1 DEF TypeOK
      <4>3. /\ pc' \in [Daemons -> {"off", "loaded", "checked", "top", "select", "running",
                                    "recorded", "idle"}]
            /\ cost' \in [Daemons -> Costs]
        BY <3>1 DEF TypeOK
      <4>4. UNCHANGED <<once, stop, registry, ledger, day, late>>
        BY <2>2, <3>1
      <4> QED
        BY <4>1, <4>2, <4>3, <4>4 DEF TypeOK
    <3>5. Knowledge' /\ AtMostOneLateRun'
      BY <2>2, <2>3, <2>4, <3>1, <3>3 DEF TypeOK, Knowledge, AtMostOneLateRun
    <3> QED
      BY <3>4, <3>5
  <2> QED
    BY <2>5, <2>6
<1>13. CASE RecordsCost(d)
  <2>1. ledger[day] + cost[d] \in Nat /\ 0 \in Costs
    <3>1. /\ ledger \in [0 .. MaxDay -> Nat] /\ day \in 0 .. MaxDay
          /\ cost \in [Daemons -> Costs] /\ Costs \subseteq Nat
      BY DEF TypeOK, Costs
    <3>2. ledger[day] \in Nat /\ cost[d] \in Nat
      BY <3>1
    <3> QED
      BY <3>2 DEF Costs
  <2> QED
    BY <1>13, <2>1 DEF RecordsCost, TypeOK, Knowledge, AtMostOneLateRun
<1>14. CASE WakesUp(d)
  BY <1>14 DEF WakesUp, TypeOK, Knowledge, AtMostOneLateRun, store
<1>15. CASE Crash(d)
  BY <1>15, GoneKeepsInv DEF Crash, TypeOK, store
<1>16. CASE RequestStop(d)
  BY <1>16 DEF RequestStop, TypeOK, Knowledge, AtMostOneLateRun, store
<1> QED
  BY <1>1, <1>2, <1>3, <1>4, <1>5, <1>6, <1>7, <1>8, <1>9, <1>10, <1>11, <1>12, <1>13,
     <1>14, <1>15, <1>16 DEF LoopStep

\* The invariant is inductive.
LEMMA NextKeepsInv == Inv /\ [Next]_vars => Inv'
PROOF
<1> SUFFICES ASSUME Inv, [Next]_vars PROVE Inv'
  OBVIOUS
<1>1. CASE NextDay
  BY <1>1 DEF NextDay, Inv, TypeOK, Knowledge, AtMostOneLateRun, store
<1>2. CASE \E d \in Daemons : Load(d) \/ LoopStep(d) \/ Crash(d) \/ RequestStop(d)
  BY <1>2, ProcessKeepsInv
<1>3. CASE UNCHANGED vars
  BY <1>3 DEF vars, Inv, TypeOK, Knowledge, AtMostOneLateRun
<1> QED
  BY <1>1, <1>2, <1>3 DEF Next

\* The invariant holds in every behaviour.
THEOREM DaemonInvariant == Spec => []Inv
PROOF
  BY InitInv, NextKeepsInv, PTL DEF Spec

\* The daemons and their store keep their types; a session never exceeds
\* --max-runs.
THEOREM Typing == Spec => []TypeOK
PROOF
  BY DaemonInvariant, PTL DEF Inv

\* After a breaker is durably open, every process starts at most one more run,
\* however many processes there are and however often they restart.
THEOREM LateRunsAreBounded == Spec => []AtMostOneLateRun
PROOF
  BY DaemonInvariant, PTL DEF Inv

-----------------------------------------------------------------------------

\* How a step changes the durable snapshot: not at all, or by a save that the
\* store accepted.
LEMMA DurableMoves ==
  ASSUME Inv, [Next]_vars
  PROVE  durable' = durable \/ (durable' \in Snapshot /\ SaveAccepts(durable'))
PROOF
<1> SUFFICES ASSUME durable' # durable
             PROVE  durable' \in Snapshot /\ SaveAccepts(durable')
  OBVIOUS
<1>1. PICK d \in Daemons : StopsByBreaker(d) \/ RunEnds(d)
  BY DEF Next, vars, NextDay, Load, LoopStep, Crash, RequestStop, CheckRegistry, StartFails,
         Register, StopsBySignal, StopsAtMaxRuns, CallsRunOnce, RunBegins, FindsNothing,
         RunOnceThrows, RecordsCost, WakesUp, store
<1>2. mem[d] \in Snapshot
  BY DEF Inv, TypeOK
<1>3. CASE StopsByBreaker(d)
  <2> DEFINE b == Breaker(mem[d])
             opened == [mem[d] EXCEPT !.tripped = [name |-> b, opener |-> d]]
  <2>1. b \in TripNames /\ durable' = opened /\ SaveAccepts(opened)
    BY <1>3 DEF StopsByBreaker
  <2>2. opened \in Snapshot
    BY <1>2, <2>1, OpenedType
  <2> QED
    BY <2>1, <2>2
<1>4. CASE RunEnds(d)
  <2>1. PICK outcome \in Outcomes :
          durable' = Counted(mem[d], outcome) /\ SaveAccepts(Counted(mem[d], outcome))
    BY <1>4 DEF RunEnds
  <2>2. Counted(mem[d], outcome) \in Snapshot
    BY <1>2, CountedType
  <2> QED
    BY <2>1, <2>2
<1> QED
  BY <1>1, <1>3, <1>4

\* No process, stale or restarted, closes or replaces an open breaker.
THEOREM TripsArePermanent == Spec => TripIsPermanent
PROOF
<1>1. ASSUME Inv, [Next]_vars
      PROVE  durable.tripped # NoTrip => durable'.tripped = durable.tripped
  BY <1>1, DurableMoves DEF SaveAccepts
<1> QED
  BY <1>1, DaemonInvariant, PTL DEF Spec, TripIsPermanent

\* No process, stale or restarted, rolls the durable counters back.
THEOREM CountersAreMonotonic == Spec => CountersNeverRollBack
PROOF
<1>1. ASSUME Inv, [Next]_vars
      PROVE  /\ durable'.completed \in {durable.completed, durable.completed + 1}
             /\ durable'.quarantines >= durable.quarantines
             /\ durable'.escalations >= durable.escalations
  <2>1. durable \in Snapshot
    BY <1>1 DEF Inv, TypeOK
  <2>2. CASE durable' = durable
    BY <2>1, <2>2 DEF Snapshot
  <2>3. CASE durable' \in Snapshot /\ SaveAccepts(durable')
    BY <2>1, <2>3, SaveIsSafe
  <2> QED
    BY <1>1, <2>2, <2>3, DurableMoves
<1> QED
  BY <1>1, DaemonInvariant, PTL DEF Spec, CountersNeverRollBack
-----------------------------------------------------------------------------
(* The daily cap. *)

\* The processes that have passed the budget check and not yet recorded what
\* their run costs.
Flying == {d \in Daemons : pc[d] \in {"select", "running", "recorded"}}

\* CapOvershootBounded is not inductive: a run under way may still add its
\* cost.  What is spent and what is under way stay within the bound together,
\* and nothing is spent on a day to come.
CapInv ==
  /\ CapOvershootBounded
  /\ ledger[day] + Cardinality(Flying) * MaxCost < DailyCap + Cardinality(Daemons) * MaxCost
  /\ \A x \in 0 .. MaxDay : x > day => ledger[x] = 0

\* The arithmetic: the more runs the more they cost, each MaxCost.
LEMMA RunsCost ==
  ASSUME NEW a \in Nat, NEW b \in Nat, NEW m \in Nat
  PROVE  /\ a * m \in Nat /\ b * m \in Nat
         /\ a <= b => a * m <= b * m
         /\ a > 0 => (a - 1) * m = a * m - m
PROOF
<1>1. a * m \in Nat /\ b * m \in Nat
  OBVIOUS
<1>2. ASSUME a <= b PROVE a * m <= b * m
  <2>1. PICK c \in Nat : b = a + c
    <3>1. b - a \in Nat /\ b = a + (b - a)
      BY <1>2
    <3> QED BY <3>1
  <2>2. b * m = a * m + c * m /\ c * m \in Nat
    BY <2>1
  <2> QED
    BY <1>1, <2>2
<1>3. (a - 1) * m = a * m - m
  OBVIOUS
<1> QED
  BY <1>1, <1>2, <1>3

\* Sets of processes are finite and no larger than all of them.
LEMMA SomeDaemons ==
  ASSUME NEW F \in SUBSET Daemons
  PROVE  /\ IsFiniteSet(F) /\ Cardinality(F) \in Nat
         /\ Cardinality(Daemons) \in Nat /\ Cardinality(F) <= Cardinality(Daemons)
PROOF
  BY FS_Subset, FS_CardinalityType

\* No run more is under way, and nothing is spent.
LEMMA CapStays ==
  ASSUME TypeOK, CapInv, UNCHANGED <<ledger, day>>, Flying' \subseteq Flying
  PROVE  CapInv'
PROOF
<1>1. PICK F \in SUBSET Daemons : F = Flying
  BY DEF Flying
<1>2. PICK G \in SUBSET Daemons : G = Flying' /\ G \subseteq F
  BY <1>1 DEF Flying
<1>3. /\ IsFiniteSet(F) /\ Cardinality(F) \in Nat /\ Cardinality(G) \in Nat
      /\ Cardinality(Daemons) \in Nat
  BY SomeDaemons
<1>4. Cardinality(G) <= Cardinality(F)
  BY <1>2, <1>3, FS_Subset
<1>5. /\ Cardinality(G) * MaxCost <= Cardinality(F) * MaxCost
      /\ Cardinality(G) * MaxCost \in Nat /\ Cardinality(F) * MaxCost \in Nat
      /\ Cardinality(Daemons) * MaxCost \in Nat
  BY <1>3, <1>4, RunsCost
<1>6. ledger[day] \in Nat /\ DailyCap \in Nat
  BY DEF TypeOK
<1>7. (ledger[day] + Cardinality(Flying) * MaxCost < DailyCap + Cardinality(Daemons) * MaxCost)'
  BY <1>1, <1>2, <1>5, <1>6 DEF CapInv
<1> QED
  BY <1>7 DEF CapInv, CapOvershootBounded

\* A run is started below the cap, whatever else is under way.
LEMMA CapChecked ==
  ASSUME Inv, CapInv, NEW d \in Daemons, CallsRunOnce(d)
  PROVE  CapInv'
PROOF
<1>1. ledger[day] \in Nat /\ DailyCap \in Nat /\ UNCHANGED <<ledger, day>>
  BY DEF Inv, TypeOK, CallsRunOnce, store
<1>2. ledger[day] < DailyCap
  <2>1. mem[d].tripped \in Trips
    BY DEF Inv, TypeOK, Snapshot
  <2>2. mem[d].tripped = NoTrip
    BY <2>1 DEF CallsRunOnce, Breaker, Trips, TripNames
  <2>3. ~CapReached
    BY <2>2 DEF CallsRunOnce, Breaker
  <2> QED
    BY <1>1, <2>3 DEF CapReached
<1>3. PICK G \in SUBSET Daemons : G = Flying'
  BY DEF Flying
<1>4. /\ Cardinality(G) * MaxCost <= Cardinality(Daemons) * MaxCost
      /\ Cardinality(G) * MaxCost \in Nat /\ Cardinality(Daemons) * MaxCost \in Nat
  BY <1>3, SomeDaemons, RunsCost
<1>5. (ledger[day] + Cardinality(Flying) * MaxCost < DailyCap + Cardinality(Daemons) * MaxCost)'
  BY <1>1, <1>2, <1>3, <1>4
<1> QED
  BY <1>1, <1>5 DEF CapInv, CapOvershootBounded

\* What a run costs was counted while it was under way.
LEMMA CapRecorded ==
  ASSUME Inv, CapInv, NEW d \in Daemons, RecordsCost(d)
  PROVE  CapInv'
PROOF
<1>1. /\ ledger \in [0 .. MaxDay -> Nat] /\ day \in 0 .. MaxDay /\ DailyCap \in Nat
      /\ cost[d] \in Nat /\ cost[d] <= MaxCost /\ MaxCost \in Nat
      /\ ledger' = [ledger EXCEPT ![day] = @ + cost[d]] /\ UNCHANGED day
  BY DEF Inv, TypeOK, RecordsCost, Costs
<1>2. PICK F \in SUBSET Daemons : F = Flying
  BY DEF Flying
<1>3. Flying' = F \ {d} /\ d \in F
  BY <1>2 DEF Flying, RecordsCost, Inv, TypeOK
<1>4. /\ IsFiniteSet(F) /\ Cardinality(F) \in Nat /\ Cardinality(Daemons) \in Nat
  BY SomeDaemons
<1>5. Cardinality(Flying') = Cardinality(F) - 1 /\ Cardinality(F) > 0
  <2>1. Cardinality(F \ {d}) = Cardinality(F) - 1
    BY <1>3, <1>4, FS_RemoveElement
  <2>2. Cardinality(F) # 0
    BY <1>3, <1>4, FS_EmptySet
  <2> QED
    BY <1>3, <1>4, <2>1, <2>2
<1>6. /\ Cardinality(Flying') * MaxCost = Cardinality(F) * MaxCost - MaxCost
      /\ Cardinality(F) * MaxCost \in Nat /\ Cardinality(Daemons) * MaxCost \in Nat
      /\ Cardinality(Flying') * MaxCost \in Nat
  <2>1. Cardinality(F) - 1 \in Nat
    BY <1>4, <1>5
  <2> QED
    BY <1>1, <1>4, <1>5, <2>1, RunsCost
<1>7. /\ ledger'[day] = ledger[day] + cost[d] /\ ledger[day] \in Nat
      /\ \A x \in 0 .. MaxDay : x # day => ledger'[x] = ledger[x]
  BY <1>1
<1>8. ledger[day] + Cardinality(F) * MaxCost < DailyCap + Cardinality(Daemons) * MaxCost
  BY <1>2 DEF CapInv
<1>9. /\ ledger'[day] + Cardinality(Flying') * MaxCost < DailyCap + Cardinality(Daemons) * MaxCost
      /\ ledger'[day] < DailyCap + Cardinality(Daemons) * MaxCost
  <2> DEFINE f == Cardinality(F) * MaxCost
             g == Cardinality(Flying') * MaxCost
             n == Cardinality(Daemons) * MaxCost
             l == ledger[day]
             c == cost[d]
  <2>1. /\ g = f - MaxCost /\ f \in Nat /\ g \in Nat /\ n \in Nat /\ l + f < DailyCap + n
        /\ ledger'[day] = l + c /\ l \in Nat /\ c \in Nat /\ c <= MaxCost
    BY <1>1, <1>6, <1>7, <1>8
  <2>2. MaxCost \in Nat /\ DailyCap \in Nat
    OBVIOUS
  <2> HIDE DEF f, g, n, l, c
  <2>3. (l + c) + g < DailyCap + n /\ l + c < DailyCap + n
    BY <2>1, <2>2
  <2> QED
    BY <2>1, <2>3 DEF g, n
<1>10. \A x \in 0 .. MaxDay : ledger'[x] < DailyCap + Cardinality(Daemons) * MaxCost
  <2> SUFFICES ASSUME NEW x \in 0 .. MaxDay, x # day
               PROVE  ledger'[x] < DailyCap + Cardinality(Daemons) * MaxCost
    BY <1>9
  <2>1. ledger'[x] = ledger[x]
    BY <1>7
  <2> QED
    BY <2>1 DEF CapInv, CapOvershootBounded
<1>11. \A x \in 0 .. MaxDay : x > day => ledger'[x] = 0
  <2> SUFFICES ASSUME NEW x \in 0 .. MaxDay, x > day PROVE ledger'[x] = 0
    OBVIOUS
  <2>1. x # day
    BY <1>1
  <2> QED
    BY <1>7, <2>1 DEF CapInv
<1> QED
  BY <1>1, <1>9, <1>10, <1>11 DEF CapInv, CapOvershootBounded

\* A new day begins with nothing spent.
LEMMA CapNextDay ==
  ASSUME Inv, CapInv, NextDay
  PROVE  CapInv'
PROOF
<1>1. /\ day \in 0 .. MaxDay /\ day' = day + 1 /\ day' \in 0 .. MaxDay /\ UNCHANGED <<pc, ledger>>
      /\ DailyCap \in Nat /\ DailyCap > 0
  BY DEF Inv, TypeOK, NextDay, store
<1>2. ledger[day'] = 0 /\ \A x \in 0 .. MaxDay : x > day' => ledger[x] = 0
  BY <1>1 DEF CapInv
<1>3. PICK F \in SUBSET Daemons : F = Flying
  BY DEF Flying
<1>4. Flying' = F
  BY <1>1, <1>3 DEF Flying
<1>5. /\ Cardinality(F) * MaxCost <= Cardinality(Daemons) * MaxCost
      /\ Cardinality(F) * MaxCost \in Nat /\ Cardinality(Daemons) * MaxCost \in Nat
  BY SomeDaemons, RunsCost
<1>6. (ledger[day] + Cardinality(Flying) * MaxCost < DailyCap + Cardinality(Daemons) * MaxCost)'
  BY <1>1, <1>2, <1>4, <1>5
<1> QED
  BY <1>1, <1>2, <1>6 DEF CapInv, CapOvershootBounded

\* Every step keeps the cap's invariant.
LEMMA NextKeepsCap == Inv /\ CapInv /\ [Next]_vars => CapInv'
PROOF
<1> SUFFICES ASSUME Inv, CapInv, [Next]_vars PROVE CapInv'
  OBVIOUS
<1>1. TypeOK
  BY DEF Inv
<1>2. ASSUME NEW d \in Daemons,
             \/ Load(d) \/ Crash(d) \/ RequestStop(d) \/ CheckRegistry(d) \/ StartFails(d)
             \/ Register(d) \/ StopsBySignal(d) \/ StopsByBreaker(d) \/ StopsAtMaxRuns(d)
             \/ RunBegins(d) \/ FindsNothing(d) \/ RunOnceThrows(d) \/ RunEnds(d) \/ WakesUp(d)
      PROVE  CapInv'
  <2>1. UNCHANGED <<ledger, day>>
    BY <1>2 DEF Load, Crash, RequestStop, CheckRegistry, StartFails, Register, StopsBySignal,
                StopsByBreaker, StopsAtMaxRuns, RunBegins, FindsNothing, RunOnceThrows, RunEnds,
                WakesUp, store
  <2>2. PICK to \in {"off", "loaded", "checked", "top", "running", "recorded", "idle", "same"} :
          /\ pc' = [pc EXCEPT ![d] = IF to = "same" THEN pc[d] ELSE to]
          /\ to \in {"running", "recorded"} => d \in Flying
    <3>1. CASE RequestStop(d)
      <4>1. pc' = [pc EXCEPT ![d] = IF pc[d] = "idle" THEN "top" ELSE pc[d]]
        BY <3>1 DEF RequestStop
      <4> QED
        BY <4>1
    <3>2. CASE ~RequestStop(d)
      BY <1>2, <3>2 DEF Load, Crash, CheckRegistry, StartFails, Register, StopsBySignal,
                StopsByBreaker, StopsAtMaxRuns, RunBegins, FindsNothing, RunOnceThrows, RunEnds,
                WakesUp, Exit, Gone, Flying
    <3> QED
      BY <3>1, <3>2
  <2>3. Flying' \subseteq Flying
    BY <1>1, <2>2 DEF Flying, TypeOK
  <2> QED
    BY <1>1, <2>1, <2>3, CapStays
<1>3. ASSUME UNCHANGED vars PROVE CapInv'
  <2>1. Flying' = Flying /\ UNCHANGED <<ledger, day>>
    BY <1>3 DEF vars, Flying
  <2> QED
    BY <1>1, <2>1, CapStays
<1> QED
  BY <1>2, <1>3, CapChecked, CapRecorded, CapNextDay DEF Next, LoopStep

\* However many daemons share the store, and through crashes, restarts and
\* days, the ledger of a day exceeds the daily cap by less than one run of each
\* (#refreshDailyBudget before every run, recordBudgetUsage after it).
THEOREM OvershootIsBounded == Spec => []CapOvershootBounded
PROOF
<1>1. Init => CapInv
  <2> SUFFICES ASSUME Init PROVE CapInv
    OBVIOUS
  <2>1. Flying = {}
    BY DEF Init, Flying
  <2>2. Cardinality(Daemons) * MaxCost \in Nat /\ Cardinality(Flying) * MaxCost = 0
    BY <2>1, FS_EmptySet, FS_CardinalityType
  <2>3. DailyCap \in Nat /\ DailyCap > 0 /\ 0 \in 0 .. MaxDay
    OBVIOUS
  <2>4. ledger = [x \in 0 .. MaxDay |-> 0] /\ day = 0
    BY DEF Init
  <2> QED
    BY <2>2, <2>3, <2>4 DEF CapInv, CapOvershootBounded
<1>2. CapInv => CapOvershootBounded
  BY DEF CapInv
<1> QED
  BY <1>1, <1>2, DaemonInvariant, NextKeepsCap, PTL DEF Spec

-----------------------------------------------------------------------------
(* The wait for CI                                                         *)

HIDE DaemonAssumption
USE CiWaitAssumption

(* Arithmetic of the two bounds of the loop *)

\* As many whole intervals as ceil(deadline / interval) cover the deadline.
LEMMA CeilCovers ==
  ASSUME NEW d \in Nat, NEW i \in Nat \ {0}
  PROVE  /\ ((d + i - 1) \div i) \in Int
         /\ ((d + i - 1) \div i) * i >= d
PROOF
<1> DEFINE q == (d + i - 1) \div i
           m == (d + i - 1) % i
<1>1. q \in Int /\ m \in 0 .. i - 1 /\ d + i - 1 = i * q + m
  OBVIOUS
<1>2. i * q >= d
  BY <1>1
<1>3. q * i = i * q
  BY <1>1
<1> QED
  BY <1>1, <1>2, <1>3

\* One more interval, and more intervals take longer.
LEMMA Intervals ==
  ASSUME NEW a \in Nat, NEW b \in Nat
  PROVE  /\ (a + 1) * Interval = a * Interval + Interval
         /\ a * Interval \in Nat
         /\ a >= b => a * Interval >= b * Interval
PROOF
<1> DEFINE i == Interval
<1>0. i \in Nat
  OBVIOUS
<1> HIDE DEF i
<1>1. (a + 1) * i = a * i + i
  BY <1>0
<1>2. a * i \in Nat
  BY <1>0
<1>3. ASSUME a >= b PROVE a * i >= b * i
  <2>1. PICK n \in Nat : a = b + n
    <3>1. a - b \in Nat /\ a = b + (a - b)
      BY <1>3
    <3> QED BY <3>1
  <2>2. (b + n) * i = b * i + n * i
    BY <1>0
  <2>3. n * i \in Nat /\ b * i \in Nat
    BY <1>0
  <2> QED
    BY <2>1, <2>2, <2>3
<1> QED
  BY <1>1, <1>2, <1>3 DEF i

\* The attempts before the last one cover the deadline.
LEMMA LastAttempt ==
  /\ MaxAttempts \in Nat /\ MaxAttempts >= 2
  /\ (MaxAttempts - 1) * Interval >= Deadline
PROOF
<1> DEFINE n == (Deadline + Interval - 1) \div Interval
           top == IF n > 1 THEN n ELSE 1
<1>1. n \in Int /\ n * Interval >= Deadline
  BY CeilCovers
<1> HIDE DEF n
<1>2. top \in Nat /\ top >= 1 /\ top >= n
  BY <1>1
<1>3. top * Interval >= Deadline
  <2>1. CASE n > 1
    BY <2>1, <1>1
  <2>2. CASE n = 1
    BY <2>2, <1>1
  <2>3. CASE n < 1
    <3>1. n * Interval <= 0
      <4>1. -n \in Nat /\ n * Interval = -((-n) * Interval)
        BY <1>1, <2>3
      <4>2. (-n) * Interval \in Nat
        BY <4>1
      <4> QED BY <4>1, <4>2
    <3> QED
      BY <3>1, <1>1, <2>3
  <2> QED
    BY <1>1, <2>1, <2>2, <2>3
<1>4. MaxAttempts = top + 1
  BY DEF MaxAttempts, n
<1> QED
  BY <1>2, <1>3, <1>4

-----------------------------------------------------------------------------
(* The inductive invariant *)

\* Attempt n looks at CI no sooner than n intervals into the wait, and a look
\* at or after the deadline is never followed by a pause.
Pacing ==
  /\ stage = "protection" => attempt = 0
  /\ stage \in {"poll", "fence", "pause"} => attempt < MaxAttempts
  /\ stage \in {"poll", "fence"} => attempt * Interval <= clock
  /\ stage = "pause" => attempt * Interval + Interval <= wake
  /\ stage \in {"fence", "pause"} => attempt * Interval <= waited /\ waited < Deadline

\* What was observed as completed does not change any more.
ObservedIsReal == \A k \in observed : k.conclusion # "pending" => k \in checks

CiWaitInv == CiWaitTypeOK /\ Pacing /\ ObservedIsReal /\ SatisfiedIsProven /\ NoEarlyGiveUp

\* The invariant holds when the wait begins.
LEMMA CiWaitInitInv == CiWaitInit => CiWaitInv
PROOF
<1> SUFFICES ASSUME CiWaitInit PROVE CiWaitInv
  OBVIOUS
<1>1. MaxAttempts \in Nat
  BY LastAttempt
<1>2. CiWaitTypeOK
  BY <1>1 DEF CiWaitInit, CiWaitTypeOK
<1> QED
  BY <1>2 DEF CiWaitInit, CiWaitInv, Pacing, ObservedIsReal, SatisfiedIsProven, NoEarlyGiveUp

\* CI keeps the invariant: it only adds reports or completes pending ones.
LEMMA CiKeepsInv == CiWaitInv /\ Ci => CiWaitInv'
PROOF
<1> SUFFICES ASSUME CiWaitInv, Ci PROVE CiWaitInv'
  OBVIOUS
<1> USE DEF CiWaitInv, CiWaitTypeOK
<1>0. /\ stage \notin Ended /\ stage' = stage
      /\ UNCHANGED <<rule, attempt, fetched, observed, verdicts, waited, wake>>
      /\ clock' \in 0 .. MaxTime /\ clock' >= clock
  <2>1. CASE Tick
    BY <2>1 DEF Ci, Tick
  <2>2. CASE Schedule
    BY <2>2 DEF Ci, Schedule
  <2>3. CASE Complete
    <3>1. UNCHANGED <<rule, clock, stage, attempt, fetched, observed, verdicts, waited, wake>>
      BY <2>3, Zenon DEF Complete
    <3> QED
      BY <3>1 DEF Ci
  <2>4. CASE SetStatus
    <3>1. UNCHANGED <<rule, clock, stage, attempt, fetched, observed, verdicts, waited, wake>>
      BY <2>4, Zenon DEF SetStatus
    <3> QED
      BY <3>1 DEF Ci
  <2> QED
    BY <2>1, <2>2, <2>3, <2>4 DEF Ci
<1>1. checks' \subseteq Check
  <2>1. CASE Tick
    BY <2>1 DEF Tick
  <2>2. CASE Schedule
    BY <2>2 DEF Schedule, Check, Conclusions
  <2>3. CASE Complete
    <3>1. PICK k \in checks, conclusion \in Conclusions \ {"pending"} :
            checks' = (checks \ {k}) \cup {[k EXCEPT !.conclusion = conclusion, !.at = clock]}
      BY <2>3 DEF Complete
    <3>2. k \in Check
      OBVIOUS
    <3>3. [k EXCEPT !.conclusion = conclusion, !.at = clock] \in Check
      BY <3>2 DEF Check
    <3> QED
      BY <3>1, <3>3
  <2>4. CASE SetStatus
    <3>1. NextId \in Ids
      BY <2>4, Zenon DEF SetStatus
    <3>2. PICK name \in Contexts, conclusion \in Conclusions \ {"skipped"} :
            checks' = checks \cup {[id |-> NextId, kind |-> "status", name |-> name,
                                   app |-> NoApp, candidate |-> TRUE,
                                   conclusion |-> conclusion, at |-> clock]}
      BY <2>4, Zenon DEF SetStatus
    <3>3. [id |-> NextId, kind |-> "status", name |-> name, app |-> NoApp,
           candidate |-> TRUE, conclusion |-> conclusion, at |-> clock] \in Check
      BY <3>1 DEF Check
    <3> QED
      BY <3>2, <3>3
  <2> QED
    BY <2>1, <2>2, <2>3, <2>4 DEF Ci
<1>2. CiWaitTypeOK'
  BY <1>0, <1>1
<1>3. Pacing'
  <2>1. MaxAttempts' = MaxAttempts
    BY DEF MaxAttempts
  <2>2. attempt \in Nat /\ attempt * Interval \in Nat
    BY LastAttempt, Intervals
  <2> QED
    BY <1>0, <2>1, <2>2 DEF Pacing
<1>4. ObservedIsReal'
  <2>1. \A k \in checks : k.conclusion # "pending" => k \in checks'
    BY DEF Ci, Tick, Schedule, Complete, SetStatus
  <2> QED
    BY <1>0, <2>1 DEF ObservedIsReal
<1>5. SatisfiedIsProven' /\ NoEarlyGiveUp'
  BY <1>0 DEF SatisfiedIsProven, NoEarlyGiveUp, Ended
<1> QED
  BY <1>2, <1>3, <1>4, <1>5

\* Deciding keeps the invariant: this is where reconcileChecks must be right.
LEMMA DecideKeepsInv == CiWaitInv /\ Decide => CiWaitInv'
PROOF
<1> SUFFICES ASSUME CiWaitInv, Decide PROVE CiWaitInv'
  OBVIOUS
<1> USE DEF CiWaitInv, CiWaitTypeOK
<1>0. MaxAttempts \in Nat /\ attempt \in Nat /\ attempt * Interval \in Nat
  BY LastAttempt, Intervals
<1>1. PICK pick \in [DOMAIN rule -> observed \cup {NoCheck}] :
        /\ \A c \in DOMAIN rule : pick[c] \in Latest(c)
        /\ verdicts' = [c \in DOMAIN rule |-> Verdict(c, pick[c])]
  BY DEF Decide
<1>2. /\ stage = "poll" /\ waited' = clock
      /\ UNCHANGED <<rule, clock, checks, attempt, fetched, observed, wake>>
  BY DEF Decide
<1> DEFINE states == {verdicts'[c] : c \in DOMAIN rule}
<1>3. stage' = CASE states \subseteq {"satisfied"}               -> "satisfied"
                [] ~(states \subseteq {"satisfied", "waiting"}) -> "blocked"
                [] "waiting" \in states /\ states \subseteq {"satisfied", "waiting"} ->
                     IF clock >= Deadline THEN "blocked" ELSE "fence"
  BY DEF Decide
<1>4. /\ stage' \in {"satisfied", "blocked", "fence"}
      /\ stage' = "satisfied" => states \subseteq {"satisfied"}
      /\ stage' = "fence" => ~(clock >= Deadline)
      /\ stage' = "blocked" => ~(states \subseteq {"satisfied", "waiting"}) \/ clock >= Deadline
  BY <1>3
<1> HIDE DEF states
<1>5. \A c \in DOMAIN rule : verdicts'[c] = Verdict(c, pick[c])
  BY <1>1
<1>6. \A c \in DOMAIN rule :
        /\ verdicts'[c] \in VerdictStates
        /\ verdicts'[c] = "never-scheduled" => clock >= Deadline
        /\ verdicts'[c] = "satisfied" =>
             /\ rule[c] # NoMapping
             /\ pick[c] # NoCheck
             /\ pick[c].conclusion = "success"
  BY <1>5 DEF Verdict, VerdictStates
<1>7. CiWaitTypeOK'
  BY <1>1, <1>2, <1>4, <1>6 DEF Ended
<1>8. Pacing'
  <2>1. MaxAttempts' = MaxAttempts
    BY DEF MaxAttempts
  <2> QED
    BY <1>0, <1>2, <1>4, <2>1 DEF Pacing
<1>9. ObservedIsReal'
  BY <1>2 DEF ObservedIsReal
<1>10. SatisfiedIsProven'
  <2> SUFFICES ASSUME stage' = "satisfied", NEW c \in DOMAIN rule
               PROVE  \E k \in Accepted(c) :
                        /\ k.conclusion = "success"
                        /\ \A j \in Accepted(c) \cap observed :
                             j.conclusion \in {"failure", "skipped"} => j.at <= k.at
    BY <1>2 DEF SatisfiedIsProven, Accepted
  <2>1. verdicts'[c] = "satisfied"
    BY <1>4 DEF states
  <2>2. /\ rule[c] # NoMapping
        /\ pick[c] # NoCheck
        /\ pick[c].conclusion = "success"
    BY <2>1, <1>6
  <2>3. pick[c] \in Matching(c) /\ \A j \in Matching(c) : j.at <= pick[c].at
    BY <1>1, <2>2 DEF Latest
  <2>4. pick[c] \in Accepted(c)
    BY <2>2, <2>3 DEF Matching, Accepted, ObservedIsReal
  <2>5. Accepted(c) \cap observed \subseteq Matching(c)
    BY DEF Matching, Accepted
  <2> QED
    BY <2>2, <2>3, <2>4, <2>5
<1>11. NoEarlyGiveUp'
  <2> SUFFICES ASSUME stage' = "blocked", ~(clock >= Deadline)
               PROVE  \E c \in DOMAIN rule : verdicts'[c] \in {"failed", "unmapped"}
    BY <1>2 DEF NoEarlyGiveUp
  <2>1. PICK c \in DOMAIN rule : verdicts'[c] \notin {"satisfied", "waiting"}
    BY <1>4 DEF states
  <2> QED
    BY <2>1, <1>6 DEF VerdictStates
<1> QED
  BY <1>7, <1>8, <1>9, <1>10, <1>11

\* The other steps of the wait keep the invariant.
LEMMA WaitKeepsInv == CiWaitInv /\ Wait => CiWaitInv'
PROOF
<1> SUFFICES ASSUME CiWaitInv, Wait PROVE CiWaitInv'
  OBVIOUS
<1> USE DEF CiWaitInv, CiWaitTypeOK
<1>0. /\ MaxAttempts \in Nat /\ MaxAttempts >= 2 /\ MaxAttempts' = MaxAttempts
      /\ (MaxAttempts - 1) * Interval >= Deadline
      /\ attempt \in Nat /\ attempt * Interval \in Nat
      /\ (attempt + 1) * Interval = attempt * Interval + Interval
  BY LastAttempt, Intervals DEF MaxAttempts
<1>1. CASE ReadProtection
  <2>1. attempt = 0 /\ attempt * Interval <= clock
    BY <1>0, <1>1, Intervals DEF ReadProtection, Pacing
  <2> QED
    BY <1>0, <1>1, <2>1 DEF ReadProtection, Pacing, ObservedIsReal, SatisfiedIsProven,
                            NoEarlyGiveUp, Ended
<1>2. ASSUME NEW kind \in {"run", "status"}, Fetch(kind) PROVE CiWaitInv'
  BY <1>0, <1>2 DEF Fetch, Pacing, ObservedIsReal, SatisfiedIsProven, NoEarlyGiveUp
<1>3. CASE Decide
  BY <1>3, DecideKeepsInv
<1>4. CASE Pause
  BY <1>0, <1>4 DEF Pause, Pacing, ObservedIsReal, SatisfiedIsProven, NoEarlyGiveUp
<1>5. CASE Resume
  <2>1. attempt + 1 < MaxAttempts
    <3> SUFFICES ASSUME attempt >= MaxAttempts - 1 PROVE FALSE
      BY <1>0
    <3>1. attempt * Interval >= (MaxAttempts - 1) * Interval
      BY <1>0, Intervals
    <3> QED
      BY <1>0, <1>5, <3>1 DEF Resume, Pacing
  <2> QED
    BY <1>0, <1>5, <2>1 DEF Resume, Pacing, ObservedIsReal, SatisfiedIsProven, NoEarlyGiveUp
<1>6. CASE Throw
  BY <1>0, <1>6 DEF Throw, Pacing, ObservedIsReal, SatisfiedIsProven, NoEarlyGiveUp, Ended
<1> QED
  BY <1>1, <1>2, <1>3, <1>4, <1>5, <1>6 DEF Wait

-----------------------------------------------------------------------------

\* The invariant holds throughout every wait.
THEOREM CiWaitInvariant == CiWaitSpec => []CiWaitInv
PROOF
<1>1. CiWaitInv /\ UNCHANGED ciWaitVars => CiWaitInv'
  BY DEF ciWaitVars, CiWaitInv, CiWaitTypeOK, Pacing, ObservedIsReal, SatisfiedIsProven,
         NoEarlyGiveUp, Accepted, MaxAttempts
<1> QED
  BY <1>1, CiWaitInitInv, CiKeepsInv, WaitKeepsInv, PTL DEF CiWaitSpec, CiWaitNext

\* The state of #waitForCi keeps its types; in particular the attempts stay
\* within maxAttempts.
THEOREM CiWaitTyping == CiWaitSpec => []CiWaitTypeOK
PROOF
  BY CiWaitInvariant, PTL DEF CiWaitInv

\* CI counts as passed only with a success of each required context on the
\* candidate itself, for every set of contexts, apps and branch rules.
THEOREM PassedMeansProven == CiWaitSpec => []SatisfiedIsProven
PROOF
  BY CiWaitInvariant, PTL DEF CiWaitInv

\* For every deadline and interval, the wait gives up for want of reports only
\* after a look at CI at or past the deadline.
THEOREM WaitsOutTheDeadline == CiWaitSpec => []NoEarlyGiveUp
PROOF
  BY CiWaitInvariant, PTL DEF CiWaitInv

-----------------------------------------------------------------------------
(* The worker service                                                      *)

HIDE CiWaitAssumption
USE AsfServiceAssumption

\* The state of the store, of an invocation and of a process.
Rows == [Runs -> [phase : Phases, owner : Hosts \cup {NoHost}, fresh : BOOLEAN]]
Invocation == [pc : {"none", "running", "settled"}, cur : BOOLEAN, lost : BOOLEAN,
               aborted : BOOLEAN, grace : BOOLEAN, beat : BOOLEAN]
Process == [up : BOOLEAN, stopping : BOOLEAN, queue : Seq(Runs), scheduled : SUBSET Runs,
            pump : BOOLEAN, retry : BOOLEAN, wake : SUBSET Runs, again : SUBSET Runs]

\* Type correctness, in the form the proofs use.
ServiceType ==
  /\ row \in Rows /\ inv \in [Hosts -> [Runs -> Invocation]]
  /\ host \in [Hosts -> Process] /\ faults \in 0 .. MaxFaults

\* What a process owes the runs it has marked, those it is executing included.
Sound(p, active) ==
  /\ ~p.up => p = Down /\ active = {}
  /\ p.up => /\ p.scheduled = Range(p.queue) \cup active
             /\ IsInjective(p.queue) /\ Range(p.queue) \cap active = {}
             /\ p.queue # <<>> => p.pump \/ p.retry \/ active # {}
  /\ p.stopping => p.queue = <<>>

\* A running invocation that lost its lease has been told, or will be.
Told(i) == i.pc = "running" /\ i.lost => i.aborted \/ i.grace

\* The inductive invariant.
ServiceInv ==
  /\ ServiceType
  /\ \A h \in Hosts : Sound(host[h], Active(h))
  /\ \A h \in Hosts, r \in Runs : Told(inv[h][r])

\* The invariant holds initially.
LEMMA ServiceInitInv == ServiceInit => ServiceInv
<1> SUFFICES ASSUME ServiceInit PROVE ServiceInv
  OBVIOUS
<1> USE DEF ServiceInit
<1>1. NoInvocation \in Invocation /\ Down \in Process
  BY DEF NoInvocation, Invocation, Down, Process
<1>2. ServiceType
  BY <1>1 DEF ServiceType, Rows, Phases
<1>3. ASSUME NEW h \in Hosts PROVE Sound(host[h], Active(h))
  <2>1. Active(h) = {} /\ host[h] = Down
    BY DEF Active, NoInvocation
  <2> QED BY <2>1 DEF Sound, Down
<1>4. ASSUME NEW h \in Hosts, NEW r \in Runs PROVE Told(inv[h][r])
  BY DEF Told, NoInvocation
<1> QED BY <1>2, <1>3, <1>4 DEF ServiceInv

\* Appending a run that is not there keeps a queue without repetitions.
LEMMA QueueGrows ==
  ASSUME NEW q \in Seq(Runs), NEW r \in Runs, IsInjective(q), r \notin Range(q)
  PROVE  /\ Append(q, r) \in Seq(Runs) /\ IsInjective(Append(q, r))
         /\ Range(Append(q, r)) = Range(q) \cup {r}
<1> DEFINE t == Append(q, r)
<1>1. t \in Seq(Runs) /\ DOMAIN t = 1 .. Len(q) + 1 /\ DOMAIN q = 1 .. Len(q) /\ Len(q) \in Nat
  OBVIOUS
<1>2. t[Len(q) + 1] = r /\ \A i \in 1 .. Len(q) : t[i] = q[i]
  OBVIOUS
<1> HIDE DEF t
<1>3. Range(t) = Range(q) \cup {r}
  <2>1. ASSUME NEW x \in Range(t) PROVE x \in Range(q) \cup {r}
    BY <1>1, <1>2 DEF Range
  <2>2. r \in Range(t)
    BY <1>1, <1>2 DEF Range
  <2>3. ASSUME NEW i \in DOMAIN q PROVE q[i] \in Range(t)
    BY <1>1, <1>2 DEF Range
  <2> QED BY <2>1, <2>2, <2>3 DEF Range
<1>4. IsInjective(t)
  BY <1>1, <1>2 DEF IsInjective, Range
<1>5. t = Append(q, r)
  BY DEF t
<1> QED BY <1>1, <1>3, <1>4, <1>5

\* A run that a live process is not executing can be scheduled.
LEMMA ScheduledSound ==
  ASSUME NEW p \in Process, NEW active \in SUBSET Runs, NEW r \in Runs \ active,
         p.up, Sound(p, active)
  PROVE  Scheduled(p, r) \in Process /\ Sound(Scheduled(p, r), active)
<1>1. p.queue \in Seq(Runs) /\ p.scheduled \in SUBSET Runs
  BY DEF Process
<1>2. CASE p.stopping
  BY <1>2 DEF Scheduled
<1>3. CASE ~p.stopping /\ r \in p.scheduled
  <2>1. Scheduled(p, r) = [p EXCEPT !.pump = TRUE]
    BY <1>3 DEF Scheduled
  <2> QED BY <1>3, <2>1 DEF Sound, Process
<1>4. CASE ~p.stopping /\ r \notin p.scheduled
  <2> DEFINE t == [p EXCEPT !.scheduled = @ \cup {r}, !.queue = Append(@, r), !.pump = TRUE]
  <2>1. Scheduled(p, r) = t
    BY <1>4 DEF Scheduled
  <2>2. r \in Runs /\ IsInjective(p.queue) /\ r \notin Range(p.queue)
    BY <1>4 DEF Sound
  <2>3. /\ Append(p.queue, r) \in Seq(Runs) /\ IsInjective(Append(p.queue, r))
        /\ Range(Append(p.queue, r)) = Range(p.queue) \cup {r}
    <3> HIDE DEF t
    <3> QED BY <1>1, <2>2, QueueGrows, Zenon
  <2>4. t \in Process /\ t.scheduled = p.scheduled \cup {r} /\ t.queue = Append(p.queue, r)
        /\ t.up /\ t.pump /\ ~t.stopping
    BY <1>1, <1>4, <2>3 DEF Process
  <2> HIDE DEF t
  <2>5. Sound(t, active)
    BY <1>1, <2>3, <2>4 DEF Sound
  <2> QED BY <2>1, <2>4, <2>5
<1> QED BY <1>2, <1>3, <1>4

\* A step of one process, which leaves those of the others running.
LEMMA ProcessStep ==
  ASSUME ServiceInv, NEW h \in Hosts, NEW p \in Process,
         host' = [host EXCEPT ![h] = p], Sound(p, Active(h)'),
         \A k \in Hosts \ {h} : Active(k)' = Active(k)
  PROVE  /\ host' \in [Hosts -> Process]
         /\ \A k \in Hosts : Sound(host'[k], Active(k)')
BY DEF ServiceInv, ServiceType

\* A step that leaves the processes and what they execute as they are.
LEMMA QuietStep ==
  ASSUME ServiceInv, host' = host, \A k \in Hosts : Active(k)' = Active(k)
  PROVE  host' \in [Hosts -> Process] /\ \A k \in Hosts : Sound(host'[k], Active(k)')
BY DEF ServiceInv, ServiceType

\* Induction over the natural numbers, for a set.
LEMMA NatSet ==
  ASSUME NEW T \in SUBSET Nat, 0 \in T, \A n \in T : n + 1 \in T
  PROVE  T = Nat
<1> DEFINE R == OpToRel(<, Nat)
<1>1. \A m, n \in Nat : m < n => <<m, n>> \in R
  BY DEF OpToRel
<1>2. IsWellFoundedOn(R, Nat)
  BY NatLessThanWellFounded
<1> HIDE DEF R
<1>3. SUFFICES ASSUME Nat \ T # {} PROVE FALSE
  OBVIOUS
<1>4. PICK n \in Nat \ T : \A m \in Nat \ T : ~ (<<m, n>> \in R)
  BY <1>2, <1>3, WFMin
<1>5. n - 1 \in Nat /\ n - 1 < n
  BY <1>4
<1>6. n - 1 \in T
  BY <1>1, <1>4, <1>5
<1> QED BY <1>4, <1>5, <1>6

-----------------------------------------------------------------------------
(* The worker service: one pass over the queue                             *)

\* Where a pass over the queue q of process h is after its first n elements.
Where(h, q, n, st) ==
  LET running == {k \in Runs : st.invs[h][k].pc # "none"}
      seen == {q[i] : i \in 1 .. n}
      rest == {q[i] : i \in n + 1 .. Len(q)}
  IN /\ st \in [rows : Rows, invs : [Hosts -> [Runs -> Invocation]], queue : Seq(Runs),
                retry : BOOLEAN, scheduled : SUBSET Runs]
     /\ \A k \in Hosts, r \in Runs : Told(st.invs[k][r])
     /\ \A k \in Hosts \ {h}, r \in Runs : st.invs[k][r].pc = inv[k][r].pc
     /\ running \subseteq Active(h) \cup seen
     /\ Range(st.queue) \subseteq seen
     /\ st.scheduled = Range(st.queue) \cup running \cup rest
     /\ IsInjective(st.queue) /\ Range(st.queue) \cap running = {}
     /\ st.queue # <<>> => st.retry \/ running # {}

\* One element of the queue.
LEMMA PumpOneKeeps ==
  ASSUME ServiceType, NEW h \in Hosts, NEW bad, NEW q \in Seq(Runs), IsInjective(q),
         Range(q) \cap Active(h) = {}, NEW n \in Nat, n + 1 \in 1 .. Len(q),
         NEW st, Where(h, q, n, st)
  PROVE  Where(h, q, n + 1, PumpOne(h, bad, st, q[n + 1]))
<1> DEFINE r == q[n + 1]
           running == {k \in Runs : st.invs[h][k].pc # "none"}
           seen == {q[i] : i \in 1 .. n}
           rest == {q[i] : i \in n + 1 .. Len(q)}
           seen1 == {q[i] : i \in 1 .. n + 1}
           rest1 == {q[i] : i \in n + 1 + 1 .. Len(q)}
           back == [st EXCEPT !.queue = Append(@, r)]
           later == [back EXCEPT !.retry = TRUE]
           gone == [st EXCEPT !.scheduled = @ \ {r}]
           won == Claimed(st, h, r)
           P == [rows : Rows, invs : [Hosts -> [Runs -> Invocation]], queue : Seq(Runs),
                 retry : BOOLEAN, scheduled : SUBSET Runs]
<1>1. /\ st \in P /\ st.queue \in Seq(Runs) /\ Len(q) \in Nat /\ DOMAIN q = 1 .. Len(q)
      /\ st.rows \in Rows /\ st.invs \in [Hosts -> [Runs -> Invocation]]
  BY DEF Where
<1>2. seen1 = seen \cup {r} /\ rest = rest1 \cup {r} /\ r \in Runs
  OBVIOUS
<1>3. r \notin seen /\ r \notin rest1 /\ r \notin Active(h)
  <2>1. r \in Range(q)
    BY <1>1 DEF Range
  <2>2. \A i \in 1 .. Len(q) : q[i] = r => i = n + 1
    BY <1>1 DEF IsInjective
  <2> QED BY <2>1, <2>2
<1>4. r \notin running /\ r \notin Range(st.queue) /\ IsInjective(st.queue)
  BY <1>3 DEF Where
<1>5. /\ Append(st.queue, r) \in Seq(Runs) /\ IsInjective(Append(st.queue, r))
      /\ Range(Append(st.queue, r)) = Range(st.queue) \cup {r}
  <2> HIDE DEF r, P, running, seen, rest, seen1, rest1, back, later, gone, won
  <2> QED BY <1>1, <1>2, <1>4, QueueGrows, Zenon
<1>6. ASSUME NEW t \in {back, later}, t.retry \/ running # {}
      PROVE  Where(h, q, n + 1, t)
  <2>1. /\ t \in P /\ t.rows = st.rows /\ t.invs = st.invs /\ t.scheduled = st.scheduled
        /\ t.queue = Append(st.queue, r)
    BY <1>1, <1>5, <1>6
  <2> HIDE DEF r, seen, rest, seen1, rest1, back, later
  <2>2. Range(t.queue) = Range(st.queue) \cup {r} /\ IsInjective(t.queue)
    BY <1>5, <2>1
  <2>3. Range(t.queue) \subseteq seen1 /\ running \subseteq Active(h) \cup seen1
    BY <1>2, <2>2 DEF Where, seen
  <2>4. t.scheduled = Range(t.queue) \cup running \cup rest1
    BY <1>2, <2>1, <2>2 DEF Where, rest
  <2>5. Range(t.queue) \cap running = {}
    BY <1>4, <2>2 DEF Where
  <2>6. /\ \A k \in Hosts, x \in Runs : Told(t.invs[k][x])
        /\ \A k \in Hosts \ {h}, x \in Runs : t.invs[k][x].pc = inv[k][x].pc
    <3>1. /\ \A k \in Hosts, x \in Runs : Told(st.invs[k][x])
          /\ \A k \in Hosts \ {h}, x \in Runs : st.invs[k][x].pc = inv[k][x].pc
      BY DEF Where
    <3> QED BY <2>1, <3>1
  <2>7. running = {k \in Runs : t.invs[h][k].pc # "none"}
    BY <2>1
  <2> HIDE DEF running
  <2> QED BY <1>6, <2>1, <2>2, <2>3, <2>4, <2>5, <2>6, <2>7 DEF Where, seen1, rest1
<1>7. Where(h, q, n + 1, gone)
  <2>1. /\ gone \in P /\ gone.rows = st.rows /\ gone.invs = st.invs /\ gone.queue = st.queue
        /\ gone.retry = st.retry /\ gone.scheduled = st.scheduled \ {r}
    BY <1>1
  <2> HIDE DEF r, seen, rest, seen1, rest1, gone
  <2>2. Range(st.queue) \subseteq seen1 /\ running \subseteq Active(h) \cup seen1
    BY <1>2 DEF Where, seen
  <2>3. gone.scheduled = Range(st.queue) \cup running \cup rest1
    BY <1>2, <1>3, <1>4, <2>1 DEF Where, rest
  <2> QED BY <2>1, <2>2, <2>3 DEF Where, seen1, rest1
<1>8. Where(h, q, n + 1, won)
  <2>1. Invoked \in Invocation /\ Invoked.pc = "running" /\ Told(Invoked)
    BY DEF Invoked, NoInvocation, Invocation, Told
  <2>2. won \in P /\ won.queue = st.queue /\ won.retry = st.retry /\ won.scheduled = st.scheduled
    <3> DEFINE rows == [st.rows EXCEPT ![r] = [@ EXCEPT !.owner = h, !.fresh = TRUE]]
               invs == [k \in Hosts |-> IF k = h THEN [st.invs[k] EXCEPT ![r] = Invoked]
                                        ELSE [st.invs[k] EXCEPT ![r].cur = FALSE]]
    <3>1. won = [st EXCEPT !.rows = rows, !.invs = invs]
      BY DEF Claimed
    <3> HIDE DEF r, won, seen, rest, seen1, rest1, back, later, gone, running
    <3>2. rows \in Rows
      BY <1>1, <1>2 DEF Rows
    <3>3. invs \in [Hosts -> [Runs -> Invocation]]
      <4>1. [st.invs[h] EXCEPT ![r] = Invoked] \in [Runs -> Invocation]
        BY <1>1, <1>2, <2>1
      <4>2. ASSUME NEW k \in Hosts
            PROVE  [st.invs[k] EXCEPT ![r].cur = FALSE] \in [Runs -> Invocation]
        <5> DEFINE i == [st.invs[k][r] EXCEPT !.cur = FALSE]
        <5>1. i \in Invocation
          <6>1. st.invs[k][r] \in Invocation
            BY <1>1, <1>2
          <6> QED BY <6>1 DEF Invocation
        <5>2. [st.invs[k] EXCEPT ![r].cur = FALSE] = [st.invs[k] EXCEPT ![r] = i]
          OBVIOUS
        <5> HIDE DEF i
        <5> QED BY <1>1, <1>2, <5>1, <5>2
      <4> QED BY <4>1, <4>2
    <3> HIDE DEF rows, invs, r, won
    <3> QED BY <1>1, <3>1, <3>2, <3>3
  <2>3. /\ won.invs[h][r] = Invoked
        /\ \A k \in Runs \ {r} : won.invs[h][k] = st.invs[h][k]
        /\ \A k \in Hosts \ {h}, x \in Runs :
             /\ won.invs[k][x].pc = st.invs[k][x].pc
             /\ Told(st.invs[k][x]) => Told(won.invs[k][x])
    BY <1>1, <1>2 DEF Claimed, Told, Invocation
  <2> DEFINE running1 == {k \in Runs : won.invs[h][k].pc # "none"}
  <2> HIDE DEF r, seen, rest, seen1, rest1, won
  <2>4. running1 = running \cup {r}
    BY <1>2, <2>1, <2>3
  <2> HIDE DEF running1, running
  <2>5. Range(won.queue) \subseteq seen1 /\ running1 \subseteq Active(h) \cup seen1
    BY <1>2, <2>2, <2>4 DEF Where, seen, running
  <2>6. won.scheduled = Range(won.queue) \cup running1 \cup rest1
    BY <1>2, <2>2, <2>4 DEF Where, rest, running
  <2>7. Range(won.queue) \cap running1 = {} /\ IsInjective(won.queue) /\ running1 # {}
    BY <1>4, <2>2, <2>4 DEF Where, running
  <2>8. \A k \in Hosts, x \in Runs : Told(won.invs[k][x])
    BY <2>1, <2>3 DEF Where
  <2>9. \A k \in Hosts \ {h}, x \in Runs : won.invs[k][x].pc = inv[k][x].pc
    BY <2>3 DEF Where
  <2> QED BY <2>2, <2>5, <2>6, <2>7, <2>8, <2>9 DEF Where, seen1, rest1, running1
<1>9. Cardinality(running) >= MaxConcurrency => running # {}
  <2>1. Cardinality({}) = 0
    BY FS_EmptySet
  <2>2. ~ (0 >= MaxConcurrency)
    OBVIOUS
  <2> QED BY <2>1, <2>2
<1>10. Where(h, q, n + 1, later) /\ (running # {} => Where(h, q, n + 1, back))
  <2>1. later.retry
    BY <1>1
  <2> HIDE DEF back, later
  <2> QED BY <1>6, <2>1
<1>11. \/ PumpOne(h, bad, st, r) \in {later, gone, won}
       \/ PumpOne(h, bad, st, r) = back /\ running # {}
  <2> HIDE DEF won, r
  <2>1. IsFiniteSet(running) /\ Cardinality(running) \in Nat
    BY FS_Subset, FS_CardinalityType
  <2> QED BY <1>9, <2>1 DEF PumpOne, won
<1> HIDE DEF back, later, gone, won
<1> QED BY <1>7, <1>8, <1>10, <1>11

\* The states of a pass over m elements of the queue.
Passes(h, bad, q, start, s, m) ==
  s = [n \in 0 .. m |-> IF n = 0 THEN start ELSE PumpOne(h, bad, s[n - 1], q[n])]

\* Every queue has its pass.
LEMMA PassExists ==
  ASSUME NEW h, NEW bad, NEW q \in Seq(Runs), NEW start
  PROVE  \E s : Passes(h, bad, q, start, s, Len(q))
<1> DEFINE T == {m \in Nat : \E s : Passes(h, bad, q, start, s, m)}
<1>1. 0 \in T
  <2>1. Passes(h, bad, q, start, [n \in 0 .. 0 |-> start], 0)
    BY DEF Passes
  <2> QED BY <2>1
<1>2. ASSUME NEW m \in T PROVE m + 1 \in T
  <2>1. PICK s : Passes(h, bad, q, start, s, m)
    OBVIOUS
  <2> DEFINE last == PumpOne(h, bad, s[m], q[m + 1])
             t == [n \in 0 .. m + 1 |-> IF n = m + 1 THEN last ELSE s[n]]
             u == [n \in 0 .. m + 1 |->
                    IF n = 0 THEN start ELSE PumpOne(h, bad, t[n - 1], q[n])]
  <2>2. m \in Nat
    OBVIOUS
  <2> HIDE DEF T
  <2>3. ASSUME NEW n \in 0 .. m + 1 PROVE t[n] = u[n]
    <3>1. CASE n = m + 1
      <4>1. n # 0 /\ n - 1 = m /\ m \in 0 .. m + 1 /\ m # m + 1
        BY <2>2, <3>1
      <4>2. t[n] = last /\ t[m] = s[m]
        BY <3>1, <4>1
      <4>3. u[n] = PumpOne(h, bad, t[m], q[m + 1])
        BY <3>1, <4>1
      <4> QED BY <4>2, <4>3
    <3>2. CASE n # m + 1
      <4>1. n \in 0 .. m /\ t[n] = s[n]
        BY <2>2, <3>2
      <4>2. s[n] = IF n = 0 THEN start ELSE PumpOne(h, bad, s[n - 1], q[n])
        BY <2>1, <4>1 DEF Passes
      <4>3. n # 0 => n - 1 \in 0 .. m + 1 /\ n - 1 # m + 1
        BY <2>2, <4>1
      <4>4. n # 0 => t[n - 1] = s[n - 1]
        BY <4>3
      <4>5. u[n] = IF n = 0 THEN start ELSE PumpOne(h, bad, t[n - 1], q[n])
        OBVIOUS
      <4> HIDE DEF t, u
      <4> QED BY <4>1, <4>2, <4>4, <4>5
    <3> QED BY <3>1, <3>2
  <2>4. t = u
    BY <2>3
  <2>5. Passes(h, bad, q, start, t, m + 1)
    <3> HIDE DEF t
    <3> QED BY <2>4 DEF Passes
  <2> QED BY <2>2, <2>5 DEF T
<1> HIDE DEF T
<1>3. T \in SUBSET Nat
  BY DEF T
<1>4. T = Nat
  BY <1>1, <1>2, <1>3, NatSet
<1>5. Len(q) \in T
  BY <1>4
<1> QED BY <1>5 DEF T

\* What a pass leaves behind: everything queued, running or taken off the list.
LEMMA PassKeeps ==
  ASSUME ServiceInv, NEW h \in Hosts, host[h].up, NEW bad
  PROVE  Where(h, host[h].queue, Len(host[h].queue), Passed(h, bad))
<1> DEFINE q == host[h].queue
           start == [rows |-> row, invs |-> inv, queue |-> <<>>, retry |-> FALSE,
                     scheduled |-> host[h].scheduled]
           pass == CHOOSE s : Passes(h, bad, q, start, s, Len(q))
           T == {n \in Nat : n <= Len(q) => Where(h, q, n, pass[n])}
<1>1. q \in Seq(Runs) /\ Len(q) \in Nat /\ DOMAIN q = 1 .. Len(q)
  BY DEF ServiceInv, ServiceType, Process
<1>2. /\ ServiceType /\ IsInjective(q) /\ Range(q) \cap Active(h) = {}
      /\ host[h].scheduled = Range(q) \cup Active(h) /\ host[h].scheduled \in SUBSET Runs
  BY DEF ServiceInv, ServiceType, Process, Sound
<1>3. Passed(h, bad) = pass[Len(q)]
  BY DEF Passed, Passes
<1>4. Passes(h, bad, q, start, pass, Len(q))
  <2> HIDE DEF q, start
  <2>1. \E s : Passes(h, bad, q, start, s, Len(q))
    BY <1>1, PassExists
  <2> QED BY <2>1
<1>5. Where(h, q, 0, start)
  <2>1. /\ start.rows = row /\ start.invs = inv /\ start.queue = <<>> /\ start.retry = FALSE
        /\ start.scheduled = host[h].scheduled
    OBVIOUS
  <2>2. start \in [rows : Rows, invs : [Hosts -> [Runs -> Invocation]], queue : Seq(Runs),
                   retry : BOOLEAN, scheduled : SUBSET Runs]
    BY <1>2 DEF ServiceType
  <2>3. Range(<<>>) = {} /\ IsInjective(<<>>)
    BY DEF Range, IsInjective
  <2>4. Range(q) = {q[i] : i \in 0 + 1 .. Len(q)}
    BY <1>1 DEF Range
  <2>5. {k \in Runs : start.invs[h][k].pc # "none"} = Active(h)
    BY <2>1 DEF Active
  <2> HIDE DEF start, q
  <2> QED BY <1>1, <1>2, <2>1, <2>2, <2>3, <2>4, <2>5 DEF Where, ServiceInv
<1> HIDE DEF q, start, pass
<1>6. 0 \in T
  <2>1. pass[0] = start
    BY <1>1, <1>4 DEF Passes
  <2> QED BY <1>5, <2>1
<1>7. ASSUME NEW n \in T PROVE n + 1 \in T
  <2>1. SUFFICES ASSUME n + 1 <= Len(q) PROVE Where(h, q, n + 1, pass[n + 1])
    OBVIOUS
  <2>2. n \in Nat /\ n + 1 \in 1 .. Len(q) /\ n + 1 \in 0 .. Len(q) /\ n + 1 # 0
        /\ n + 1 - 1 = n /\ n <= Len(q)
    BY <1>1, <2>1
  <2>3. pass[n + 1] = PumpOne(h, bad, pass[n], q[n + 1])
    BY <1>4, <2>2 DEF Passes
  <2>4. Where(h, q, n, pass[n])
    BY <2>2
  <2> HIDE DEF T
  <2>5. Where(h, q, n + 1, PumpOne(h, bad, pass[n], q[n + 1]))
    BY <1>1, <1>2, <2>2, <2>4, PumpOneKeeps, Zenon
  <2> QED BY <2>3, <2>5
<1>8. T = Nat
  <2> HIDE DEF T
  <2>1. T \in SUBSET Nat
    BY DEF T
  <2> QED BY <1>6, <1>7, <2>1, NatSet
<1>9. Where(h, q, Len(q), pass[Len(q)])
  BY <1>1, <1>8
<1> QED BY <1>3, <1>9 DEF q

-----------------------------------------------------------------------------
(* The worker service: the steps                                           *)

\* An invocation moves on.
LEMMA InvocationStep ==
  ASSUME ServiceInv, NEW h \in Hosts, NEW r \in Runs, NEW i \in Invocation, Told(i),
         inv' = [inv EXCEPT ![h][r] = i]
  PROVE  /\ inv' \in [Hosts -> [Runs -> Invocation]]
         /\ \A k \in Hosts, x \in Runs : Told(inv[k][x])'
         /\ \A k \in Hosts \ {h} : Active(k)' = Active(k)
         /\ Active(h)' = IF i.pc = "none" THEN Active(h) \ {r} ELSE Active(h) \cup {r}
<1>1. inv \in [Hosts -> [Runs -> Invocation]] /\ \A k \in Hosts, x \in Runs : Told(inv[k][x])
  BY DEF ServiceInv, ServiceType
<1>2. /\ inv'[h][r] = i /\ \A x \in Runs \ {r} : inv'[h][x] = inv[h][x]
      /\ \A k \in Hosts \ {h} : inv'[k] = inv[k]
  BY <1>1
<1>3. inv' \in [Hosts -> [Runs -> Invocation]]
  BY <1>1
<1>4. \A k \in Hosts, x \in Runs : Told(inv'[k][x])
  BY <1>1, <1>2
<1>5. \A k \in Hosts, x \in Runs : Told(inv[k][x])'
  BY <1>4 DEF Told
<1> QED BY <1>2, <1>3, <1>5 DEF Active

\* i is as far as j, and has been told the same.
SameSignals(i, j) ==
  i.pc = j.pc /\ i.lost = j.lost /\ i.aborted = j.aborted /\ i.grace = j.grace

\* A fence is moved: an invocation at most knows that it is not the row's.
LEMMA FenceStep ==
  ASSUME ServiceInv, NEW r \in Runs
  PROVE  /\ Unfenced(r) \in [Hosts -> [Runs -> Invocation]]
         /\ \A k \in Hosts, x \in Runs : SameSignals(Unfenced(r)[k][x], inv[k][x])
<1>1. inv \in [Hosts -> [Runs -> Invocation]]
  BY DEF ServiceInv, ServiceType
<1>2. ASSUME NEW k \in Hosts
      PROVE  /\ [inv[k] EXCEPT ![r].cur = FALSE] \in [Runs -> Invocation]
             /\ \A x \in Runs : SameSignals([inv[k] EXCEPT ![r].cur = FALSE][x], inv[k][x])
  <2> DEFINE i == [inv[k][r] EXCEPT !.cur = FALSE]
  <2>1. inv[k][r] \in Invocation
    BY <1>1
  <2>2. i \in Invocation /\ SameSignals(i, inv[k][r])
    BY <2>1 DEF Invocation, SameSignals
  <2>3. [inv[k] EXCEPT ![r].cur = FALSE] = [inv[k] EXCEPT ![r] = i]
    OBVIOUS
  <2> HIDE DEF i
  <2>4. [inv[k] EXCEPT ![r] = i] \in [Runs -> Invocation]
    BY <1>1, <2>2
  <2>5. \A x \in Runs : SameSignals([inv[k] EXCEPT ![r] = i][x], inv[k][x])
    BY <1>1, <2>2 DEF SameSignals
  <2> QED BY <2>3, <2>4, <2>5
<1> QED BY <1>2 DEF Unfenced

\* What a process schedules or marks for another pass.
LEMMA WokenSound ==
  ASSUME ServiceInv, NEW h \in Hosts, NEW p \in Process, NEW r \in Runs, p.up,
         Sound(p, Active(h))
  PROVE  Woken(h, p, r) \in Process /\ Sound(Woken(h, p, r), Active(h))
<1>1. Active(h) \in SUBSET Runs
  BY DEF Active
<1>2. CASE r \in Active(h)
  <2>1. Woken(h, p, r) = [p EXCEPT !.again = @ \cup {r}]
    BY <1>2 DEF Woken
  <2> QED BY <2>1 DEF Sound, Process
<1>3. CASE r \notin Active(h)
  BY <1>1, <1>3, ScheduledSound DEF Woken
<1> QED BY <1>2, <1>3

\* A pass over the queue keeps the invariant.
LEMMA PumpInv ==
  ASSUME ServiceInv, NEW h \in Hosts, Pump(h)
  PROVE  ServiceInv'
<1>1. PICK bad \in SUBSET Range(host[h].queue) :
        LET end == Passed(h, bad)
        IN /\ host[h].up /\ host[h].pump
           /\ IF host[h].stopping
              THEN host' = [host EXCEPT ![h].pump = FALSE] /\ UNCHANGED <<row, inv>> /\ bad = {}
              ELSE /\ row' = end.rows /\ inv' = end.invs
                   /\ host' = [host EXCEPT ![h].pump = FALSE, ![h].queue = end.queue,
                                           ![h].scheduled = end.scheduled, ![h].retry = end.retry]
           /\ IF bad = {} THEN UNCHANGED faults ELSE Strikes
  BY DEF Pump
<1>2. faults' \in 0 .. MaxFaults
  BY <1>1 DEF Strikes, ServiceInv, ServiceType
<1>3. host[h] \in Process /\ Sound(host[h], Active(h)) /\ host \in [Hosts -> Process]
  BY DEF ServiceInv, ServiceType
<1>4. CASE host[h].stopping
  <2> DEFINE p == [host[h] EXCEPT !.pump = FALSE]
  <2>1. host' = [host EXCEPT ![h] = p] /\ UNCHANGED <<row, inv>>
    BY <1>1, <1>4
  <2>2. p \in Process /\ Sound(p, Active(h))
    BY <1>1, <1>3, <1>4 DEF Process, Sound
  <2>3. \A k \in Hosts : Active(k)' = Active(k)
    BY <2>1 DEF Active
  <2> HIDE DEF p
  <2>4. host' \in [Hosts -> Process] /\ \A k \in Hosts : Sound(host'[k], Active(k)')
    BY <2>1, <2>2, <2>3, ProcessStep
  <2> QED BY <1>2, <2>1, <2>4 DEF ServiceInv, ServiceType, Told, Sound
<1>5. CASE ~host[h].stopping
  <2> DEFINE q == host[h].queue
             end == Passed(h, bad)
             p == [host[h] EXCEPT !.pump = FALSE, !.queue = end.queue,
                                  !.scheduled = end.scheduled, !.retry = end.retry]
  <2>1. row' = end.rows /\ inv' = end.invs /\ host' = [host EXCEPT ![h] = p]
    BY <1>1, <1>3, <1>5
  <2>2. Where(h, q, Len(q), end)
    BY <1>1, PassKeeps
  <2> HIDE DEF end
  <2>3. {q[i] : i \in Len(q) + 1 .. Len(q)} = {}
    BY <1>3 DEF Process
  <2>4. {k \in Runs : end.invs[h][k].pc # "none"} = Active(h)'
    BY <2>1 DEF Active
  <2> DEFINE a == Active(h)'
  <2>5. /\ end \in [rows : Rows, invs : [Hosts -> [Runs -> Invocation]], queue : Seq(Runs),
                    retry : BOOLEAN, scheduled : SUBSET Runs]
        /\ \A k \in Hosts, r \in Runs : Told(end.invs[k][r])
        /\ \A k \in Hosts \ {h}, r \in Runs : end.invs[k][r].pc = inv[k][r].pc
        /\ end.scheduled = Range(end.queue) \cup a
        /\ IsInjective(end.queue) /\ Range(end.queue) \cap a = {}
        /\ end.queue # <<>> => end.retry \/ a # {}
    <3> HIDE DEF q, a
    <3> QED BY <2>2, <2>3, <2>4 DEF Where, a
  <2>6. p \in Process /\ p.up /\ ~p.stopping /\ p.queue = end.queue
        /\ p.scheduled = end.scheduled /\ p.retry = end.retry
    BY <1>1, <1>3, <1>5, <2>5 DEF Process
  <2> HIDE DEF p, q
  <2>7. Sound(p, a)
    BY <2>5, <2>6 DEF Sound
  <2>8. \A k \in Hosts \ {h} : Active(k)' = Active(k)
    BY <2>1, <2>5 DEF Active
  <2>9. host' \in [Hosts -> Process] /\ \A k \in Hosts : Sound(host'[k], Active(k)')
    BY <2>1, <2>6, <2>7, <2>8, ProcessStep
  <2>10. \A k \in Hosts, r \in Runs : Told(inv'[k][r])
    BY <2>1, <2>5
  <2> HIDE DEF a
  <2> QED BY <1>2, <2>1, <2>5, <2>9, <2>10 DEF ServiceInv, ServiceType, Told, Sound
<1> QED BY <1>4, <1>5

\* The parts of the invariant after a step.
LEMMA ServiceInvAfter ==
  ASSUME row' \in Rows, inv' \in [Hosts -> [Runs -> Invocation]], faults' \in 0 .. MaxFaults,
         host' \in [Hosts -> Process], \A h \in Hosts : Sound(host'[h], Active(h)'),
         \A h \in Hosts, r \in Runs : Told(inv'[h][r])
  PROVE  ServiceInv'
BY DEF ServiceInv, ServiceType, Sound, Told

\* Steps of one process that execute nothing.
LEMMA LocalStep ==
  ASSUME ServiceInv, NEW h \in Hosts, NEW p \in Process, host' = [host EXCEPT ![h] = p],
         Sound(p, Active(h)), row' \in Rows, faults' \in 0 .. MaxFaults, UNCHANGED inv
  PROVE  ServiceInv'
<1>1. \A k \in Hosts : Active(k)' = Active(k)
  BY DEF Active
<1>2. host' \in [Hosts -> Process] /\ \A k \in Hosts : Sound(host'[k], Active(k)')
  BY <1>1, ProcessStep
<1>3. inv' \in [Hosts -> [Runs -> Invocation]] /\ \A k \in Hosts, r \in Runs : Told(inv'[k][r])
  BY DEF ServiceInv, ServiceType
<1> QED BY <1>2, <1>3, ServiceInvAfter

\* Steps of an invocation that the process does not notice.
LEMMA RunnerStep ==
  ASSUME ServiceInv, NEW h \in Hosts, NEW r \in Runs, NEW i \in Invocation, Told(i),
         i.pc # "none", inv[h][r].pc # "none", inv' = [inv EXCEPT ![h][r] = i],
         row' \in Rows, faults' \in 0 .. MaxFaults,
         \/ host' = host
         \/ \E woken \in SUBSET Runs : host' = [host EXCEPT ![h].wake = woken]
  PROVE  ServiceInv'
<1>1. /\ inv' \in [Hosts -> [Runs -> Invocation]]
      /\ \A k \in Hosts, x \in Runs : Told(inv[k][x])'
      /\ \A k \in Hosts \ {h} : Active(k)' = Active(k)
      /\ Active(h)' = Active(h)
  <2>1. Active(h) \cup {r} = Active(h)
    BY DEF Active
  <2>2. Active(h)' = Active(h) \cup {r}
    BY InvocationStep
  <2> QED BY <2>1, <2>2, InvocationStep
<1>2. host \in [Hosts -> Process] /\ \A k \in Hosts : Sound(host[k], Active(k))
  BY DEF ServiceInv, ServiceType
<1>3. host' \in [Hosts -> Process] /\ \A k \in Hosts : Sound(host'[k], Active(k)')
  <2>1. CASE host' = host
    BY <1>1, <1>2, <2>1
  <2>2. CASE \E woken \in SUBSET Runs : host' = [host EXCEPT ![h].wake = woken]
    <3>1. PICK woken \in SUBSET Runs : host' = [host EXCEPT ![h].wake = woken]
      BY <2>2
    <3> DEFINE p == [host[h] EXCEPT !.wake = woken]
    <3>2. host' = [host EXCEPT ![h] = p]
      BY <3>1
    <3>3. Active(h) # {}
      BY DEF Active
    <3>4. host[h].up
      BY <1>2, <3>3 DEF Sound
    <3>5. p \in Process
      BY <1>2 DEF Process
    <3>6. Sound(p, Active(h)')
      <4>1. host[h] \in Process /\ Sound(host[h], Active(h))
        BY <1>2
      <4>2. /\ p.up = host[h].up /\ p.stopping = host[h].stopping /\ p.queue = host[h].queue
            /\ p.scheduled = host[h].scheduled /\ p.pump = host[h].pump
            /\ p.retry = host[h].retry
        BY <4>1 DEF Process
      <4> HIDE DEF p
      <4> QED BY <1>1, <3>4, <4>1, <4>2 DEF Sound
    <3> HIDE DEF p
    <3> QED BY <1>1, <3>2, <3>5, <3>6, ProcessStep
  <2> QED BY <2>1, <2>2
<1>4. \A k \in Hosts, x \in Runs : Told(inv'[k][x])
  BY <1>1 DEF Told
<1> QED BY <1>1, <1>3, <1>4, ServiceInvAfter

\* So does the retry timer.
LEMMA RetryInv ==
  ASSUME ServiceInv, NEW h \in Hosts, RetryFires(h)
  PROVE  ServiceInv'
<1>1. /\ host[h] \in Process /\ Sound(host[h], Active(h)) /\ host \in [Hosts -> Process]
      /\ row \in Rows /\ faults \in 0 .. MaxFaults
  BY DEF ServiceInv, ServiceType
<1> DEFINE p == [host[h] EXCEPT !.retry = FALSE, !.pump = TRUE]
<1>2. host' = [host EXCEPT ![h] = p] /\ UNCHANGED <<row, inv, faults>> /\ host[h].retry
  BY DEF RetryFires
<1>3. host[h].up
  BY <1>1, <1>2 DEF Sound, Down
<1>4. p \in Process /\ p.up /\ p.queue = host[h].queue /\ p.scheduled = host[h].scheduled
      /\ p.pump /\ p.stopping = host[h].stopping
  BY <1>1, <1>3 DEF Process
<1> HIDE DEF p
<1>5. Sound(p, Active(h))
  BY <1>1, <1>3, <1>4 DEF Sound
<1> QED BY <1>1, <1>2, <1>4, <1>5, LocalStep

\* So does a delayed wake-up.
LEMMA WakeInv ==
  ASSUME ServiceInv, NEW h \in Hosts, NEW r \in Runs, WakeFires(h, r)
  PROVE  ServiceInv'
<1>1. /\ host[h] \in Process /\ Sound(host[h], Active(h)) /\ host \in [Hosts -> Process]
      /\ row \in Rows /\ faults \in 0 .. MaxFaults
  BY DEF ServiceInv, ServiceType
<1> DEFINE p == [host[h] EXCEPT !.wake = @ \ {r}]
<1>2. UNCHANGED <<row, inv, faults>> /\ r \in host[h].wake
  BY DEF WakeFires
<1>3. host' = [host EXCEPT ![h] = Woken(h, p, r)]
  BY DEF WakeFires
<1>4. p \in Process /\ p.up /\ Sound(p, Active(h))
  <2>1. host[h].up
    BY <1>1, <1>2 DEF Sound, Down
  <2>2. /\ p \in Process /\ p.up /\ p.stopping = host[h].stopping
        /\ p.queue = host[h].queue /\ p.scheduled = host[h].scheduled
        /\ p.pump = host[h].pump /\ p.retry = host[h].retry
    BY <1>1, <2>1 DEF Process
  <2> HIDE DEF p
  <2> QED BY <1>1, <2>1, <2>2 DEF Sound
<1> HIDE DEF p
<1>5. Woken(h, p, r) \in Process /\ Sound(Woken(h, p, r), Active(h))
  BY <1>4, WokenSound
<1> QED BY <1>1, <1>2, <1>3, <1>5, LocalStep

\* The row after its owner, its heartbeat or its phase changed.
LEMMA RowStep ==
  ASSUME row \in Rows, NEW r \in Runs
  PROVE  /\ \A w \in [phase : Phases, owner : Hosts \cup {NoHost}, fresh : BOOLEAN] :
              [row EXCEPT ![r] = w] \in Rows
         /\ row[r] \in [phase : Phases, owner : Hosts \cup {NoHost}, fresh : BOOLEAN]
BY DEF Rows

\* The runner's steps and its return: the invocation stays until the finally block.
LEMMA SettlesInv ==
  ASSUME ServiceInv, NEW h \in Hosts, NEW r \in Runs,
         \/ RunnerMoves(h, r) \/ SettlesLost(h, r) \/ SettlesDone(h, r)
         \/ SettlesFailed(h, r) \/ SettlesYielding(h, r)
  PROVE  ServiceInv'
<1> DEFINE W == [phase : Phases, owner : Hosts \cup {NoHost}, fresh : BOOLEAN]
           i == [inv[h][r] EXCEPT !.pc = "settled"]
           j == [inv[h][r] EXCEPT !.pc = "settled", !.beat = FALSE]
<1>1. /\ row \in Rows /\ faults \in 0 .. MaxFaults /\ inv[h][r] \in Invocation
      /\ inv \in [Hosts -> [Runs -> Invocation]] /\ Told(inv[h][r])
  BY DEF ServiceInv, ServiceType
<1>2. row[r] \in W /\ \A w \in W : [row EXCEPT ![r] = w] \in Rows
  BY <1>1, RowStep
<1>3. {i, j} \subseteq Invocation /\ Told(i) /\ Told(j) /\ i.pc = "settled" /\ j.pc = "settled"
  BY <1>1 DEF Invocation, Told
<1>4. Released(h, r) \in W
  BY <1>2 DEF Released
<1>5. CASE RunnerMoves(h, r)
  <2>1. row' \in Rows
    <3>1. PICK to \in {"paused", "over"} : row' = [row EXCEPT ![r].phase = to]
      BY <1>5 DEF RunnerMoves
    <3>2. [row[r] EXCEPT !.phase = to] \in W
      BY <1>2 DEF Phases
    <3>3. row' = [row EXCEPT ![r] = [row[r] EXCEPT !.phase = to]]
      BY <3>1
    <3> HIDE DEF W
    <3> QED BY <1>2, <3>2, <3>3
  <2>2. UNCHANGED <<inv, host, faults>> /\ inv' = [inv EXCEPT ![h][r] = inv[h][r]]
        /\ inv[h][r].pc # "none"
    BY <1>1, <1>5 DEF RunnerMoves
  <2> QED BY <1>1, <2>1, <2>2, RunnerStep
<1>6. CASE SettlesLost(h, r)
  <2>1. inv' = [inv EXCEPT ![h][r] = i] /\ UNCHANGED <<row, host, faults>>
        /\ inv[h][r].pc # "none"
    BY <1>1, <1>6 DEF SettlesLost
  <2> HIDE DEF i
  <2> QED BY <1>1, <1>3, <2>1, RunnerStep
<1>7. Ends(h, r) => inv' = [inv EXCEPT ![h][r] = j]
  BY <1>1 DEF Ends
<1>8. CASE SettlesDone(h, r)
  <2>1. Ends(h, r) /\ row' = [row EXCEPT ![r] = Released(h, r)] /\ UNCHANGED <<host, faults>>
        /\ inv[h][r].pc # "none"
    BY <1>8 DEF SettlesDone
  <2> HIDE DEF j, W
  <2>2. row' \in Rows
    BY <1>2, <1>4, <2>1
  <2> QED BY <1>1, <1>3, <1>7, <2>1, <2>2, RunnerStep
<1>9. CASE SettlesFailed(h, r)
  <2>1. Ends(h, r) /\ row' = [row EXCEPT ![r] = [Released(h, r) EXCEPT !.phase = "paused"]]
        /\ UNCHANGED <<host, faults>> /\ inv[h][r].pc # "none"
    BY <1>9 DEF SettlesFailed
  <2>2. [Released(h, r) EXCEPT !.phase = "paused"] \in W
    BY <1>4 DEF Phases
  <2> HIDE DEF j, W
  <2>3. row' \in Rows
    BY <1>2, <2>1, <2>2
  <2> QED BY <1>1, <1>3, <1>7, <2>1, <2>3, RunnerStep
<1>10. CASE SettlesYielding(h, r)
  <2>1. Ends(h, r) /\ row' = [row EXCEPT ![r] = Released(h, r)] /\ faults' \in 0 .. MaxFaults
        /\ inv[h][r].pc # "none"
    BY <1>1, <1>10 DEF SettlesYielding, Strikes
  <2>2. \E woken \in SUBSET Runs : host' = [host EXCEPT ![h].wake = woken]
    <3>1. host' = [host EXCEPT ![h].wake = @ \cup {r}] /\ host[h].wake \cup {r} \in SUBSET Runs
      BY <1>10 DEF SettlesYielding, ServiceInv, ServiceType, Process
    <3> QED BY <3>1
  <2> HIDE DEF j, W
  <2>3. row' \in Rows
    BY <1>2, <1>4, <2>1
  <2> QED BY <1>1, <1>3, <1>7, <2>1, <2>2, <2>3, RunnerStep
<1> QED BY <1>5, <1>6, <1>8, <1>9, <1>10

\* A heartbeat and the end of a grace period: a lost lease is told at once.
LEMMA BeatInv ==
  ASSUME ServiceInv, NEW h \in Hosts, NEW r \in Runs, Heartbeat(h, r) \/ GraceEnds(h, r)
  PROVE  ServiceInv'
<1>1. /\ row \in Rows /\ faults \in 0 .. MaxFaults /\ inv[h][r] \in Invocation
      /\ inv \in [Hosts -> [Runs -> Invocation]] /\ Told(inv[h][r])
  BY DEF ServiceInv, ServiceType
<1>2. CASE Heartbeat(h, r)
  <2>1. inv[h][r].pc # "none" /\ UNCHANGED <<host, faults>>
    BY <1>2 DEF Heartbeat
  <2>2. CASE row' = [row EXCEPT ![r].fresh = TRUE] /\ UNCHANGED inv
    <3>1. row' \in Rows
      BY <1>1, <2>2 DEF Rows
    <3>2. inv' = [inv EXCEPT ![h][r] = inv[h][r]]
      BY <1>1, <2>2
    <3> QED BY <1>1, <2>1, <3>1, <3>2, RunnerStep
  <2>3. CASE inv' = [inv EXCEPT ![h][r] = LosesLease(@)] /\ UNCHANGED row
    <3> DEFINE i == LosesLease(inv[h][r])
    <3>1. i \in Invocation /\ Told(i) /\ i.pc = inv[h][r].pc
      BY <1>1 DEF LosesLease, Invocation, Told
    <3>2. inv' = [inv EXCEPT ![h][r] = i]
      BY <1>1, <2>3
    <3> HIDE DEF i
    <3> QED BY <1>1, <2>1, <2>3, <3>1, <3>2, RunnerStep
  <2> QED BY <1>2, <2>2, <2>3 DEF Heartbeat
<1>3. CASE GraceEnds(h, r)
  <2> DEFINE i == [inv[h][r] EXCEPT !.grace = FALSE, !.aborted = TRUE]
  <2>1. i \in Invocation /\ Told(i) /\ i.pc = inv[h][r].pc
    BY <1>1 DEF Invocation, Told
  <2>2. inv' = [inv EXCEPT ![h][r] = i] /\ UNCHANGED <<row, host, faults>>
    BY <1>1, <1>3 DEF GraceEnds
  <2>3. \A k \in Hosts : Active(k)' = Active(k)
    BY <1>1, <2>1, <2>2 DEF Active
  <2> HIDE DEF i
  <2>4. /\ inv' \in [Hosts -> [Runs -> Invocation]]
        /\ \A k \in Hosts, x \in Runs : Told(inv[k][x])'
    BY <2>1, <2>2, InvocationStep
  <2>5. host' \in [Hosts -> Process] /\ \A k \in Hosts : Sound(host'[k], Active(k)')
    BY <2>2, <2>3, QuietStep
  <2>6. \A k \in Hosts, x \in Runs : Told(inv'[k][x])
    BY <2>4 DEF Told
  <2> QED BY <1>1, <2>2, <2>4, <2>5, <2>6, ServiceInvAfter
<1> QED BY <1>2, <1>3

\* The finally block frees the run, and queues it again when it was woken meanwhile.
LEMMA FinallyInv ==
  ASSUME ServiceInv, NEW h \in Hosts, NEW r \in Runs, Finally(h, r)
  PROVE  ServiceInv'
<1> DEFINE freed == [host[h] EXCEPT !.scheduled = @ \ {r}, !.again = @ \ {r}]
           next == IF r \in host[h].again THEN Scheduled(freed, r) ELSE freed
           p == IF next.stopping THEN next ELSE [next EXCEPT !.pump = TRUE]
           a == Active(h) \ {r}
<1>1. /\ row \in Rows /\ faults \in 0 .. MaxFaults /\ host[h] \in Process
      /\ inv \in [Hosts -> [Runs -> Invocation]] /\ Sound(host[h], Active(h))
      /\ a \in SUBSET Runs
  BY DEF ServiceInv, ServiceType, Active
<1>2. /\ r \in Active(h) /\ host' = [host EXCEPT ![h] = p] /\ UNCHANGED <<row, faults>>
      /\ inv' = [inv EXCEPT ![h][r] = NoInvocation]
  BY DEF Finally, Active
<1>3. NoInvocation \in Invocation /\ Told(NoInvocation) /\ NoInvocation.pc = "none"
  BY DEF NoInvocation, Invocation, Told
<1>4. /\ inv' \in [Hosts -> [Runs -> Invocation]]
      /\ \A k \in Hosts, x \in Runs : Told(inv[k][x])'
      /\ \A k \in Hosts \ {h} : Active(k)' = Active(k)
      /\ Active(h)' = IF NoInvocation.pc = "none" THEN Active(h) \ {r} ELSE Active(h) \cup {r}
  BY <1>2, <1>3, InvocationStep
<1>5. Active(h)' = a
  BY <1>3, <1>4
<1>6. host[h].up
  BY <1>1, <1>2 DEF Sound
<1>7. /\ freed \in Process /\ freed.up /\ freed.stopping = host[h].stopping
      /\ freed.queue = host[h].queue /\ freed.scheduled = host[h].scheduled \ {r}
  BY <1>1, <1>6 DEF Process
<1> HIDE DEF freed
<1>8. freed.stopping => Sound(freed, a)
  BY <1>1, <1>2, <1>6, <1>7 DEF Sound
<1> DEFINE pumped == [freed EXCEPT !.pump = TRUE]
<1>9. pumped \in Process /\ pumped.up /\ Sound(pumped, a)
  <2>1. /\ pumped \in Process /\ pumped.up /\ pumped.stopping = freed.stopping /\ pumped.pump
        /\ pumped.queue = freed.queue /\ pumped.scheduled = freed.scheduled
    BY <1>7 DEF Process
  <2> HIDE DEF pumped
  <2> QED BY <1>1, <1>2, <1>6, <1>7, <2>1 DEF Sound
<1>10. CASE freed.stopping
  <2>1. Scheduled(freed, r) = freed /\ p = freed
    BY <1>10 DEF Scheduled
  <2> HIDE DEF p, next, a
  <2>2. Sound(p, Active(h)') /\ p \in Process
    BY <1>5, <1>7, <1>8, <1>10, <2>1
  <2> HIDE DEF next, p, a
  <2>3. host' \in [Hosts -> Process] /\ \A k \in Hosts : Sound(host'[k], Active(k)')
    BY <1>2, <1>4, <2>2, ProcessStep
  <2>4. \A k \in Hosts, x \in Runs : Told(inv'[k][x])
    BY <1>4 DEF Told
  <2> QED BY <1>1, <1>2, <1>4, <2>3, <2>4, ServiceInvAfter
<1>11. CASE ~freed.stopping
  <2>1. p \in Process /\ Sound(p, a)
    <3>1. CASE r \in host[h].again
      <4>1. r \in Runs /\ IsInjective(freed.queue) /\ r \notin Range(freed.queue)
            /\ freed.queue \in Seq(Runs)
        BY <1>1, <1>2, <1>6, <1>7 DEF Sound, Process
      <4>2. /\ Append(freed.queue, r) \in Seq(Runs) /\ IsInjective(Append(freed.queue, r))
            /\ Range(Append(freed.queue, r)) = Range(freed.queue) \cup {r}
        BY <4>1, QueueGrows, Zenon
      <4>3. next = [freed EXCEPT !.scheduled = @ \cup {r}, !.queue = Append(@, r), !.pump = TRUE]
        BY <1>7, <1>11, <3>1 DEF Scheduled
      <4> HIDE DEF next
      <4>4. /\ next \in Process /\ next.up /\ ~next.stopping /\ next.pump
            /\ next.queue = Append(freed.queue, r)
            /\ next.scheduled = freed.scheduled \cup {r}
        BY <1>7, <1>11, <4>2, <4>3 DEF Process
      <4>5. /\ p \in Process /\ p.up /\ ~p.stopping /\ p.pump
            /\ p.queue = Append(freed.queue, r) /\ p.scheduled = freed.scheduled \cup {r}
        BY <4>4 DEF Process
      <4> HIDE DEF p
      <4> QED BY <1>1, <1>2, <1>6, <1>7, <4>2, <4>5 DEF Sound
    <3>2. CASE r \notin host[h].again
      <4>1. p = pumped
        BY <1>11, <3>2
      <4> HIDE DEF p, pumped, a
      <4> QED BY <1>9, <4>1
    <3> QED BY <3>1, <3>2
  <2> HIDE DEF p, next, pumped, a
  <2>2. Sound(p, Active(h)')
    BY <1>5, <2>1
  <2>3. host' \in [Hosts -> Process] /\ \A k \in Hosts : Sound(host'[k], Active(k)')
    BY <1>2, <1>4, <2>1, <2>2, ProcessStep
  <2>4. \A k \in Hosts, x \in Runs : Told(inv'[k][x])
    BY <1>4 DEF Told
  <2> QED BY <1>1, <1>2, <1>4, <2>3, <2>4, ServiceInvAfter
<1> QED BY <1>10, <1>11

\* A submission and a resumption.
LEMMA RequestsInv ==
  ASSUME ServiceInv, NEW h \in Hosts, NEW r \in Runs, Submit(h, r) \/ ResumeRun(h, r)
  PROVE  ServiceInv'
<1> DEFINE W == [phase : Phases, owner : Hosts \cup {NoHost}, fresh : BOOLEAN]
<1>1. /\ row \in Rows /\ faults \in 0 .. MaxFaults /\ host[h] \in Process
      /\ inv \in [Hosts -> [Runs -> Invocation]] /\ Sound(host[h], Active(h))
      /\ \A k \in Hosts, x \in Runs : Told(inv[k][x])
  BY DEF ServiceInv, ServiceType
<1>2. row[r] \in W /\ \A w \in W : [row EXCEPT ![r] = w] \in Rows
  BY <1>1, RowStep
<1>3. CASE Submit(h, r)
  <2>1. row' \in Rows
    <3> DEFINE w == [row[r] EXCEPT !.phase = IF @ = "absent" THEN "due" ELSE @]
    <3>1. row' = [row EXCEPT ![r] = w]
      BY <1>3 DEF Submit
    <3>2. w \in W
      BY <1>2 DEF Phases
    <3> HIDE DEF w, W
    <3> QED BY <1>2, <3>1, <3>2
  <2>2. faults' \in 0 .. MaxFaults
    BY <1>1, <1>3 DEF Submit, Strikes
  <2>3. /\ host' = [host EXCEPT ![h] = Scheduled(host[h], r)] /\ host[h].up /\ UNCHANGED inv
        /\ r \notin host[h].scheduled
    BY <1>3 DEF Submit
  <2>4. r \in Runs \ Active(h) /\ Active(h) \in SUBSET Runs
    BY <1>1, <2>3 DEF Sound, Active
  <2>5. Scheduled(host[h], r) \in Process /\ Sound(Scheduled(host[h], r), Active(h))
    BY <1>1, <2>3, <2>4, ScheduledSound
  <2> QED BY <2>1, <2>2, <2>3, <2>5, LocalStep
<1>4. CASE ResumeRun(h, r)
  <2>1. row' \in Rows
    <3> DEFINE w == [phase |-> "due", owner |-> NoHost, fresh |-> FALSE]
    <3>1. row' = [row EXCEPT ![r] = w] /\ w \in W
      BY <1>4 DEF ResumeRun, Phases
    <3> HIDE DEF w, W
    <3> QED BY <1>2, <3>1
  <2>2. faults' \in 0 .. MaxFaults
    BY <1>1, <1>4 DEF ResumeRun, Strikes
  <2>3. /\ host' = [host EXCEPT ![h] = Woken(h, host[h], r)] /\ host[h].up
        /\ inv' = [Unfenced(r) EXCEPT ![h][r].aborted = @ \/ r \in Active(h)]
    BY <1>4, Zenon DEF ResumeRun
  <2>4. Woken(h, host[h], r) \in Process /\ Sound(Woken(h, host[h], r), Active(h))
    BY <1>1, <2>3, WokenSound
  <2> DEFINE u == Unfenced(r)
             i == [u[h][r] EXCEPT !.aborted = @ \/ r \in Active(h)]
  <2>5. /\ u \in [Hosts -> [Runs -> Invocation]]
        /\ \A k \in Hosts, x \in Runs : SameSignals(u[k][x], inv[k][x])
    BY FenceStep
  <2> HIDE DEF u
  <2>6. inv' = [u EXCEPT ![h][r] = i]
    BY <2>3, <2>5 DEF u
  <2>7. \A k \in Hosts, x \in Runs : Told(u[k][x]) /\ u[k][x].pc = inv[k][x].pc
    BY <1>1, <2>5 DEF Told, SameSignals
  <2>8. i \in Invocation /\ Told(i) /\ i.pc = inv[h][r].pc
    <3>1. u[h][r] \in Invocation /\ Told(u[h][r]) /\ u[h][r].pc = inv[h][r].pc
      BY <2>5, <2>7
    <3> QED BY <3>1 DEF Invocation, Told
  <2> HIDE DEF i
  <2>9. inv' \in [Hosts -> [Runs -> Invocation]]
    BY <2>5, <2>6, <2>8
  <2>10. \A k \in Hosts, x \in Runs : Told(inv'[k][x]) /\ inv'[k][x].pc = inv[k][x].pc
    BY <2>5, <2>6, <2>7, <2>8
  <2>11. \A k \in Hosts : Active(k)' = Active(k)
    BY <2>10 DEF Active
  <2>12. Sound(Woken(h, host[h], r), Active(h)')
    BY <2>4, <2>11
  <2>13. host' \in [Hosts -> Process] /\ \A k \in Hosts : Sound(host'[k], Active(k)')
    BY <2>3, <2>4, <2>11, <2>12, ProcessStep
  <2> QED BY <2>1, <2>2, <2>9, <2>10, <2>13, ServiceInvAfter
<1> QED BY <1>3, <1>4

\* A cancellation: the running invocation is aborted or gets a grace period.
LEMMA CancelInv ==
  ASSUME ServiceInv, NEW h \in Hosts, NEW r \in Runs, NEW graceful \in BOOLEAN,
         Cancel(h, r, graceful)
  PROVE  ServiceInv'
<1> DEFINE fresh == row[r].phase \in {"due", "paused"}
           is == IF fresh THEN Unfenced(r) ELSE inv
           p == [host[h] EXCEPT !.wake = @ \ {r}]
<1>1. /\ row \in Rows /\ faults \in 0 .. MaxFaults /\ host[h] \in Process
      /\ inv \in [Hosts -> [Runs -> Invocation]] /\ Sound(host[h], Active(h))
      /\ \A k \in Hosts, x \in Runs : Told(inv[k][x])
  BY DEF ServiceInv, ServiceType
<1>2. row' \in Rows
  <2> DEFINE w == [phase |-> "cancel", owner |-> NoHost, fresh |-> FALSE]
  <2>1. row' \in {row, [row EXCEPT ![r] = w]}
    BY DEF Cancel
  <2>2. w \in [phase : Phases, owner : Hosts \cup {NoHost}, fresh : BOOLEAN]
    BY DEF Phases
  <2> HIDE DEF w
  <2> QED BY <1>1, <2>1, <2>2, RowStep
<1>3. faults' \in 0 .. MaxFaults /\ host[h].up
  BY <1>1 DEF Cancel, Strikes
<1>4. p \in Process /\ p.up /\ Sound(p, Active(h))
  <2>1. /\ p \in Process /\ p.up /\ p.stopping = host[h].stopping
        /\ p.queue = host[h].queue /\ p.scheduled = host[h].scheduled
        /\ p.pump = host[h].pump /\ p.retry = host[h].retry
    BY <1>1, <1>3 DEF Process
  <2> HIDE DEF p
  <2> QED BY <1>1, <1>3, <2>1 DEF Sound
<1>5. is \in [Hosts -> [Runs -> Invocation]]
  BY <1>1, FenceStep
<1>6. \A k \in Hosts, x \in Runs : Told(is[k][x]) /\ is[k][x].pc = inv[k][x].pc
  <2>1. CASE ~fresh
    BY <1>1, <2>1
  <2>2. CASE fresh
    <3>1. is = Unfenced(r)
      BY <2>2
    <3> HIDE DEF is, fresh
    <3> QED BY <1>1, <3>1, FenceStep DEF Told, SameSignals
  <2> QED BY <2>1, <2>2
<1>7. CASE r \in Active(h)
  <2> DEFINE b == [p EXCEPT !.again = @ \cup {r}]
             i == [is[h][r] EXCEPT !.lost = TRUE, !.beat = FALSE, !.grace = graceful,
                                   !.aborted = @ \/ ~graceful]
  <2>1. host' = [host EXCEPT ![h] = b]
    BY <1>7 DEF Cancel
  <2>2. inv' = [is EXCEPT ![h][r] = i]
    BY <1>7 DEF Cancel
  <2> HIDE DEF is
  <2>4. i \in Invocation /\ Told(i) /\ i.pc = inv[h][r].pc
    <3>1. is[h][r] \in Invocation /\ is[h][r].pc = inv[h][r].pc
      BY <1>5, <1>6
    <3> QED BY <3>1 DEF Invocation, Told
  <2> HIDE DEF i
  <2>5. inv' \in [Hosts -> [Runs -> Invocation]]
    BY <1>5, <2>2, <2>4
  <2>6. \A k \in Hosts, x \in Runs : Told(inv'[k][x]) /\ inv'[k][x].pc = inv[k][x].pc
    BY <1>5, <1>6, <2>2, <2>4
  <2>7. \A k \in Hosts : Active(k)' = Active(k)
    BY <2>6 DEF Active
  <2> HIDE DEF p
  <2>8. b \in Process /\ Sound(b, Active(h))
    <3>1. /\ b \in Process /\ b.up /\ b.stopping = p.stopping
          /\ b.queue = p.queue /\ b.scheduled = p.scheduled
          /\ b.pump = p.pump /\ b.retry = p.retry
      BY <1>4 DEF Process
    <3> HIDE DEF b
    <3> QED BY <1>4, <3>1 DEF Sound
  <2> HIDE DEF b
  <2>9. Sound(b, Active(h)')
    BY <2>7, <2>8
  <2>10. host' \in [Hosts -> Process] /\ \A k \in Hosts : Sound(host'[k], Active(k)')
    BY <2>1, <2>7, <2>8, <2>9, ProcessStep
  <2> QED BY <1>2, <1>3, <2>5, <2>6, <2>10, ServiceInvAfter
<1>8. CASE r \notin Active(h)
  <2>1. host' = [host EXCEPT ![h] = Scheduled(p, r)] /\ inv' = is
    BY <1>8 DEF Cancel
  <2> HIDE DEF is, p
  <2>2. \A k \in Hosts : Active(k)' = Active(k)
    BY <1>6, <2>1 DEF Active
  <2>3. Active(h) \in SUBSET Runs
    BY DEF Active
  <2>4. Scheduled(p, r) \in Process /\ Sound(Scheduled(p, r), Active(h))
    BY <1>4, <1>8, <2>3, ScheduledSound
  <2>5. Sound(Scheduled(p, r), Active(h)')
    BY <2>2, <2>4
  <2>6. host' \in [Hosts -> Process] /\ \A k \in Hosts : Sound(host'[k], Active(k)')
    BY <2>1, <2>2, <2>4, <2>5, ProcessStep
  <2> QED BY <1>2, <1>3, <1>5, <1>6, <2>1, <2>6, ServiceInvAfter
<1> QED BY <1>7, <1>8

\* A process starts, is asked to stop, leaves or dies.
LEMMA LifeInv ==
  ASSUME ServiceInv, NEW h \in Hosts, Start(h) \/ Stop(h) \/ HostExit(h) \/ HostCrash(h)
  PROVE  ServiceInv'
<1>1. /\ row \in Rows /\ faults \in 0 .. MaxFaults /\ host[h] \in Process
      /\ inv \in [Hosts -> [Runs -> Invocation]] /\ Sound(host[h], Active(h))
      /\ \A k \in Hosts, x \in Runs : Told(inv[k][x])
  BY DEF ServiceInv, ServiceType
<1>2. Down \in Process /\ Sound(Down, {})
  BY DEF Down, Process, Sound
<1>3. CASE Start(h)
  <2> DEFINE known == {r \in Runs : ~Terminal(r)}
  <2>1. PICK queue \in [1 .. Cardinality(known) -> known] :
          /\ \A i, j \in DOMAIN queue : i < j => queue[i] < queue[j]
          /\ ~host[h].up
          /\ host' = [host EXCEPT ![h] = [Down EXCEPT !.up = TRUE, !.queue = queue,
                                         !.scheduled = Range(queue), !.pump = queue # <<>>]]
          /\ UNCHANGED <<row, inv, faults>>
    BY <1>3 DEF Start
  <2>2. Cardinality(known) \in Nat
    BY FS_Subset, FS_CardinalityType
  <2>3. \A i \in DOMAIN queue : queue[i] \in Runs /\ queue[i] \in Nat
    OBVIOUS
  <2>4. queue \in Seq(Runs) /\ DOMAIN queue \subseteq Nat
    <3> DEFINE n == Cardinality(known)
    <3>1. queue \in [1 .. n -> Runs] /\ n \in Nat
      BY <2>1, <2>2
    <3> HIDE DEF n, known
    <3>2. queue \in Seq(Runs)
      BY <3>1 DEF Seq
    <3> QED BY <3>1, <3>2
  <2> HIDE DEF known
  <2>5. IsInjective(queue)
    <3> SUFFICES ASSUME NEW i \in DOMAIN queue, NEW j \in DOMAIN queue, queue[i] = queue[j]
                 PROVE  i = j
      BY DEF IsInjective
    <3>1. ~ (i < j) /\ ~ (j < i)
      BY <2>1, <2>3
    <3>2. i \in Nat /\ j \in Nat
      BY <2>4
    <3> QED BY <3>1, <3>2
  <2>6. Range(queue) \in SUBSET Runs
    BY <2>3 DEF Range
  <2> DEFINE p == [Down EXCEPT !.up = TRUE, !.queue = queue, !.scheduled = Range(queue),
                               !.pump = queue # <<>>]
  <2>7. p \in Process /\ p.up /\ ~p.stopping /\ p.queue = queue /\ p.scheduled = Range(queue)
        /\ p.pump = (queue # <<>>)
    BY <2>4, <2>6 DEF Down, Process
  <2>8. Active(h) = {}
    BY <1>1, <2>1 DEF Sound
  <2> HIDE DEF p
  <2>9. Sound(p, Active(h))
    BY <2>5, <2>7, <2>8 DEF Sound
  <2>10. host' = [host EXCEPT ![h] = p] /\ row' \in Rows /\ faults' \in 0 .. MaxFaults
    BY <1>1, <2>1 DEF p
  <2> QED BY <2>1, <2>7, <2>9, <2>10, LocalStep
<1>4. CASE Stop(h)
  <2> DEFINE p == [host[h] EXCEPT !.stopping = TRUE, !.retry = FALSE, !.wake = {},
                                  !.queue = <<>>, !.again = {}, !.scheduled = Active(h)]
  <2>1. host' = [host EXCEPT ![h] = p] /\ UNCHANGED <<row, inv>> /\ host[h].up
        /\ faults' \in 0 .. MaxFaults
    BY <1>1, <1>4 DEF Stop, Strikes
  <2>2. Active(h) \in SUBSET Runs /\ <<>> \in Seq(Runs)
    BY DEF Active
  <2>3. p \in Process /\ p.up /\ p.queue = <<>> /\ p.scheduled = Active(h)
    BY <1>1, <2>1, <2>2 DEF Process
  <2>4. Range(<<>>) = {} /\ IsInjective(<<>>)
    BY DEF Range, IsInjective
  <2> HIDE DEF p
  <2>5. Sound(p, Active(h))
    BY <2>3, <2>4 DEF Sound
  <2> QED BY <1>1, <2>1, <2>3, <2>5, LocalStep
<1>5. CASE HostExit(h)
  <2>1. host' = [host EXCEPT ![h] = Down] /\ UNCHANGED <<row, inv, faults>> /\ Active(h) = {}
    BY <1>5 DEF HostExit
  <2> QED BY <1>1, <1>2, <2>1, LocalStep
<1>6. CASE HostCrash(h)
  <2>1. /\ host' = [host EXCEPT ![h] = Down] /\ row' \in Rows /\ faults' \in 0 .. MaxFaults
        /\ inv' = [inv EXCEPT ![h] = [r \in Runs |-> NoInvocation]]
    BY <1>1, <1>6 DEF HostCrash, Strikes
  <2>2. NoInvocation \in Invocation /\ Told(NoInvocation) /\ NoInvocation.pc = "none"
    BY DEF NoInvocation, Invocation, Told
  <2>3. inv' \in [Hosts -> [Runs -> Invocation]]
    BY <1>1, <2>1, <2>2
  <2>4. inv'[h] = [r \in Runs |-> NoInvocation] /\ \A k \in Hosts \ {h} : inv'[k] = inv[k]
    BY <1>1, <2>1
  <2>5. \A k \in Hosts, x \in Runs : Told(inv'[k][x])
    BY <1>1, <2>2, <2>4
  <2>6. Active(h)' = {} /\ \A k \in Hosts \ {h} : Active(k)' = Active(k)
    BY <2>2, <2>4 DEF Active
  <2>7. Sound(Down, Active(h)')
    BY <1>2, <2>6
  <2>8. host' \in [Hosts -> Process] /\ \A k \in Hosts : Sound(host'[k], Active(k)')
    BY <1>2, <2>1, <2>6, <2>7, ProcessStep
  <2> QED BY <2>1, <2>3, <2>5, <2>8, ServiceInvAfter
<1> QED BY <1>3, <1>4, <1>5, <1>6

\* Every step keeps the invariant.
LEMMA ServiceNextInv == ServiceInv /\ [ServiceNext]_serviceVars => ServiceInv'
<1> SUFFICES ASSUME ServiceInv, [ServiceNext]_serviceVars PROVE ServiceInv'
  OBVIOUS
<1>1. CASE \E h \in Hosts : Pump(h)
  BY <1>1, PumpInv
<1>2. CASE (\E h \in Hosts : RetryFires(h)) \/ (\E h \in Hosts, r \in Runs : WakeFires(h, r))
  BY <1>2, RetryInv, WakeInv
<1>3. CASE \E h \in Hosts : Start(h) \/ Stop(h) \/ HostExit(h) \/ HostCrash(h)
  BY <1>3, LifeInv
<1>4. CASE \E h \in Hosts, r \in Runs :
             \/ RunnerMoves(h, r) \/ SettlesLost(h, r) \/ SettlesDone(h, r)
             \/ SettlesFailed(h, r) \/ SettlesYielding(h, r)
  BY <1>4, SettlesInv
<1>5. CASE \E h \in Hosts, r \in Runs : Finally(h, r)
  BY <1>5, FinallyInv
<1>6. CASE \E h \in Hosts, r \in Runs : Heartbeat(h, r) \/ GraceEnds(h, r)
  BY <1>6, BeatInv
<1>7. CASE \E h \in Hosts, r \in Runs : Submit(h, r) \/ ResumeRun(h, r)
  BY <1>7, RequestsInv
<1>8. CASE \E h \in Hosts, r \in Runs, graceful \in BOOLEAN : Cancel(h, r, graceful)
  BY <1>8, CancelInv
<1>9. CASE (\E r \in Runs : Ages(r)) \/ UNCHANGED serviceVars
  <2>1. /\ row \in Rows /\ faults \in 0 .. MaxFaults
        /\ inv \in [Hosts -> [Runs -> Invocation]]
        /\ \A k \in Hosts, x \in Runs : Told(inv[k][x])
    BY DEF ServiceInv, ServiceType
  <2>2. row' \in Rows /\ faults' \in 0 .. MaxFaults /\ UNCHANGED <<inv, host>>
    <3>1. CASE \E r \in Runs : Ages(r)
      <4>1. PICK r \in Runs : Ages(r)
        BY <3>1
      <4>2. [row EXCEPT ![r].fresh = FALSE] \in Rows
        BY <2>1 DEF Rows
      <4> QED BY <2>1, <4>1, <4>2 DEF Ages, Strikes
    <3>2. CASE UNCHANGED serviceVars
      BY <2>1, <3>2 DEF serviceVars
    <3> QED BY <1>9, <3>1, <3>2
  <2>3. \A k \in Hosts : Active(k)' = Active(k)
    BY <2>2 DEF Active
  <2>4. host' \in [Hosts -> Process] /\ \A k \in Hosts : Sound(host'[k], Active(k)')
    BY <2>2, <2>3, QuietStep
  <2> QED BY <2>1, <2>2, <2>4, ServiceInvAfter
<1> QED
  BY <1>1, <1>2, <1>3, <1>4, <1>5, <1>6, <1>7, <1>8, <1>9 DEF ServiceNext

\* A queue without repetitions is no longer than there are runs.
LEMMA QueueIsShort ==
  ASSUME NEW q \in Seq(Runs), IsInjective(q)
  PROVE  Len(q) <= Cardinality(Runs)
<1>1. Len(q) \in Nat /\ q \in [1 .. Len(q) -> Runs]
  OBVIOUS
<1>2. \A i, j \in 1 .. Len(q) : q[i] = q[j] => i = j
  BY <1>1 DEF IsInjective
<1>3. IsFiniteSet(1 .. Len(q)) /\ Cardinality(1 .. Len(q)) = Len(q)
  <2> DEFINE n == Len(q)
  <2>1. n \in Nat /\ n \in Int /\ 1 \in Int
    BY <1>1
  <2> HIDE DEF n
  <2>2. IsFiniteSet(1 .. n) /\ Cardinality(1 .. n) = IF 1 > n THEN 0 ELSE n - 1 + 1
    BY <2>1, FS_Interval, Zenon
  <2>3. IsFiniteSet(1 .. n) /\ Cardinality(1 .. n) = n
    BY <2>1, <2>2
  <2> QED BY <2>3 DEF n
<1>4. q \in Injection(1 .. Len(q), Runs)
  BY <1>1, <1>2 DEF Injection
<1>5. Cardinality(1 .. Len(q)) <= Cardinality(Runs)
  BY <1>3, <1>4, FS_Injection DEF ExistsInjection
<1> QED BY <1>3, <1>5

\* The worker service keeps its invariant.
THEOREM ServiceInvariant == ServiceSpec => []ServiceInv
<1> QED BY ServiceInitInv, ServiceNextInv, PTL DEF ServiceSpec

\* Type correctness of the worker service; a queue is no longer than there are runs.
THEOREM ServiceTyping == ServiceSpec => []ServiceTypeOK
<1>1. ASSUME ServiceInv PROVE ServiceTypeOK
  <2>1. /\ row \in Rows /\ inv \in [Hosts -> [Runs -> Invocation]] /\ faults \in 0 .. MaxFaults
    BY <1>1 DEF ServiceInv, ServiceType
  <2>2. ASSUME NEW h \in Hosts
        PROVE  /\ DOMAIN host[h] = DOMAIN Down
               /\ host[h].queue \in Seq(Runs) /\ Len(host[h].queue) <= Cardinality(Runs)
               /\ host[h].scheduled \cup host[h].wake \cup host[h].again \subseteq Runs
    <3>1. host[h] \in Process /\ Sound(host[h], Active(h))
      BY <1>1 DEF ServiceInv, ServiceType
    <3>2. host[h].queue \in Seq(Runs) /\ IsInjective(host[h].queue)
      BY <3>1 DEF Process, Sound, Down, IsInjective
    <3>3. Len(host[h].queue) <= Cardinality(Runs)
      BY <3>2, QueueIsShort
    <3> QED BY <3>1, <3>3 DEF Process, Down
  <2> QED BY <2>1, <2>2 DEF ServiceTypeOK, Rows, Invocation
<1> QED BY <1>1, ServiceInvariant, PTL

\* #schedule, #pump and its finally block: no wake-up is lost inside a process, for any
\* number of processes and runs and any limit of concurrency.
THEOREM NoWakeupIsLost == ServiceSpec => []NoLostWakeup
<1>1. ASSUME ServiceInv PROVE NoLostWakeup
  BY <1>1 DEF ServiceInv, Sound, NoLostWakeup
<1> QED BY <1>1, ServiceInvariant, PTL

\* #loseLease and requestCancellation: an invocation that lost its lease has been
\* aborted, or will be when its grace period ends.
THEOREM LostInvocationsAreTold == ServiceSpec => []LostIsSignalled
<1>1. ASSUME ServiceInv PROVE LostIsSignalled
  BY <1>1 DEF ServiceInv, Told, LostIsSignalled
<1> QED BY <1>1, ServiceInvariant, PTL
=============================================================================
