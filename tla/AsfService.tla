------------------------------ MODULE AsfService ------------------------------
(***************************************************************************)
(* The ASF worker service (src/src/asf/service.ts) and its host            *)
(* (src/src/asf/worker-host.ts): which admitted run is executed when, by   *)
(* which process, under which claim of the shared store                    *)
(* (src/src/state/store.ts).                                               *)
(*                                                                         *)
(* A process is one thread: an action here is one uninterrupted stretch of *)
(* it, and timers and microtasks are flags that an action of their own     *)
(* consumes.  Several processes share the store.                           *)
(*                                                                         *)
(* Abstractions.  The phases of a run are "due" (work to do), "cancel",    *)
(* "paused" (WAITING_APPROVAL, BLOCKED_EXTERNAL) and "over".  A generation *)
(* is only ever compared with the row's: an invocation is cur while it is  *)
(* the one the row was last claimed for.  The runner (AsfRun.tla) moves    *)
(* its run on or not, and then returns, throws, or asks to be woken later. *)
(***************************************************************************)
EXTENDS Integers, Sequences, FiniteSets, SequencesExt

CONSTANTS Hosts, Runs,
          Repo,             \* Repo[r]: the repository of a run
          MaxConcurrency,
          MaxFaults         \* bound on crashes, stalls, stops, store errors, yields, and on
                            \* requests that concern a run again

ASSUME AsfServiceAssumption ==
  /\ Runs \subseteq Nat /\ IsFiniteSet(Runs)
  /\ MaxConcurrency \in Nat \ {0} /\ MaxFaults \in Nat

NoHost == "none"
Phases == {"absent", "due", "cancel", "paused", "over"}

VARIABLES row,      \* row[r]: the durable run
          inv,      \* inv[h][r]: an invocation of the runner (#activeRuns)
          host,     \* host[h]: the process
          faults

serviceVars == <<row, inv, host, faults>>

NoInvocation == [pc |-> "none", cur |-> FALSE, lost |-> FALSE, aborted |-> FALSE,
                 grace |-> FALSE, beat |-> FALSE]
Invoked == [NoInvocation EXCEPT !.pc = "running", !.cur = TRUE, !.beat = TRUE]
Down == [up |-> FALSE, stopping |-> FALSE, queue |-> <<>>, scheduled |-> {}, pump |-> FALSE,
         retry |-> FALSE, wake |-> {}, again |-> {}]

ServiceTypeOK ==
  /\ row \in [Runs -> [phase : Phases, owner : Hosts \cup {NoHost}, fresh : BOOLEAN]]
  /\ inv \in [Hosts -> [Runs -> [pc : {"none", "running", "settled"}, cur : BOOLEAN,
                                 lost : BOOLEAN, aborted : BOOLEAN, grace : BOOLEAN,
                                 beat : BOOLEAN]]]
  /\ \A h \in Hosts :
       /\ DOMAIN host[h] = DOMAIN Down
       /\ host[h].queue \in Seq(Runs) /\ Len(host[h].queue) <= Cardinality(Runs)
       /\ host[h].scheduled \cup host[h].wake \cup host[h].again \subseteq Runs
  /\ faults \in 0 .. MaxFaults

ServiceInit ==
  /\ row = [r \in Runs |-> [phase |-> "absent", owner |-> NoHost, fresh |-> FALSE]]
  /\ inv = [h \in Hosts |-> [r \in Runs |-> NoInvocation]]
  /\ host = [h \in Hosts |-> Down] /\ faults = 0

Terminal(r) == row[r].phase \in {"absent", "over"}
Active(h) == {r \in Runs : inv[h][r].pc # "none"}
Owns(h, r) == row[r].owner = h /\ inv[h][r].cur
Strikes == faults < MaxFaults /\ faults' = faults + 1

-----------------------------------------------------------------------------
(* Scheduling. *)

\* #schedule: a run that is scheduled already only asks for another pass.
Scheduled(p, r) ==
  IF p.stopping THEN p
  ELSE IF r \in p.scheduled THEN [p EXCEPT !.pump = TRUE]
  ELSE [p EXCEPT !.scheduled = @ \cup {r}, !.queue = Append(@, r), !.pump = TRUE]

\* #wakeRun.
Woken(h, p, r) ==
  IF r \in Active(h) THEN [p EXCEPT !.again = @ \cup {r}] ELSE Scheduled(p, r)

\* claimAsfRun: nobody owns the run, or its owner has been silent too long; no
\* other run of the repository is live, and the host limit leaves room.
Live(rows, r) == rows[r].owner # NoHost /\ rows[r].fresh /\ rows[r].phase \notin {"absent", "over"}
Claimable(rows, r) ==
  LET others == {k \in Runs \ {r} : Live(rows, k)}
  IN /\ rows[r].owner = NoHost \/ ~rows[r].fresh
     /\ \A k \in others : Repo[k] # Repo[r]
     /\ Cardinality(others) < MaxConcurrency

Claimed(st, h, r) ==
  [st EXCEPT !.rows[r].owner = h, !.rows[r].fresh = TRUE,
             !.invs = [k \in Hosts |-> IF k = h THEN [@[k] EXCEPT ![r] = Invoked]
                                       ELSE [@[k] EXCEPT ![r].cur = FALSE]]]

\* One element of the queue; bad are the runs whose row cannot be read.
PumpOne(h, bad, st, r) ==
  LET running == {k \in Runs : st.invs[h][k].pc # "none"}
      back == [st EXCEPT !.queue = Append(@, r)]
      later == [back EXCEPT !.retry = TRUE]
  IN CASE Cardinality(running) >= MaxConcurrency -> back
       [] Cardinality(running) < MaxConcurrency /\ r \in bad -> later
       [] Cardinality(running) < MaxConcurrency /\ r \notin bad /\ Terminal(r) ->
            [st EXCEPT !.scheduled = @ \ {r}]
       [] OTHER -> IF \E k \in running : Repo[k] = Repo[r] THEN back
                   ELSE IF Claimable(st.rows, r) THEN Claimed(st, h, r)
                   ELSE later

\* #pump: one pass over the queue, which ends with a retry timer or without.
Passed(h, bad) ==
  LET q == host[h].queue
      start == [rows |-> row, invs |-> inv, queue |-> <<>>, retry |-> FALSE,
                scheduled |-> host[h].scheduled]
      pass[n \in 0 .. Len(q)] ==
        IF n = 0 THEN start ELSE PumpOne(h, bad, pass[n - 1], q[n])
  IN pass[Len(q)]
Pump(h) ==
  \E bad \in SUBSET Range(host[h].queue) :
    LET end == Passed(h, bad)
    IN /\ host[h].up /\ host[h].pump
       /\ IF host[h].stopping
          THEN host' = [host EXCEPT ![h].pump = FALSE] /\ UNCHANGED <<row, inv>> /\ bad = {}
          ELSE /\ row' = end.rows /\ inv' = end.invs
               /\ host' = [host EXCEPT ![h].pump = FALSE, ![h].queue = end.queue,
                                       ![h].scheduled = end.scheduled, ![h].retry = end.retry]
       /\ IF bad = {} THEN UNCHANGED faults ELSE Strikes

\* The timer of #ensureRetryScheduled.
RetryFires(h) ==
  /\ host[h].retry
  /\ host' = [host EXCEPT ![h].retry = FALSE, ![h].pump = TRUE]
  /\ UNCHANGED <<row, inv, faults>>

\* The timer of #scheduleDelayedWake.
WakeFires(h, r) ==
  LET p == [host[h] EXCEPT !.wake = @ \ {r}]
  IN /\ r \in host[h].wake
     /\ host' = [host EXCEPT ![h] = Woken(h, p, r)]
     /\ UNCHANGED <<row, inv, faults>>

-----------------------------------------------------------------------------
(* An invocation. *)

\* transition: refused once the lease is lost; the store checks the fence.
RunnerMoves(h, r) ==
  /\ inv[h][r].pc = "running" /\ ~inv[h][r].lost /\ Owns(h, r)
  /\ row[r].phase \in {"due", "cancel"}
  /\ \E to \in {"paused", "over"} :
       /\ row[r].phase = "cancel" => to = "over"
       /\ row' = [row EXCEPT ![r].phase = to]
  /\ UNCHANGED <<inv, host, faults>>

\* releaseAsfRunOwnership by #releaseIfOwned: the heartbeat ends with it.
Released(h, r) == IF Owns(h, r) THEN [row[r] EXCEPT !.owner = NoHost, !.fresh = FALSE] ELSE row[r]
Ends(h, r) == inv' = [inv EXCEPT ![h][r].pc = "settled", ![h][r].beat = FALSE]

\* The runner is back and its lease is gone: nothing is written.
SettlesLost(h, r) ==
  /\ inv[h][r].pc = "running"
  /\ inv[h][r].lost \/ ~Owns(h, r)
  /\ inv' = [inv EXCEPT ![h][r].pc = "settled"] /\ UNCHANGED <<row, host, faults>>

\* It is back at a terminal phase or a durable pause.
SettlesDone(h, r) ==
  /\ inv[h][r].pc = "running" /\ ~inv[h][r].lost /\ Owns(h, r)
  /\ row[r].phase \in {"paused", "over"}
  /\ row' = [row EXCEPT ![r] = Released(h, r)] /\ Ends(h, r) /\ UNCHANGED <<host, faults>>

\* It threw, or is back with work left: #recordRunnerFailure, and the release
\* that the pause allows.
SettlesFailed(h, r) ==
  /\ inv[h][r].pc = "running" /\ ~inv[h][r].lost /\ Owns(h, r)
  /\ row[r].phase \in {"due", "cancel"}
  /\ row' = [row EXCEPT ![r] = [Released(h, r) EXCEPT !.phase = "paused"]]
  /\ Ends(h, r) /\ UNCHANGED <<host, faults>>

\* It waits for CI or for its terminal evidence.
SettlesYielding(h, r) ==
  /\ inv[h][r].pc = "running" /\ ~inv[h][r].lost /\ Owns(h, r) /\ ~Terminal(r)
  /\ row' = [row EXCEPT ![r] = Released(h, r)] /\ Ends(h, r) /\ Strikes
  /\ host' = [host EXCEPT ![h].wake = @ \cup {r}]

\* Mutant: a wake-up that came during the invocation is forgotten.
FinallyForgets(h, r) ==
  /\ inv[h][r].pc = "settled"
  /\ inv' = [inv EXCEPT ![h][r] = NoInvocation]
  /\ host' = [host EXCEPT ![h].scheduled = @ \ {r}, ![h].again = @ \ {r}, ![h].pump = ~host[h].stopping]
  /\ UNCHANGED <<row, faults>>

\* Mutant: the scheduled marker outlives the invocation.
FinallyKeeps(h, r) ==
  /\ inv[h][r].pc = "settled"
  /\ inv' = [inv EXCEPT ![h][r] = NoInvocation]
  /\ host' = [host EXCEPT ![h].again = @ \ {r}, ![h].pump = ~host[h].stopping]
  /\ UNCHANGED <<row, faults>>

\* The finally block of #pump.
Finally(h, r) ==
  LET freed == [host[h] EXCEPT !.scheduled = @ \ {r}, !.again = @ \ {r}]
      next == IF r \in host[h].again THEN Scheduled(freed, r) ELSE freed
  IN /\ inv[h][r].pc = "settled"
     /\ inv' = [inv EXCEPT ![h][r] = NoInvocation]
     /\ host' = [host EXCEPT ![h] = IF next.stopping THEN next ELSE [next EXCEPT !.pump = TRUE]]
     /\ UNCHANGED <<row, faults>>

\* Mutant: a run is given up without telling the runner.
LostSilently(i) == [i EXCEPT !.lost = TRUE, !.beat = FALSE, !.grace = FALSE]

\* #loseLease.
LosesLease(i) == [i EXCEPT !.lost = TRUE, !.beat = FALSE, !.grace = FALSE, !.aborted = TRUE]

\* #scheduleHeartbeat: heartbeatAsfRun renews, or the lease is lost.
Heartbeat(h, r) ==
  /\ inv[h][r].pc # "none" /\ inv[h][r].beat /\ ~inv[h][r].lost
  /\ \/ /\ Owns(h, r) /\ ~row[r].fresh
        /\ row' = [row EXCEPT ![r].fresh = TRUE] /\ UNCHANGED inv
     \/ /\ ~Owns(h, r) /\ inv' = [inv EXCEPT ![h][r] = LosesLease(@)] /\ UNCHANGED row
  /\ UNCHANGED <<host, faults>>

\* The grace period of a cancellation runs out.
GraceEnds(h, r) ==
  /\ inv[h][r].grace
  /\ inv' = [inv EXCEPT ![h][r].grace = FALSE, ![h][r].aborted = TRUE]
  /\ UNCHANGED <<row, host, faults>>

-----------------------------------------------------------------------------
(* Control requests. *)

Unfenced(r) == [k \in Hosts |-> [inv[k] EXCEPT ![r].cur = FALSE]]

\* submitWorkOrder: admission is durable first; a repeated submission finds it.
Submit(h, r) ==
  /\ host[h].up /\ r \notin host[h].scheduled
  /\ row' = [row EXCEPT ![r].phase = IF @ = "absent" THEN "due" ELSE @]
  /\ host' = [host EXCEPT ![h] = Scheduled(@, r)]
  /\ IF row[r].phase = "absent" THEN UNCHANGED faults ELSE Strikes
  /\ UNCHANGED inv

\* requestCancellation.  A new request fences the row; one that is repeated
\* finds the row as it is.  What follows here is the same for both.
Cancel(h, r, graceful) ==
  LET fresh == row[r].phase \in {"due", "paused"}
      is == IF fresh THEN Unfenced(r) ELSE inv
      p == [host[h] EXCEPT !.wake = @ \ {r}]
      told == [is[h][r] EXCEPT !.lost = TRUE, !.beat = FALSE, !.grace = graceful,
                               !.aborted = @ \/ ~graceful]
  IN /\ host[h].up /\ ~Terminal(r)
     /\ IF row[r].phase = "due" THEN UNCHANGED faults ELSE Strikes
     /\ row' = IF fresh THEN [row EXCEPT ![r] = [phase |-> "cancel", owner |-> NoHost, fresh |-> FALSE]]
               ELSE row
     /\ IF r \in Active(h)
        THEN /\ host' = [host EXCEPT ![h] = [p EXCEPT !.again = @ \cup {r}]]
             /\ inv' = [is EXCEPT ![h][r] = told]
        ELSE host' = [host EXCEPT ![h] = Scheduled(p, r)] /\ inv' = is

\* recordApproval, and a reconciliation's continuation: the paused run is due
\* again and has no owner.
ResumeRun(h, r) ==
  /\ host[h].up /\ ~host[h].stopping /\ row[r].phase = "paused" /\ Strikes
  /\ row' = [row EXCEPT ![r] = [phase |-> "due", owner |-> NoHost, fresh |-> FALSE]]
  /\ inv' = [Unfenced(r) EXCEPT ![h][r].aborted = @ \/ r \in Active(h)]
  /\ host' = [host EXCEPT ![h] = Woken(h, @, r)]

-----------------------------------------------------------------------------
(* The life of a process. *)

\* start: recover queues every run that is not over, in order of creation.
Start(h) ==
  LET known == {r \in Runs : ~Terminal(r)}
  IN \E queue \in [1 .. Cardinality(known) -> known] :
       /\ \A i, j \in DOMAIN queue : i < j => queue[i] < queue[j]
       /\ ~host[h].up
       /\ host' = [host EXCEPT ![h] = [Down EXCEPT !.up = TRUE, !.queue = queue,
                                         !.scheduled = Range(queue), !.pump = queue # <<>>]]
       /\ UNCHANGED <<row, inv, faults>>

\* requestStop: the queue stays durable in the store.
Stop(h) ==
  /\ host[h].up /\ ~host[h].stopping /\ Strikes
  /\ host' = [host EXCEPT ![h] = [@ EXCEPT !.stopping = TRUE, !.retry = FALSE, !.wake = {},
                                    !.queue = <<>>, !.again = {}, !.scheduled = Active(h)]]
  /\ UNCHANGED <<row, inv>>
HostExit(h) ==
  /\ host[h].stopping /\ Active(h) = {}
  /\ host' = [host EXCEPT ![h] = Down] /\ UNCHANGED <<row, inv, faults>>

HostCrash(h) ==
  /\ host[h].up /\ Strikes
  /\ host' = [host EXCEPT ![h] = Down]
  /\ inv' = [inv EXCEPT ![h] = [r \in Runs |-> NoInvocation]] /\ UNCHANGED row

Beats(r) == row[r].owner \in Hosts /\ inv[row[r].owner][r].beat /\ Owns(row[r].owner, r)

\* A heartbeat that nobody sends grows old; a stalled process is late with one.
Ages(r) ==
  /\ row[r].fresh
  /\ IF Beats(r) THEN Strikes ELSE UNCHANGED faults
  /\ row' = [row EXCEPT ![r].fresh = FALSE] /\ UNCHANGED <<inv, host>>

ServiceNext ==
  \/ \E h \in Hosts : Pump(h) \/ RetryFires(h) \/ Start(h) \/ Stop(h) \/ HostExit(h) \/ HostCrash(h)
  \/ \E h \in Hosts, r \in Runs :
       \/ WakeFires(h, r) \/ RunnerMoves(h, r) \/ SettlesLost(h, r) \/ SettlesDone(h, r)
       \/ SettlesFailed(h, r) \/ SettlesYielding(h, r) \/ Finally(h, r) \/ Heartbeat(h, r)
       \/ GraceEnds(h, r) \/ Submit(h, r) \/ ResumeRun(h, r)
       \/ \E graceful \in BOOLEAN : Cancel(h, r, graceful)
  \/ \E r \in Runs : Ages(r)

\* What the platform owes a process: timers fire, microtasks run, the runner
\* comes back, a process that is down is started again, a stop ends the process,
\* and silence lasts long enough to be noticed.  Each of these actions disables
\* itself, so that weak fairness of it is the recurrence of its being disabled.
Fairness ==
  /\ \A h \in Hosts : /\ []<>(~host[h].pump) /\ []<>(~host[h].retry)
                      /\ []<>(host[h].up) /\ []<>(~(host[h].stopping /\ Active(h) = {}))
  /\ \A h \in Hosts, r \in Runs :
       /\ []<>(inv[h][r].pc # "running") /\ []<>(inv[h][r].pc # "settled")
       /\ []<>(~inv[h][r].grace) /\ []<>(r \notin host[h].wake)
       /\ []<>(~(inv[h][r].beat /\ (~Owns(h, r) \/ ~row[r].fresh)))
  /\ \A r \in Runs : []<>(~(row[r].fresh /\ ~Beats(r)))
ServiceSpec == ServiceInit /\ [][ServiceNext]_serviceVars /\ Fairness

-----------------------------------------------------------------------------
(* Properties. *)

\* No wake-up is lost inside a process: what is marked as scheduled is queued
\* or running, nothing is queued twice, and a queue that is not empty is looked
\* at again (a pass is requested, the retry timer runs, or an invocation will
\* end and ask for one).
NoLostWakeup ==
  \A h \in Hosts : host[h].up =>
    /\ host[h].scheduled = Range(host[h].queue) \cup Active(h)
    /\ IsInjective(host[h].queue)
    /\ host[h].queue # <<>> => host[h].pump \/ host[h].retry \/ Active(h) # {}

\* An invocation that lost its lease has been told, or will be when its grace
\* period ends.
LostIsSignalled ==
  \A h \in Hosts, r \in Runs :
    inv[h][r].pc = "running" /\ inv[h][r].lost => inv[h][r].aborted \/ inv[h][r].grace

\* Every run with work to do, a cancellation included, reaches a pause or its
\* end: whichever process claims it, whatever crashes, stops and repeats.
RunsSettle == \A r \in Runs : row[r].phase \in {"due", "cancel"} ~> row[r].phase \in {"paused", "over"}
=============================================================================
