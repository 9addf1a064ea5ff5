------------------------------- MODULE Outbox -------------------------------
(***************************************************************************)
(* The side-effect outbox: Orchestrator.#withOutbox                        *)
(* (src/src/orchestrator/orchestrator.ts) over the side_effects table of   *)
(* the state store (src/src/state/store.ts).                               *)
(*                                                                         *)
(* Every external mutation of a run is written down before it is           *)
(* attempted, fenced, marked in flight, and closed with what is known of   *)
(* its outcome.  Several runs may share one store: `runmill daemon` and    *)
(* `runmill run` open the same database and neither excludes the other.    *)
(* A request can take effect on the remote after its caller has given up   *)
(* on it or died.                                                          *)
(***************************************************************************)
EXTENDS Integers

CONSTANTS Runs,  \* run ids
          Ops,   \* what a run can do: an operation and its target
          NoOp   \* no call is under way

ASSUME NoOpAssumption == NoOp \notin Ops

Effects == Runs \X Ops   \* sideEffectKey: the row of operation o of run r

(***************************************************************************)
(* The store keeps a resolution as status "confirmed" with the audit       *)
(* outcome "applied" or "not-applied"; here "confirmed" and "notApplied".  *)
(***************************************************************************)
Status == {"none", "intended", "inFlight", "confirmed", "failed", "notApplied"}

VARIABLES row,      \* row[e]: the status of effect e in the store
          applied,  \* ground truth: the effects the remote systems carried out
          phase,    \* phase[r]: "new", "running" or "over"
          call,     \* call[r]: where r's #withOutbox call stands
          cur       \* cur[r]: the operation of that call

vars == <<row, applied, phase, call, cur>>

\* "idle": no call.  "fence": intent written, assertLease awaited.  "act": in
\* flight, the remote has not answered.  "reply": the remote has carried the
\* request out and its answer is under way.
Calls == {"idle", "fence", "act", "reply"}

TypeOK ==
  /\ row \in [Effects -> Status]
  /\ applied \subseteq Effects
  /\ phase \in [Runs -> {"new", "running", "over"}]
  /\ call \in [Runs -> Calls]
  /\ cur \in [Runs -> Ops \cup {NoOp}]

Init ==
  /\ row = [e \in Effects |-> "none"]
  /\ applied = {}
  /\ phase = [r \in Runs |-> "new"]
  /\ call = [r \in Runs |-> "idle"]
  /\ cur = [r \in Runs |-> NoOp]

-----------------------------------------------------------------------------
(* Helpers *)

\* pendingSideEffects: what blocks new runs until it is resolved.
PendingStatus == {"intended", "inFlight", "failed"}

Pending == {e \in Effects : row[e] \in PendingStatus}

Current(r) == <<r, cur[r]>>

\* The call ends and leaves its row with status s.
Close(r, s) ==
  /\ row' = [row EXCEPT ![Current(r)] = s]
  /\ call' = [call EXCEPT ![r] = "idle"]
  /\ cur' = [cur EXCEPT ![r] = NoOp]

-----------------------------------------------------------------------------
(* The run *)

\* run's entry check: no earlier effect has an ambiguous outcome.  A run that
\* finds one ends NEEDS_HUMAN and changes nothing.
Start(r) ==
  /\ phase[r] = "new"
  /\ Pending = {}
  /\ phase' = [phase EXCEPT ![r] = "running"]
  /\ UNCHANGED <<row, applied, call, cur>>

\* intendSideEffect, before the fence.  A run performs an operation once.
Intend(r, o) ==
  /\ phase[r] = "running"
  /\ call[r] = "idle"
  /\ row[<<r, o>>] = "none"
  /\ row' = [row EXCEPT ![<<r, o>>] = "intended"]
  /\ call' = [call EXCEPT ![r] = "fence"]
  /\ cur' = [cur EXCEPT ![r] = o]
  /\ UNCHANGED <<applied, phase>>

\* assertLease returned: markSideEffectInFlight and the request goes out.
FencePasses(r) ==
  /\ phase[r] = "running"
  /\ call[r] = "fence"
  /\ row' = [row EXCEPT ![Current(r)] = "inFlight"]
  /\ call' = [call EXCEPT ![r] = "act"]
  /\ UNCHANGED <<applied, phase, cur>>

\* assertLease threw: the request never started.
FenceRefuses(r) ==
  /\ phase[r] = "running"
  /\ call[r] = "fence"
  /\ Close(r, "notApplied")
  /\ UNCHANGED <<applied, phase>>

\* The remote carries the request out.
RemoteApplies(r) ==
  /\ phase[r] = "running"
  /\ call[r] = "act"
  /\ applied' = applied \cup {Current(r)}
  /\ call' = [call EXCEPT ![r] = "reply"]
  /\ UNCHANGED <<row, phase, cur>>

\* A mutant: the error handler treats every error as "nothing happened".
ErrorOutcomeOptimistic == {"notApplied"}

\* failSideEffect: an error does not prove that nothing happened.
ErrorOutcome == {"failed"}

\* act resolved: confirmSideEffect.
ReplyArrives(r) ==
  /\ phase[r] = "running"
  /\ call[r] = "reply"
  /\ Close(r, "confirmed")
  /\ UNCHANGED <<applied, phase>>

\* act rejected: a refusal, a time-out, a reply lost after the remote acted.
ActFails(r) ==
  /\ phase[r] = "running"
  /\ call[r] \in {"act", "reply"}
  /\ \E s \in ErrorOutcome : Close(r, s)
  /\ UNCHANGED <<applied, phase>>

\* act rejected with BacklogMutationNotStartedError: a read the backlog
\* adapter makes before the mutation failed.
NotStarted(r) ==
  /\ phase[r] = "running"
  /\ call[r] = "act"
  /\ Close(r, "notApplied")
  /\ UNCHANGED <<applied, phase>>

\* The run returns its outcome, or its process dies in any state.
Over(r) ==
  /\ phase[r] = "running"
  /\ phase' = [phase EXCEPT ![r] = "over"]
  /\ call' = [call EXCEPT ![r] = "idle"]
  /\ cur' = [cur EXCEPT ![r] = NoOp]
  /\ UNCHANGED <<row, applied>>

-----------------------------------------------------------------------------
(* The environment *)

\* A request its caller gave up on reaches the remote after all.
LandsLate(e) ==
  /\ row[e] = "failed" \/ (row[e] = "inFlight" /\ phase[e[1]] = "over")
  /\ e \notin applied
  /\ applied' = applied \cup {e}
  /\ UNCHANGED <<row, phase, call, cur>>

\* `runmill effects resolve`: once the run is over and its request can no
\* longer land, the operator records what the remote system shows.
OperatorResolves(e) ==
  /\ phase[e[1]] = "over"
  /\ e \in Pending
  /\ row' = [row EXCEPT ![e] = IF e \in applied THEN "confirmed" ELSE "notApplied"]
  /\ UNCHANGED <<applied, phase, call, cur>>

RunStep(r) ==
  \/ Start(r)
  \/ \E o \in Ops : Intend(r, o)
  \/ FencePasses(r)
  \/ FenceRefuses(r)
  \/ RemoteApplies(r)
  \/ ReplyArrives(r)
  \/ ActFails(r)
  \/ NotStarted(r)
  \/ Over(r)

Next ==
  \/ \E r \in Runs : RunStep(r)
  \/ \E e \in Effects : LandsLate(e) \/ OperatorResolves(e)

Spec == Init /\ [][Next]_vars

-----------------------------------------------------------------------------
(* Properties *)

\* The store never misstates the remote: a row closed as not applied names an
\* effect that did not happen, a confirmed one an effect that did, and every
\* effect that happened has a row that is confirmed or still blocks new runs
\* (#withOutbox: intent before the act, failure is not absence).
OutboxTruthful ==
  \A e \in Effects :
    /\ row[e] = "confirmed" => e \in applied
    /\ e \in applied => row[e] = "confirmed" \/ e \in Pending

\* Once an effect's row is closed nothing reopens it, and its outcome on the
\* remote is final: neither a late request nor a later run changes it.
ClosedIsFinal ==
  [][\A e \in Effects :
       row[e] \in {"confirmed", "notApplied"} =>
         row'[e] = row[e] /\ (e \in applied' <=> e \in applied)]_vars
=============================================================================
