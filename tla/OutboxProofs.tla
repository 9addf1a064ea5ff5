---------------------------- MODULE OutboxProofs ----------------------------
(***************************************************************************)
(* Proofs about Outbox, for every set of runs and operations.              *)
(***************************************************************************)
EXTENDS Outbox, TLAPS

\* Where a call stands determines its row and what the remote has done.
CallInv(r) ==
  /\ call[r] # "idle" => phase[r] = "running" /\ cur[r] \in Ops
  /\ call[r] = "fence" => row[Current(r)] = "intended" /\ Current(r) \notin applied
  /\ call[r] = "act" => row[Current(r)] = "inFlight" /\ Current(r) \notin applied
  /\ call[r] = "reply" => row[Current(r)] = "inFlight" /\ Current(r) \in applied

\* A row in flight belongs to the call its run is making, while it runs.
RowInv(e) ==
  /\ row[e] = "confirmed" => e \in applied
  /\ e \in applied => row[e] \in {"confirmed", "inFlight", "failed"}
  /\ row[e] \in {"intended", "inFlight"} /\ phase[e[1]] = "running"
       => call[e[1]] # "idle" /\ cur[e[1]] = e[2]

\* The inductive invariant.
OutboxInv ==
  /\ TypeOK
  /\ \A r \in Runs : CallInv(r)
  /\ \A e \in Effects : RowInv(e)

-----------------------------------------------------------------------------

\* The invariant holds of an empty store.
LEMMA InitInv == Init => OutboxInv
  BY DEF Init, OutboxInv, TypeOK, Calls, Status, CallInv, RowInv, Effects

\* Every step of a run keeps the invariant.
LEMMA RunStepKeepsInv ==
  ASSUME OutboxInv, NEW r \in Runs, RunStep(r)
  PROVE  OutboxInv'
<1>t. TypeOK /\ CallInv(r)
  BY DEF OutboxInv
<1>1. CASE Start(r)
  BY <1>1 DEF Start, OutboxInv, TypeOK, CallInv, RowInv, Current, Effects, Calls, Status, Pending,
              PendingStatus
<1>2. ASSUME NEW o \in Ops, Intend(r, o) PROVE OutboxInv'
  BY <1>2, NoOpAssumption DEF Intend, OutboxInv, TypeOK, CallInv, RowInv, Current, Effects,
              Calls, Status
<1>3. CASE FencePasses(r)
  BY <1>3 DEF FencePasses, OutboxInv, TypeOK, CallInv, RowInv, Current, Effects, Calls, Status
<1>4. CASE FenceRefuses(r) \/ NotStarted(r)
  BY <1>4 DEF FenceRefuses, NotStarted, Close, OutboxInv, TypeOK, CallInv, RowInv, Current,
              Effects, Calls, Status
<1>5. CASE RemoteApplies(r)
  BY <1>5 DEF RemoteApplies, OutboxInv, TypeOK, CallInv, RowInv, Current, Effects, Calls
<1>6. CASE ReplyArrives(r) \/ ActFails(r)
  BY <1>6 DEF ReplyArrives, ActFails, ErrorOutcome, Close, OutboxInv, TypeOK, CallInv,
              RowInv, Current, Effects, Calls, Status
<1>7. CASE Over(r)
  BY <1>7 DEF Over, OutboxInv, TypeOK, CallInv, RowInv, Current, Effects, Calls
<1> QED BY <1>1, <1>2, <1>3, <1>4, <1>5, <1>6, <1>7 DEF RunStep

\* Late requests and operator resolutions keep it too: the invariant is
\* inductive.
LEMMA InvInductive == OutboxInv /\ [Next]_vars => OutboxInv'
<1> SUFFICES ASSUME OutboxInv, [Next]_vars PROVE OutboxInv'
  OBVIOUS
<1>1. CASE UNCHANGED vars
  BY <1>1, Zenon DEF vars, OutboxInv, TypeOK, CallInv, RowInv, Current
<1>2. ASSUME NEW e \in Effects, LandsLate(e) PROVE OutboxInv'
  <2>1. \A r \in Runs : call[r] # "idle" => Current(r) # e
    BY <1>2 DEF LandsLate, OutboxInv, CallInv, TypeOK, Calls, Current, Effects
  <2>2. TypeOK' /\ \A r \in Runs : CallInv(r)'
    BY <2>1, <1>2 DEF LandsLate, OutboxInv, TypeOK, CallInv, Current
  <2>3. \A f \in Effects : RowInv(f)'
    BY <1>2 DEF LandsLate, OutboxInv, TypeOK, RowInv
  <2> QED BY <2>2, <2>3 DEF OutboxInv
<1>3. ASSUME NEW e \in Effects, OperatorResolves(e) PROVE OutboxInv'
  <2>1. \A r \in Runs : call[r] # "idle" => Current(r) # e
    BY <1>3 DEF OperatorResolves, OutboxInv, CallInv, TypeOK, Calls, Current, Effects
  <2>2. TypeOK' /\ \A r \in Runs : CallInv(r)'
    BY <2>1, <1>3 DEF OperatorResolves, OutboxInv, TypeOK, CallInv, Current, Status, Effects
  <2>3. \A f \in Effects : RowInv(f)'
    BY <1>3 DEF OperatorResolves, OutboxInv, TypeOK, RowInv, Effects
  <2> QED BY <2>2, <2>3 DEF OutboxInv
<1> QED BY <1>1, <1>2, <1>3, RunStepKeepsInv DEF Next

\* Every reachable state of the outbox satisfies the invariant.
THEOREM OutboxInvariant == Spec => []OutboxInv
  BY InitInv, InvInductive, PTL DEF Spec

\* The outbox rows and the calls that write them keep their types.
THEOREM Typing == Spec => []TypeOK
<1>1. OutboxInv => TypeOK
  BY DEF OutboxInv
<1> QED BY <1>1, OutboxInvariant, PTL

\* #withOutbox never misstates the remote, for any number of runs sharing the
\* store, lost replies, crashes and requests that land late.
THEOREM StoreIsTruthful == Spec => []OutboxTruthful
<1>1. OutboxInv => OutboxTruthful
  BY DEF OutboxInv, RowInv, OutboxTruthful, Pending, PendingStatus
<1> QED BY <1>1, OutboxInvariant, PTL

\* A closed row is never reopened and what it says stays true.
THEOREM ClosedRowsAreFinal == Spec => ClosedIsFinal
<1>1. OutboxInv /\ [Next]_vars =>
        [\A e \in Effects :
           row[e] \in {"confirmed", "notApplied"} =>
             row'[e] = row[e] /\ (e \in applied' <=> e \in applied)]_vars
  <2> SUFFICES ASSUME OutboxInv, Next, NEW e \in Effects,
                      row[e] \in {"confirmed", "notApplied"}
               PROVE  row'[e] = row[e] /\ (e \in applied' <=> e \in applied)
    OBVIOUS
  <2>1. ASSUME NEW r \in Runs, RunStep(r)
        PROVE  row'[e] = row[e] /\ (e \in applied' <=> e \in applied)
    <3>1. TypeOK /\ CallInv(r)
      BY DEF OutboxInv
    <3>2. CASE Start(r) \/ Over(r)
      BY <3>2 DEF Start, Over
    <3>3. CASE \E o \in Ops : Intend(r, o)
      BY <3>1, <3>3 DEF Intend, TypeOK
    <3>4. CASE FencePasses(r) \/ FenceRefuses(r)
      BY <3>1, <3>4 DEF FencePasses, FenceRefuses, Close, TypeOK, CallInv
    <3>5. CASE RemoteApplies(r) \/ ReplyArrives(r) \/ ActFails(r) \/ NotStarted(r)
      BY <3>1, <3>5 DEF RemoteApplies, ReplyArrives, ActFails, NotStarted, Close, TypeOK,
                        CallInv
    <3> QED BY <2>1, <3>2, <3>3, <3>4, <3>5 DEF RunStep
  <2>2. ASSUME NEW f \in Effects, LandsLate(f) \/ OperatorResolves(f)
        PROVE  row'[e] = row[e] /\ (e \in applied' <=> e \in applied)
    BY <2>2 DEF LandsLate, OperatorResolves, Pending, PendingStatus, OutboxInv, TypeOK
  <2> QED BY <2>1, <2>2 DEF Next
<1> QED BY <1>1, OutboxInvariant, PTL DEF Spec, ClosedIsFinal
=============================================================================
