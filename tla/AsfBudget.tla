------------------------------ MODULE AsfBudget ------------------------------
(***************************************************************************)
(* The provider budget of one ASF run (src/src/state/store.ts,             *)
(* src/src/asf/budget.ts and their callers in                              *)
(* src/src/asf/delivery-runner.ts).  Before a provider is called the owner *)
(* reserves all that is left of the budget; afterwards the reservation is  *)
(* replaced by the cost the provider reports.  A reservation whose call    *)
(* nobody can account for is charged in full when its intent is            *)
(* reconciled.                                                             *)
(*                                                                         *)
(* Abstractions.  Money is counted in units of which Unit make a           *)
(* micro-dollar, the unit of the ledger.  Provider effects come one after  *)
(* the other, as the stages that need a provider do.  Identifiers and      *)
(* digests are the effect's number.  "frozen" stands for the phases that   *)
(* freeze external authority, "planned" for a terminal plan on record.     *)
(***************************************************************************)
EXTENDS Integers, FiniteSets

CONSTANTS Workers,          \* the hosts that may own the run
          MaxCostUsd,       \* admitted cost, in units
          Unit,             \* units in a micro-dollar
          MaxInvocations,   \* admitted provider calls
          NEffects,         \* provider effects the run would like to have
          Overrun,          \* what a provider may spend beyond its cap
          MaxGeneration     \* bound on claims

ASSUME AsfBudgetAssumption ==
  /\ {MaxCostUsd, NEffects, Overrun, MaxGeneration} \subseteq Nat
  /\ Unit \in Nat \ {0} /\ MaxInvocations \in Nat \ {0}

Effects == 1 .. NEffects
None == 0

\* asfCostLimitUsdToMicros and asfObservedCostUsdToMicros: a limit is rounded
\* down, what was spent is rounded up.
Floor(x) == x \div Unit
\* Mutant: what was spent is rounded down as well.
CeilDown(x) == x \div Unit
Ceil(x) == (x + Unit - 1) \div Unit
MaxCostMicros == Floor(MaxCostUsd)

VARIABLES owner, generation,
          w,          \* w[h]: what host h is doing, and for which effect
          at,         \* the effect the life cycle has come to
          intent,     \* the delivery intent of every effect
          row,        \* the ledger
          call,       \* the provider's side of every effect
          late,       \* the wall deadline has passed
          frozen, planned, stopped

vars == <<owner, generation, w, at, intent, row, call, late, frozen, planned, stopped>>

NoRow == [status |-> "none", reserved |-> 0, actual |-> 0, by |-> 0]
Idle == [pc |-> "idle", gen |-> 0, e |-> 1, mode |-> "none", cap |-> 0]

TypeOK ==
  /\ owner \in Workers \cup {None} /\ generation \in 0 .. MaxGeneration
  /\ w \in [Workers -> [pc : {"idle", "stage", "intended", "authorized", "calling",
                              "completed", "exceeded", "ending"},
                        gen : 0 .. MaxGeneration, e : Effects \cup {NEffects + 1},
                        mode : {"none", "observe-before-apply", "reconcile-only"},
                        cap : 0 .. MaxCostMicros]]
  /\ at \in Effects \cup {NEffects + 1}
  /\ intent \in [Effects -> {"none", "open", "confirmed", "not_applied"}]
  /\ row \in [Effects -> [status : {"none", "reserved", "completed", "settled_unknown",
                                    "denied"},
                          reserved : 0 .. MaxCostMicros, actual : Nat, by : 0 .. MaxGeneration]]
  /\ call \in [Effects -> [state : {"none", "running", "done"}, times : 0 .. 2, cap : Nat,
                           spent : Nat]]
  /\ {late, frozen, planned, stopped} \subseteq BOOLEAN

Init ==
  /\ owner = None /\ generation = 0 /\ at = 1
  /\ w = [h \in Workers |-> Idle]
  /\ intent = [e \in Effects |-> "none"] /\ row = [e \in Effects |-> NoRow]
  /\ call = [e \in Effects |-> [state |-> "none", times |-> 0, cap |-> 0, spent |-> 0]]
  /\ late = FALSE /\ frozen = FALSE /\ planned = FALSE /\ stopped = FALSE

-----------------------------------------------------------------------------
(* The ledger. *)

With(status) == {e \in Effects : row[e].status = status}

\* The sum of an amount over the effects.
Total(amount) ==
  LET upto[n \in 0 .. NEffects] == IF n = 0 THEN 0 ELSE upto[n - 1] + amount[n]
  IN upto[NEffects]

\* #asfProviderBudgetUsage: spent, charged and still reserved, together.
Charge ==
  [e \in Effects |-> CASE row[e].status \in {"completed", "settled_unknown"} -> row[e].actual
                       [] row[e].status = "reserved" -> row[e].reserved
                       [] OTHER -> 0]
ConservativeCost == Total(Charge)
Counted == With("reserved") \cup With("completed") \cup With("settled_unknown")
InvocationCount == Cardinality(Counted)

\* listAsfProviderBudgetReservations: the shape of a row in every status.
RowShape(e) ==
  LET r == row[e]
  IN CASE r.status = "reserved" -> r.actual = 0 /\ r.by = 0
       [] r.status = "completed" -> r.by > 0 /\ r.by <= generation
       [] r.status = "settled_unknown" -> r.actual = r.reserved /\ r.by > 0 /\ r.by <= generation
       [] r.status = "denied" -> r.reserved = 0 /\ r.actual = 0
       [] OTHER -> TRUE

\* #assertCurrentAsfBudgetBinding.
Bound(h) == owner = h /\ w[h].gen = generation

\* checkAsfRunBudget.
Exhausted == late \/ ConservativeCost > MaxCostMicros

\* reserveAsfProviderBudget, for an effect without a reservation.
Denial ==
  IF late THEN "wall-deadline"
  ELSE IF InvocationCount >= MaxInvocations THEN "invocation-limit"
  ELSE IF MaxCostMicros - ConservativeCost <= 0 THEN "cost-limit"
  ELSE "none"

\* #settleUnknownAsfProviderBudgetForIntent: the full reservation is charged,
\* also when the effect was not applied, for the call may have been made.
Settled(e, outcome, gen) ==
  IF row[e].status = "reserved"
  THEN [row EXCEPT ![e].status = "settled_unknown", ![e].actual = row[e].reserved, ![e].by = gen]
  ELSE row

\* #settleResolvedAsfProviderBudgets: a reservation whose intent is resolved
\* is settled before the evidence is drawn up.
Resettled ==
  [e \in Effects |-> IF intent[e] \in {"confirmed", "not_applied"}
                     THEN Settled(e, intent[e], generation)[e] ELSE row[e]]

\* getAsfProviderBudgetEvidenceSummary: every invocation that is charged says
\* which owner ended it.
Accounted(e) == row[e].status \in {"completed", "settled_unknown"} => row[e].by > 0

-----------------------------------------------------------------------------
(* The owner. *)

Keeps(h, pc) == w' = [w EXCEPT ![h].pc = pc]
Leaves(h) == w' = [w EXCEPT ![h] = Idle]

\* claimAsfRun; a takeover leaves the old owner running.
Claim(h) ==
  /\ generation < MaxGeneration /\ owner # h /\ w[h].pc = "idle" /\ ~planned
  /\ owner' = h /\ generation' = generation + 1
  /\ w' = [w EXCEPT ![h] = [Idle EXCEPT !.pc = IF stopped THEN "ending" ELSE "stage",
                                        !.gen = generation + 1]]
  /\ UNCHANGED <<at, intent, row, call, late, frozen, planned, stopped>>

\* A worker that lost the run finds out at its next write.
Fenced(h) ==
  /\ w[h].pc # "idle" /\ ~Bound(h) /\ Leaves(h)
  /\ UNCHANGED <<owner, generation, at, intent, row, call, late, frozen, planned, stopped>>
Crash(h) ==
  /\ owner = h /\ w[h].pc # "idle" /\ generation < MaxGeneration
  /\ owner' = None /\ Leaves(h)
  /\ UNCHANGED <<generation, at, intent, row, call, late, frozen, planned, stopped>>

\* The run goes on to its cleanup: #budgetStop, or an error of the runner.
Ends(h) == stopped' = TRUE /\ Keeps(h, "ending")

\* #assertRunBudget, then #intent.  An effect may be applied under a new
\* intent, or under the one replay a not-applied answer grants; any other
\* intent may only be reconciled.
Intend(h) ==
  /\ w[h].pc = "stage" /\ Bound(h) /\ at \in Effects
  /\ \/ Exhausted /\ Ends(h) /\ UNCHANGED intent
     \/ /\ ~Exhausted /\ ~frozen /\ ~planned
        /\ intent' = [intent EXCEPT ![at] = IF @ = "confirmed" THEN @ ELSE "open"]
        /\ w' = [w EXCEPT ![h].pc = "intended", ![h].e = at,
                          ![h].mode = IF intent[at] \in {"none", "not_applied"}
                                      THEN "observe-before-apply" ELSE "reconcile-only"]
        /\ UNCHANGED stopped
  /\ UNCHANGED <<owner, generation, at, row, call, late, frozen, planned>>

\* #reserveProviderBudget on a denial: the intent is confirmed as one that did
\* nothing.
Denied(h, e) == intent' = [intent EXCEPT ![e] = "confirmed"] /\ Ends(h)

\* reserveAsfProviderBudget: the request binds the intent on record, and a
\* frozen run makes no new reservation.
MayReserve(h) ==
  /\ w[h].pc = "intended" /\ Bound(h) /\ intent[w[h].e] # "none"
  /\ frozen => row[w[h].e].status # "none"

\* reserveAsfProviderBudget, first call: everything that is left is reserved.
ReserveNew(h) ==
  LET e == w[h].e
      left == MaxCostMicros - ConservativeCost
  IN /\ MayReserve(h) /\ row[e].status = "none" /\ ~planned
     /\ \/ /\ Denial = "none"
           /\ row' = [row EXCEPT ![e].status = "reserved", ![e].reserved = left]
           /\ w' = [w EXCEPT ![h].pc = "authorized", ![h].cap = left]
           /\ UNCHANGED <<intent, stopped>>
        \/ /\ Denial # "none"
           /\ row' = [row EXCEPT ![e].status = "denied"]
           /\ Denied(h, e)
     /\ UNCHANGED <<owner, generation, at, call, late, frozen, planned>>

\* Mutant: a replay is authorized like the first request.
ReserveAgainInvokes(h) ==
  /\ MayReserve(h) /\ row[w[h].e].status # "none"
  /\ w' = [w EXCEPT ![h].pc = "authorized", ![h].mode = "observe-before-apply",
                    ![h].cap = row[w[h].e].reserved]
  /\ UNCHANGED <<owner, generation, at, intent, row, call, late, frozen, planned, stopped>>

\* reserveAsfProviderBudget, replayed: what was reserved or completed may only
\* be reconciled, which a runner that expects to invoke refuses; what was
\* charged or denied is exhausted.
ReserveAgain(h) ==
  /\ MayReserve(h) /\ row[w[h].e].status # "none"
  /\ \/ /\ row[w[h].e].status \in {"reserved", "completed"}
        /\ \/ w[h].mode = "reconcile-only" /\ Keeps(h, "authorized") /\ UNCHANGED stopped
           \/ w[h].mode # "reconcile-only" /\ Ends(h)
        /\ UNCHANGED intent
     \/ row[w[h].e].status \in {"settled_unknown", "denied"} /\ Denied(h, w[h].e)
  /\ UNCHANGED <<owner, generation, at, row, call, late, frozen, planned>>

\* The provider is called: nothing is asked of the store any more.
Invoke(h) ==
  /\ w[h].pc = "authorized" /\ w[h].mode = "observe-before-apply"
  /\ call' = [call EXCEPT ![w[h].e].state = "running", ![w[h].e].cap = w[h].cap,
                          ![w[h].e].times = IF @ < 2 THEN @ + 1 ELSE @]
  /\ Keeps(h, "calling")
  /\ UNCHANGED <<owner, generation, at, intent, row, late, frozen, planned, stopped>>

\* The provider ends, within its cap or somewhat beyond it.
ProviderEnds(e) ==
  /\ call[e].state = "running"
  /\ \E spent \in 0 .. call[e].cap * Unit + Overrun :
       call' = [call EXCEPT ![e].state = "done", ![e].spent = @ + spent]
  /\ UNCHANGED <<owner, generation, w, at, intent, row, late, frozen, planned, stopped>>

\* The result the owner holds: its own call's, or one it could observe.
HasResult(h) ==
  /\ w[h].pc = "calling" \/ (w[h].pc = "authorized" /\ w[h].mode = "reconcile-only")
  /\ call[w[h].e].state = "done"
Verdict(h, e) == IF late \/ row'[e].actual > row[e].reserved THEN "exceeded" ELSE "completed"

\* completeAsfProviderBudget, by the caller or by the owner that reconciles.
Complete(h) ==
  LET e == w[h].e
  IN /\ HasResult(h) /\ Bound(h) /\ ~frozen
     /\ row[e].status \in {"reserved", "completed"}
     /\ row[e].status = "completed" => row[e].actual = Ceil(call[e].spent)
     /\ row' = IF row[e].status = "completed" THEN row
               ELSE [row EXCEPT ![e] = [@ EXCEPT !.status = "completed",
                                          !.actual = Ceil(call[e].spent), !.by = generation]]
     /\ Keeps(h, Verdict(h, e))
     /\ UNCHANGED <<owner, generation, at, intent, call, late, frozen, planned, stopped>>

\* #effect confirms the intent; only then does a completion that came too late
\* or cost too much stop the run.
Confirm(h) ==
  /\ w[h].pc \in {"completed", "exceeded"} /\ Bound(h) /\ ~frozen
  /\ intent' = [intent EXCEPT ![w[h].e] = "confirmed"]
  /\ \/ w[h].pc = "exceeded" /\ Ends(h) /\ UNCHANGED at
     \/ w[h].pc = "completed" /\ Keeps(h, "stage") /\ at' = w[h].e + 1 /\ UNCHANGED stopped
  /\ UNCHANGED <<owner, generation, row, call, late, frozen, planned>>

\* A controller that learns nothing, or rejects the result, stops before the
\* completion: the reservation stays open and the run is blocked.
GivesUp(h) ==
  /\ w[h].pc \in {"authorized", "calling", "ending"} /\ Bound(h)
  /\ owner' = None /\ Leaves(h)
  /\ UNCHANGED <<generation, at, intent, row, call, late, frozen, planned, stopped>>

-----------------------------------------------------------------------------
(* The end of a run, and the others. *)

\* resolveAsfDeliveryIntentReconciliation: the operator's answer settles the
\* reservation in the same transaction, and is refused for one that was
\* settled under an earlier answer.
Reconcile(e, outcome) ==
  /\ owner = None /\ intent[e] = "open" /\ ~planned /\ generation < MaxGeneration
  /\ row[e].status # "settled_unknown"
  /\ generation' = generation + 1
  /\ intent' = [intent EXCEPT ![e] = outcome]
  /\ row' = Settled(e, outcome, generation + 1)
  /\ UNCHANGED <<owner, w, at, call, late, frozen, planned, stopped>>

\* prepareAsfTerminalProviderBudgetEvidence with the plan that follows: only
\* when every row can be read and nothing is open.
Plan(h) ==
  /\ ~planned /\ Bound(h)
  /\ w[h].pc = "ending" \/ (w[h].pc = "stage" /\ (frozen \/ at \notin Effects))
  /\ \A e \in Effects : RowShape(e) /\ Accounted(e) /\ intent[e] # "open"
  /\ row' = Resettled /\ \A e \in Effects : row'[e].status # "reserved"
  /\ planned' = TRUE /\ Leaves(h) /\ owner' = None
  /\ UNCHANGED <<generation, at, intent, call, late, frozen, stopped>>

DeadlinePasses ==
  /\ ~late /\ late' = TRUE
  /\ UNCHANGED <<owner, generation, w, at, intent, row, call, frozen, planned, stopped>>

\* requestAsfCancellation.
Cancel ==
  /\ ~frozen /\ ~planned /\ frozen' = TRUE
  /\ UNCHANGED <<owner, generation, w, at, intent, row, call, late, planned, stopped>>

Finished == planned
Next ==
  \/ \E h \in Workers : Claim(h) \/ Fenced(h) \/ Crash(h) \/ Intend(h) \/ ReserveNew(h)
                          \/ ReserveAgain(h) \/ Invoke(h) \/ Complete(h)
                          \/ Confirm(h) \/ GivesUp(h) \/ Plan(h)
  \/ \E e \in Effects : ProviderEnds(e)
  \/ \E e \in Effects, outcome \in {"confirmed", "not_applied"} : Reconcile(e, outcome)
  \/ DeadlinePasses \/ Cancel
  \/ Finished /\ UNCHANGED vars
Spec == Init /\ [][Next]_vars

-----------------------------------------------------------------------------
(* Properties. *)

Spent == Total([e \in Effects |-> call[e].spent])

\* No provider effect is ever bought twice, whoever takes the run over and
\* however often the reservation is asked for.
CalledOnce == \A e \in Effects : call[e].times <= 1

\* What providers really spent, and how often they were called, stays within
\* what was admitted, but for the overrun of a single call: fractions of a
\* micro-dollar, crashes and calls nobody can account for included.
WithinBudget ==
  /\ Spent <= MaxCostMicros * Unit + Overrun
  /\ Cardinality({e \in Effects : call[e].times > 0}) <= MaxInvocations
=============================================================================
