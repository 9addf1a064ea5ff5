------------------------ MODULE AsfInvocationProofs ------------------------
(***************************************************************************)
(* The invocation of a provider, from both sides: what it costs            *)
(* (AsfBudget) and what it may do (AsfHarness), for any number of workers, *)
(* owners, effects and calls, and any limits.                              *)
(*                                                                         *)
(* What it costs.  The right to call exists for one worker at a time, it   *)
(* is created with the ledger row of its effect, and a row is never        *)
(* removed: no effect is bought twice.  A reservation takes all that is    *)
(* left, so that one row at most is open, and while it is everything is    *)
(* charged: no second call can spend what the first one may.               *)
(*                                                                         *)
(* What it may do.  Nothing runs outside the race, the owner is never      *)
(* ahead of the fence, and once a tool has started behind a fence that was *)
(* lost no tool and no result is cleared any more.                         *)
(***************************************************************************)
EXTENDS AsfBudget, AsfHarness, FiniteSetTheorems, SequenceTheorems, WellFoundedInduction, TLAPS

-----------------------------------------------------------------------------
(* Sums over the effects.                                                  *)

\* Induction over the natural numbers, for a set.
LEMMA Induction ==
  ASSUME NEW T \in SUBSET Nat, 0 \in T, \A n \in T : n + 1 \in T
  PROVE  T = Nat
<1> DEFINE R == OpToRel(<, Nat)
<1>1. \A m, n \in Nat : m < n => <<m, n>> \in R
  BY DEF OpToRel
<1>2. IsWellFoundedOn(R, Nat)
  BY NatLessThanWellFounded
<1> HIDE DEF R
<1>3. SUFFICES ASSUME Nat \ T # {} PROVE FALSE
  OBVIOUS
<1>4. PICK n \in Nat \ T : \A m \in Nat \ T : ~ (<<m, n>> \in R)
  BY <1>2, <1>3, WFMin
<1>5. n - 1 \in Nat /\ n - 1 < n
  BY <1>4
<1>6. n - 1 \in T
  BY <1>1, <1>4, <1>5
<1> QED BY <1>4, <1>5, <1>6

\* s is the sequence of the partial sums.
Adds(s, f, m) ==
  /\ s \in [0 .. m -> Nat]
  /\ \A n \in 0 .. m : s[n] = IF n = 0 THEN 0 ELSE s[n - 1] + f[n]

\* Every amount has its partial sums.
LEMMA Partial ==
  ASSUME NEW f \in [Effects -> Nat]
  PROVE  \E s : Adds(s, f, NEffects)
<1> DEFINE T == {m \in Nat : m <= NEffects => \E s : Adds(s, f, m)}
<1>1. 0 \in T
  <2>1. Adds([n \in {0} |-> 0], f, 0)
    BY DEF Adds, Effects
  <2> QED BY <2>1
<1>2. ASSUME NEW m \in T PROVE m + 1 \in T
  <2>1. SUFFICES ASSUME m + 1 <= NEffects PROVE \E s : Adds(s, f, m + 1)
    OBVIOUS
  <2>2. PICK s : Adds(s, f, m)
    BY AsfBudgetAssumption, <2>1
  <2> DEFINE t == [n \in 0 .. m + 1 |-> IF n = m + 1 THEN s[m] + f[m + 1] ELSE s[n]]
  <2>3. m \in Nat /\ m + 1 \in Effects /\ m \in 0 .. m /\ m + 1 \notin 0 .. m
    BY AsfBudgetAssumption, <2>1 DEF Effects
  <2>4. s[m] \in Nat /\ f[m + 1] \in Nat
    BY <2>2, <2>3 DEF Adds, Effects
  <2>5. t \in [0 .. m + 1 -> Nat]
    BY <2>2, <2>3, <2>4 DEF Adds, Effects
  <2>6. ASSUME NEW n \in 0 .. m + 1 PROVE t[n] = IF n = 0 THEN 0 ELSE t[n - 1] + f[n]
    <3>1. CASE n = m + 1
      BY <2>3, <3>1
    <3>2. CASE n # m + 1
      <4>1. n \in 0 .. m /\ (n # 0 => n - 1 \in 0 .. m + 1 /\ n - 1 # m + 1)
        BY <2>3, <3>2
      <4> QED BY <2>2, <3>2, <4>1 DEF Adds, Effects
    <3> QED BY <3>1, <3>2
  <2> HIDE DEF t
  <2>7. Adds(t, f, m + 1)
    BY <2>5, <2>6 DEF Adds, Effects
  <2> QED BY <2>7
<1> HIDE DEF T
<1>3. T = Nat
  BY <1>1, <1>2, Induction DEF T
<1>4. NEffects \in T
  BY AsfBudgetAssumption, <1>3
<1>5. NEffects <= NEffects
  BY AsfBudgetAssumption
<1> QED BY <1>4, <1>5 DEF T

\* Total is the last of them.
LEMMA TotalAdds ==
  ASSUME NEW f \in [Effects -> Nat]
  PROVE  \E s : Adds(s, f, NEffects) /\ Total(f) = s[NEffects]
<1> DEFINE P(s) == s = [n \in 0 .. NEffects |-> IF n = 0 THEN 0 ELSE s[n - 1] + f[n]]
           u == CHOOSE s : P(s)
<1>1. PICK s : Adds(s, f, NEffects)
  BY Partial
<1>2. P(s)
  BY <1>1 DEF Adds, Effects
<1>3. P(u)
  BY <1>2
<1>4. Total(f) = u[NEffects]
  BY DEF Total
<1> HIDE DEF u
<1> DEFINE T == {n \in Nat : n <= NEffects => u[n] = s[n]}
<1>5. 0 \in T
  BY AsfBudgetAssumption, <1>1, <1>3 DEF Adds, Effects
<1>6. ASSUME NEW n \in T PROVE n + 1 \in T
  <2>1. SUFFICES ASSUME n + 1 <= NEffects PROVE u[n + 1] = s[n + 1]
    OBVIOUS
  <2>2. n + 1 \in 0 .. NEffects /\ n + 1 # 0 /\ n + 1 - 1 = n /\ n <= NEffects
    BY AsfBudgetAssumption, <2>1
  <2>3. u[n] = s[n]
    BY <2>2
  <2>4. u[n + 1] = u[n] + f[n + 1] /\ s[n + 1] = s[n] + f[n + 1]
    BY <1>1, <1>3, <2>2 DEF Adds, Effects
  <2> QED BY <2>3, <2>4
<1>7. NEffects \in T
  <2> HIDE DEF T
  <2>1. T \in SUBSET Nat
    BY DEF T
  <2> QED BY AsfBudgetAssumption, <1>5, <1>6, <2>1, Induction
<1>8. u[NEffects] = s[NEffects]
  BY AsfBudgetAssumption, <1>7
<1> QED BY <1>1, <1>4, <1>8

\* A sum of amounts is one.
LEMMA TotalType ==
  ASSUME NEW f \in [Effects -> Nat]
  PROVE  Total(f) \in Nat
<1>1. PICK s : Adds(s, f, NEffects) /\ Total(f) = s[NEffects]
  BY TotalAdds
<1> QED BY AsfBudgetAssumption, <1>1 DEF Adds

\* One amount is changed.
LEMMA TotalUpdate ==
  ASSUME NEW f \in [Effects -> Nat], NEW e \in Effects, NEW v \in Nat
  PROVE  Total([f EXCEPT ![e] = v]) = Total(f) - f[e] + v
<1> DEFINE g == [f EXCEPT ![e] = v]
<1>1. g \in [Effects -> Nat] /\ g[e] = v /\ \A k \in Effects \ {e} : g[k] = f[k]
  OBVIOUS
<1> HIDE DEF g
<1>2. PICK s : Adds(s, f, NEffects) /\ Total(f) = s[NEffects]
  BY TotalAdds
<1>3. PICK t : Adds(t, g, NEffects) /\ Total(g) = t[NEffects]
  BY <1>1, TotalAdds
<1> DEFINE T == {n \in Nat : n <= NEffects => t[n] = s[n] + IF n < e THEN 0 ELSE v - f[e]}
<1>4. e \in Nat /\ 0 < e /\ e <= NEffects /\ NEffects \in Nat
  BY AsfBudgetAssumption DEF Effects
<1>5. 0 \in T
  BY <1>2, <1>3, <1>4 DEF Adds
<1>6. ASSUME NEW n \in T PROVE n + 1 \in T
  <2>1. SUFFICES ASSUME n + 1 <= NEffects
                 PROVE  t[n + 1] = s[n + 1] + IF n + 1 < e THEN 0 ELSE v - f[e]
    OBVIOUS
  <2>2. n + 1 \in 0 .. NEffects /\ n \in 0 .. NEffects /\ n + 1 # 0 /\ n + 1 - 1 = n
        /\ n + 1 \in Effects
    BY <1>4, <2>1 DEF Effects
  <2>3. s[n + 1] = s[n] + f[n + 1] /\ t[n + 1] = t[n] + g[n + 1]
    BY <1>2, <1>3, <2>2 DEF Adds
  <2>4. s[n] \in Nat /\ t[n] \in Nat /\ f[n + 1] \in Nat /\ f[e] \in Nat
    BY <1>2, <1>3, <2>2 DEF Adds
  <2>5. t[n] = s[n] + IF n < e THEN 0 ELSE v - f[e]
    BY <2>1, <2>2, <1>4
  <2>6. CASE n + 1 = e
    BY <1>1, <1>4, <2>3, <2>4, <2>5, <2>6
  <2>7. CASE n + 1 # e
    <3>1. g[n + 1] = f[n + 1]
      BY <1>1, <2>2, <2>7
    <3>2. (n + 1 < e) <=> (n < e)
      BY <1>4, <2>7
    <3> QED BY <2>3, <2>4, <2>5, <3>1, <3>2
  <2> QED BY <2>6, <2>7
<1>7. NEffects \in T
  <2> HIDE DEF T
  <2>1. T \in SUBSET Nat
    BY DEF T
  <2> QED BY <1>4, <1>5, <1>6, <2>1, Induction
<1>8. t[NEffects] = s[NEffects] + (v - f[e]) /\ s[NEffects] \in Nat /\ f[e] \in Nat
  BY <1>2, <1>4, <1>7 DEF Adds
<1> QED BY <1>2, <1>3, <1>8 DEF g

\* Each amount is within a multiple of another.
LEMMA TotalBound ==
  ASSUME NEW f \in [Effects -> Nat], NEW g \in [Effects -> Nat], NEW u \in Nat,
         \A e \in Effects : f[e] <= u * g[e]
  PROVE  Total(f) <= u * Total(g)
<1>1. PICK s : Adds(s, f, NEffects) /\ Total(f) = s[NEffects]
  BY TotalAdds
<1>2. PICK t : Adds(t, g, NEffects) /\ Total(g) = t[NEffects]
  BY TotalAdds
<1> DEFINE T == {n \in Nat : n <= NEffects => s[n] <= u * t[n]}
<1>3. NEffects \in Nat
  BY AsfBudgetAssumption
<1>4. 0 \in T
  BY <1>1, <1>2, <1>3 DEF Adds
<1>5. ASSUME NEW n \in T PROVE n + 1 \in T
  <2>1. SUFFICES ASSUME n + 1 <= NEffects PROVE s[n + 1] <= u * t[n + 1]
    OBVIOUS
  <2>2. n + 1 \in 0 .. NEffects /\ n \in 0 .. NEffects /\ n + 1 # 0 /\ n + 1 - 1 = n
        /\ n + 1 \in Effects
    BY <1>3, <2>1 DEF Effects
  <2>3. s[n + 1] = s[n] + f[n + 1] /\ t[n + 1] = t[n] + g[n + 1]
    BY <1>1, <1>2, <2>2 DEF Adds
  <2>4. s[n] \in Nat /\ t[n] \in Nat /\ f[n + 1] \in Nat /\ g[n + 1] \in Nat
    BY <1>1, <1>2, <2>2 DEF Adds
  <2>5. s[n] <= u * t[n] /\ f[n + 1] <= u * g[n + 1]
    BY <1>3, <2>1, <2>2
  <2>6. u * (t[n] + g[n + 1]) = u * t[n] + u * g[n + 1]
    BY <2>4
  <2>7. u * t[n] \in Nat /\ u * g[n + 1] \in Nat
    BY <2>4
  <2> QED BY <2>3, <2>4, <2>5, <2>6, <2>7
<1>6. NEffects \in T
  <2> HIDE DEF T
  <2>1. T \in SUBSET Nat
    BY DEF T
  <2> QED BY <1>3, <1>4, <1>5, <2>1, Induction
<1> QED BY <1>1, <1>2, <1>3, <1>6

\* Micro-dollars: rounding up covers the amount, rounding down stays below it.
LEMMA Rounding ==
  ASSUME NEW n \in Nat
  PROVE  /\ Ceil(n) \in Nat /\ n <= Unit * Ceil(n)
         /\ Floor(n) \in Nat
<1>1. Unit \in Nat /\ Unit > 0
  BY AsfBudgetAssumption
<1>2. /\ (n + Unit - 1) \div Unit \in Nat
      /\ n + Unit - 1 < Unit * ((n + Unit - 1) \div Unit) + Unit
  BY <1>1
<1>3. n <= Unit * ((n + Unit - 1) \div Unit)
  <2> DEFINE q == (n + Unit - 1) \div Unit
             p == Unit * q
  <2>1. q \in Nat /\ p \in Nat
    BY <1>1, <1>2
  <2> HIDE DEF q
  <2>2. p \in Nat
    BY <1>1, <2>1
  <2> HIDE DEF p
  <2>3. n + Unit - 1 < p + Unit
    BY <1>2 DEF p, q
  <2>4. n <= p
    BY <1>1, <2>2, <2>3
  <2> QED BY <2>4 DEF p, q
<1>4. n \div Unit \in Nat
  BY <1>1
<1> QED BY <1>2, <1>3, <1>4 DEF Ceil, Floor

-----------------------------------------------------------------------------
(* The right to call.                                                      *)

\* The records.
Proc == [pc : {"idle", "stage", "intended", "authorized", "calling", "completed",
               "exceeded", "ending"},
         gen : Nat, e : Nat, mode : {"none", "observe-before-apply", "reconcile-only"},
         cap : Nat]
Rows == [status : {"none", "reserved", "completed", "settled_unknown", "denied"},
         reserved : Nat, actual : Nat, by : Nat]
Calls == [state : {"none", "running", "done"}, times : Nat, cap : Nat, spent : Nat]

Typed ==
  /\ generation \in Nat /\ at \in Nat
  /\ w \in [Workers -> Proc]
  /\ row \in [Effects -> Rows]
  /\ call \in [Effects -> Calls]

\* The worker is about to call the provider.
Cleared(h) == w[h].pc = "authorized" /\ w[h].mode = "observe-before-apply"

\* A worker past its intent has an effect in hand.
InHand == \A h \in Workers : w[h].pc \in {"intended", "authorized"} => w[h].e \in Effects

\* The right to call comes with a row and before any call,
ClearedFirst ==
  \A h \in Workers : Cleared(h) => row[w[h].e].status # "none" /\ call[w[h].e].times = 0

\* and nobody else has it.
ClearedOnce ==
  \A h, k \in Workers : Cleared(h) /\ Cleared(k) /\ w[h].e = w[k].e => h = k

\* What was called has a row.
CalledHasRow ==
  \A e \in Effects : call[e].times \in {0, 1} /\ (call[e].times = 1 => row[e].status # "none")

Rights == InHand /\ ClearedFirst /\ ClearedOnce /\ CalledHasRow
CallInv == Typed /\ Rights

\* Nothing any action does to the ledger removes a row.
RowsStay == \A e \in Effects : row[e].status # "none" => row'[e].status # "none"

\* What is charged is an amount, and so is what is admitted.
LEMMA ChargeType ==
  ASSUME Typed
  PROVE  /\ Charge \in [Effects -> Nat] /\ ConservativeCost \in Nat
         /\ MaxCostMicros \in Nat
<1>1. Charge \in [Effects -> Nat]
  BY DEF Charge, Typed, Rows
<1>2. MaxCostMicros \in Nat
  BY AsfBudgetAssumption, Rounding DEF MaxCostMicros
<1> QED BY <1>1, <1>2, TotalType DEF ConservativeCost

\* Before the first claim.
LEMMA InitHolds == Init => CallInv
<1> SUFFICES ASSUME Init PROVE CallInv OBVIOUS
<1>1. Typed
  BY DEF Init, Typed, Proc, Rows, Calls, Idle, NoRow
<1>2. Rights
  BY DEF Init, Rights, Cleared, InHand, ClearedFirst, ClearedOnce, CalledHasRow, Idle, NoRow
<1> QED BY <1>1, <1>2 DEF CallInv

-----------------------------------------------------------------------------
(* Steps that bring no worker closer to a call. *)

\* Nobody is cleared who was not, and no call is made.
LEMMA CalmStep ==
  ASSUME Rights, UNCHANGED call, RowsStay,
         \A h \in Workers : w'[h].pc \in {"intended", "authorized"} => w'[h].e \in Effects,
         \A h \in Workers : Cleared(h)' => Cleared(h) /\ w'[h].e = w[h].e
  PROVE  Rights'
  BY DEF Rights, Cleared, InHand, ClearedFirst, ClearedOnce, CalledHasRow, RowsStay

\* The same for a step of one worker.
LEMMA CalmWorker ==
  ASSUME Rights, NEW h \in Workers, UNCHANGED call, RowsStay,
         \A k \in Workers \ {h} : w'[k] = w[k],
         w'[h].pc # "authorized",
         w'[h].pc = "intended" => w'[h].e \in Effects
  PROVE  Rights'
<1>1. \A k \in Workers : w'[k].pc \in {"intended", "authorized"} => w'[k].e \in Effects
  BY DEF Rights, InHand
<1>2. \A k \in Workers : Cleared(k)' => Cleared(k) /\ w'[k].e = w[k].e
  BY DEF Cleared
<1> QED BY <1>1, <1>2, CalmStep

\* A worker that starts over, gives up, or comes to an effect.
LEMMA OwnerSteps ==
  ASSUME CallInv, NEW h \in Workers,
         \/ Claim(h) \/ Fenced(h) \/ Crash(h) \/ Intend(h) \/ GivesUp(h) \/ Confirm(h)
  PROVE  CallInv'
<1>1. CASE Claim(h)
  <2> DEFINE fresh == [Idle EXCEPT !.pc = IF stopped THEN "ending" ELSE "stage",
                                   !.gen = generation + 1]
  <2>1. fresh \in Proc /\ fresh.pc \in {"ending", "stage"}
    <3>1. generation + 1 \in Nat BY DEF CallInv, Typed
    <3>2. CASE stopped BY <3>1, <3>2 DEF Proc, Idle
    <3>3. CASE ~stopped BY <3>1, <3>3 DEF Proc, Idle
    <3> QED BY <3>2, <3>3
  <2>2. w' = [w EXCEPT ![h] = fresh] /\ UNCHANGED <<row, call, at>> /\ generation' \in Nat
    BY <1>1 DEF CallInv, Claim, Typed
  <2> HIDE DEF fresh
  <2>3. Typed' BY <2>1, <2>2 DEF CallInv, Typed
  <2>4. /\ w'[h] = fresh /\ \A k \in Workers \ {h} : w'[k] = w[k]
    BY <2>2 DEF CallInv, Typed
  <2>5. Rights' BY <2>1, <2>2, <2>4, CalmWorker DEF CallInv, RowsStay
  <2> QED BY <2>3, <2>5 DEF CallInv
<1>2. CASE Fenced(h) \/ Crash(h) \/ GivesUp(h)
  <2>1. /\ Typed' /\ w'[h].pc = "idle" /\ UNCHANGED <<row, call>>
        /\ \A k \in Workers \ {h} : w'[k] = w[k]
    BY <1>2 DEF CallInv, Fenced, Crash, GivesUp, Leaves, Typed, Proc, Idle
  <2>2. Rights' BY <2>1, CalmWorker DEF CallInv, RowsStay
  <2> QED BY <2>1, <2>2 DEF CallInv
<1>3. CASE Intend(h)
  <2>1. /\ Typed' /\ UNCHANGED <<row, call>>
        /\ \A k \in Workers \ {h} : w'[k] = w[k]
        /\ w'[h].pc = "ending" \/ (w'[h].pc = "intended" /\ w'[h].e \in Effects)
    BY <1>3 DEF CallInv, Intend, Ends, Keeps, Typed, Proc
  <2>2. Rights' BY <2>1, CalmWorker DEF CallInv, RowsStay
  <2> QED BY <2>1, <2>2 DEF CallInv
<1>4. CASE Confirm(h)
  <2>1. /\ Typed' /\ UNCHANGED <<row, call>>
        /\ \A k \in Workers \ {h} : w'[k] = w[k]
        /\ w'[h].pc \in {"ending", "stage"}
    BY <1>4 DEF CallInv, Confirm, Ends, Keeps, Typed, Proc
  <2>2. Rights' BY <2>1, CalmWorker DEF CallInv, RowsStay
  <2> QED BY <2>1, <2>2 DEF CallInv
<1> QED BY <1>1, <1>2, <1>3, <1>4

-----------------------------------------------------------------------------
(* Steps that write rows again. *)

\* A settlement keeps every row.
LEMMA SettledEffect ==
  ASSUME row \in [Effects -> Rows], NEW e \in Effects, NEW o, NEW g \in Nat
  PROVE  /\ Settled(e, o, g) \in [Effects -> Rows]
         /\ \A f \in Effects : row[f].status # "none" => Settled(e, o, g)[f].status # "none"
  BY DEF Rows, Settled

\* completeAsfProviderBudget.
LEMMA CompleteStep ==
  ASSUME CallInv, NEW h \in Workers, Complete(h)
  PROVE  CallInv'
<1> DEFINE e == w[h].e
           done == [row[e] EXCEPT !.status = "completed", !.actual = Ceil(call[e].spent),
                                  !.by = generation]
<1>1. row' = row \/ row' = [row EXCEPT ![e] = done]
  BY DEF Complete
<1>2. /\ Keeps(h, "exceeded") \/ Keeps(h, "completed")
      /\ UNCHANGED <<call, at, generation>>
  BY DEF Complete, Verdict
<1>3. e \in Effects => done \in Rows /\ done.status = "completed"
  <2>1. e \in Effects => Ceil(call[e].spent) \in Nat
    BY Rounding DEF CallInv, Typed, Calls
  <2> QED BY <2>1 DEF CallInv, Typed, Rows
<1> HIDE DEF done
<1>4. row' \in [Effects -> Rows] /\ RowsStay
  BY <1>1, <1>3 DEF RowsStay, CallInv, Typed
<1>5. /\ w' \in [Workers -> Proc] /\ w'[h].pc \in {"exceeded", "completed"}
      /\ \A k \in Workers \ {h} : w'[k] = w[k]
  BY <1>2 DEF Keeps, Proc, CallInv, Typed
<1>6. Rights' BY <1>2, <1>4, <1>5, CalmWorker DEF CallInv
<1> QED BY <1>2, <1>4, <1>5, <1>6 DEF CallInv, Typed

\* prepareAsfTerminalProviderBudgetEvidence and the plan.
LEMMA PlanStep ==
  ASSUME CallInv, NEW h \in Workers, Plan(h)
  PROVE  CallInv'
<1>1. /\ w' = [w EXCEPT ![h] = Idle] /\ row' = Resettled
      /\ UNCHANGED <<call, at, generation>>
  BY DEF Plan, Leaves
<1>2. \A e \in Effects, o \in {"confirmed", "not_applied"} :
        /\ Settled(e, o, generation)[e] \in Rows
        /\ row[e].status # "none" => Settled(e, o, generation)[e].status # "none"
  BY SettledEffect DEF CallInv, Typed
<1>3. \A e \in Effects : row'[e] = IF intent[e] \in {"confirmed", "not_applied"}
                                   THEN Settled(e, intent[e], generation)[e] ELSE row[e]
  BY <1>1 DEF Resettled
<1>4. row' \in [Effects -> Rows]
  <2>1. \A e \in Effects : row'[e] \in Rows
    BY <1>2, <1>3 DEF CallInv, Typed
  <2>2. row' = [e \in Effects |-> row'[e]]
    BY <1>1 DEF Resettled
  <2> QED BY <2>1, <2>2
<1>5. RowsStay BY <1>2, <1>3 DEF RowsStay
<1>6. /\ w' \in [Workers -> Proc] /\ w'[h].pc = "idle"
      /\ \A k \in Workers \ {h} : w'[k] = w[k]
  BY <1>1 DEF CallInv, Typed, Proc, Idle
<1>7. Typed' BY <1>1, <1>4, <1>6 DEF CallInv, Typed
<1>8. Rights' BY <1>1, <1>5, <1>6, CalmWorker DEF CallInv
<1> QED BY <1>7, <1>8 DEF CallInv

\* resolveAsfDeliveryIntentReconciliation.
LEMMA ReconcileStep ==
  ASSUME CallInv, NEW e \in Effects, NEW o \in {"confirmed", "not_applied"}, Reconcile(e, o)
  PROVE  CallInv'
<1>1. /\ generation' = generation + 1 /\ row' = Settled(e, o, generation + 1)
      /\ UNCHANGED <<w, call, at>>
  BY DEF Reconcile
<1>2. generation + 1 \in Nat BY DEF CallInv, Typed
<1>3. row' \in [Effects -> Rows] /\ RowsStay
  BY <1>1, <1>2, SettledEffect DEF CallInv, Typed, RowsStay
<1>4. Typed' BY <1>1, <1>2, <1>3 DEF CallInv, Typed
<1>5. Rights' BY <1>1, <1>3, CalmStep DEF CallInv, Rights, InHand, Cleared
<1> QED BY <1>4, <1>5 DEF CallInv

-----------------------------------------------------------------------------
(* The right to call, and its use. *)

\* The first request creates the row and the right to call together.
LEMMA ReserveNewStep ==
  ASSUME CallInv, NEW h \in Workers, ReserveNew(h)
  PROVE  CallInv'
<1> DEFINE e == w[h].e
           left == MaxCostMicros - ConservativeCost
<1>1. e \in Effects /\ row[e].status = "none" /\ w[h].pc = "intended"
  BY DEF ReserveNew, MayReserve, CallInv, Rights, InHand
<1>2. CASE Denial # "none"
  <2>1. /\ Typed' /\ UNCHANGED call /\ RowsStay
        /\ w'[h].pc = "ending" /\ \A k \in Workers \ {h} : w'[k] = w[k]
    <3>1. /\ row' = [row EXCEPT ![e].status = "denied"] /\ w' = [w EXCEPT ![h].pc = "ending"]
          /\ UNCHANGED <<generation, at, call>>
      BY <1>2 DEF ReserveNew, Denied, Ends, Keeps
    <3>2. row' \in [Effects -> Rows] /\ RowsStay
      BY <1>1, <3>1 DEF CallInv, Typed, Rows, RowsStay
    <3>3. /\ w' \in [Workers -> Proc] /\ w'[h].pc = "ending"
          /\ \A k \in Workers \ {h} : w'[k] = w[k]
      BY <3>1 DEF CallInv, Typed, Proc
    <3> QED BY <3>1, <3>2, <3>3 DEF CallInv, Typed
  <2>2. Rights' BY <2>1, CalmWorker DEF CallInv
  <2> QED BY <2>1, <2>2 DEF CallInv
<1>3. CASE Denial = "none"
  <2>1. /\ row' = [row EXCEPT ![e].status = "reserved", ![e].reserved = left]
        /\ w' = [w EXCEPT ![h].pc = "authorized", ![h].cap = left]
        /\ UNCHANGED <<generation, at, call>>
    BY <1>3 DEF ReserveNew
  <2>2. left \in Nat
    BY <1>3, ChargeType DEF Denial, CallInv
  <2> HIDE DEF left
  <2>3. row \in [Effects -> Rows] /\ w \in [Workers -> Proc] /\ call \in [Effects -> Calls]
    BY DEF CallInv, Typed
  <2>4. /\ row' \in [Effects -> Rows] /\ row'[e].status = "reserved"
        /\ \A f \in Effects \ {e} : row'[f] = row[f]
    BY <1>1, <2>1, <2>2, <2>3 DEF Rows
  <2>5. /\ w' \in [Workers -> Proc]
        /\ w'[h].pc = "authorized" /\ w'[h].e = e /\ \A k \in Workers \ {h} : w'[k] = w[k]
    BY <2>1, <2>2, <2>3 DEF Proc
  <2>6. Typed'
    BY <2>1, <2>4, <2>5 DEF CallInv, Typed
  <2>7. call[e].times = 0 /\ \A k \in Workers : Cleared(k) => w[k].e # e
    BY <1>1 DEF CallInv, Rights, ClearedFirst, CalledHasRow
  <2> HIDE DEF e
  <2>8. InHand' /\ CalledHasRow'
    BY <1>1, <2>1, <2>4, <2>5 DEF CallInv, Rights, InHand, CalledHasRow
  <2>9. ClearedFirst'
    BY <1>1, <2>1, <2>4, <2>5, <2>7 DEF CallInv, Rights, InHand, ClearedFirst, Cleared
  <2>10. ClearedOnce'
    BY <2>5, <2>7 DEF CallInv, Rights, ClearedOnce, Cleared
  <2> QED BY <2>6, <2>8, <2>9, <2>10 DEF CallInv, Rights
<1> QED BY <1>2, <1>3

\* A request that is repeated gives nobody the right to call.
LEMMA ReserveAgainStep ==
  ASSUME CallInv, NEW h \in Workers, ReserveAgain(h)
  PROVE  CallInv'
<1>1. /\ Typed' /\ UNCHANGED <<row, call>> /\ \A k \in Workers \ {h} : w'[k] = w[k]
      /\ w'[h].pc = "ending" \/ (w'[h].pc = "authorized" /\ w'[h].mode = "reconcile-only")
      /\ w'[h].e = w[h].e
  BY DEF CallInv, ReserveAgain, Denied, Ends, Keeps, Typed, Proc
<1>2. w[h].e \in Effects
  BY DEF ReserveAgain, MayReserve, CallInv, Rights, InHand
<1>3. \A k \in Workers : w'[k].pc \in {"intended", "authorized"} => w'[k].e \in Effects
  BY <1>1, <1>2 DEF CallInv, Rights, InHand
<1>4. \A k \in Workers : Cleared(k)' => Cleared(k) /\ w'[k].e = w[k].e
  BY <1>1 DEF Cleared
<1>5. Rights' BY <1>1, <1>3, <1>4, CalmStep DEF CallInv, RowsStay
<1> QED BY <1>1, <1>5 DEF CallInv

\* The call uses the right up.
LEMMA InvokeStep ==
  ASSUME CallInv, NEW h \in Workers, Invoke(h)
  PROVE  CallInv'
<1> DEFINE e == w[h].e
<1>1. /\ Cleared(h) /\ e \in Effects /\ row[e].status # "none" /\ call[e].times = 0
      /\ \A k \in Workers \ {h} : Cleared(k) => w[k].e # e
  BY DEF CallInv, Rights, InHand, ClearedFirst, ClearedOnce, Invoke, Cleared
<1>2. /\ w' \in [Workers -> Proc] /\ w'[h].pc = "calling"
      /\ \A k \in Workers \ {h} : w'[k] = w[k]
      /\ UNCHANGED <<row, at, generation>>
  BY DEF CallInv, Invoke, Keeps, Typed, Proc
<1>3. w[h].cap \in Nat BY DEF CallInv, Typed, Proc
<1>4. /\ call' \in [Effects -> Calls] /\ call'[e].times = 1
      /\ \A f \in Effects \ {e} : call'[f] = call[f]
  BY <1>1, <1>3 DEF CallInv, Invoke, Typed, Calls
<1>5. Typed' BY <1>2, <1>4 DEF CallInv, Typed
<1> HIDE DEF e
<1>6. InHand' /\ CalledHasRow'
  BY <1>1, <1>2, <1>4 DEF CallInv, Rights, InHand, CalledHasRow
<1>7. ClearedFirst' /\ ClearedOnce'
  BY <1>1, <1>2, <1>4 DEF CallInv, Rights, InHand, ClearedFirst, ClearedOnce, Cleared
<1> QED BY <1>5, <1>6, <1>7 DEF CallInv, Rights

\* The provider's side of a call.
LEMMA ProviderStep ==
  ASSUME CallInv, NEW e \in Effects, ProviderEnds(e)
  PROVE  CallInv'
<1>1. call[e].cap * Unit + Overrun \in Nat
  BY AsfBudgetAssumption DEF CallInv, Typed, Calls
<1>2. PICK spent \in 0 .. call[e].cap * Unit + Overrun :
        call' = [call EXCEPT ![e].state = "done", ![e].spent = @ + spent]
  BY DEF ProviderEnds
<1>3. spent \in Nat /\ call[e].spent + spent \in Nat
  BY <1>1 DEF CallInv, Typed, Calls
<1>4. call' \in [Effects -> Calls] /\ \A f \in Effects : call'[f].times = call[f].times
  BY <1>2, <1>3 DEF Calls, CallInv, Typed
<1>5. UNCHANGED <<w, row, at, generation>>
  BY DEF ProviderEnds
<1>6. Rights'
  BY <1>4, <1>5 DEF CallInv, Rights, InHand, ClearedFirst, ClearedOnce, CalledHasRow, Cleared
<1> QED BY <1>4, <1>5, <1>6 DEF CallInv, Typed

-----------------------------------------------------------------------------
\* The invariant of the right to call (reserveAsfProviderBudget and the calls
\* of the delivery runner), for any workers, budget, effects and claims.
THEOREM RightToCall == Spec => []CallInv
<1>1. CallInv /\ [Next]_vars => CallInv'
  <2> SUFFICES ASSUME CallInv, [Next]_vars PROVE CallInv' OBVIOUS
  <2>1. CASE \E h \in Workers : Claim(h) \/ Fenced(h) \/ Crash(h) \/ Intend(h) \/ GivesUp(h)
                                 \/ Confirm(h)
    BY <2>1, OwnerSteps
  <2>2. CASE \E h \in Workers : ReserveNew(h) \/ ReserveAgain(h) \/ Invoke(h) \/ Complete(h)
                                 \/ Plan(h)
    BY <2>2, ReserveNewStep, ReserveAgainStep, InvokeStep, CompleteStep, PlanStep
  <2>3. CASE \E e \in Effects : ProviderEnds(e)
    BY <2>3, ProviderStep
  <2>4. CASE \E e \in Effects, o \in {"confirmed", "not_applied"} : Reconcile(e, o)
    BY <2>4, ReconcileStep
  <2>5. CASE DeadlinePasses \/ Cancel \/ UNCHANGED vars
    BY <2>5 DEF CallInv, Typed, Rights, InHand, ClearedFirst, ClearedOnce,
                CalledHasRow, Cleared, DeadlinePasses, Cancel, vars
  <2> QED BY <2>1, <2>2, <2>3, <2>4, <2>5 DEF Next
<1> QED BY <1>1, InitHolds, PTL DEF Spec

\* No provider effect is ever bought twice, whoever takes the run over and
\* however often the reservation is asked for (reserveAsfProviderBudget).
THEOREM BoughtOnce == Spec => []CalledOnce
<1>1. CallInv => CalledOnce BY DEF CallInv, Rights, CalledHasRow, CalledOnce
<1> QED BY <1>1, RightToCall, PTL

-----------------------------------------------------------------------------
(* The money.                                                              *)

\* The row stands for money whose use is not known yet, or never will be.
Open(e) == row[e].status \in {"reserved", "settled_unknown"}

\* A call is paid for by its row, with the row's amount as its cap.
Paid ==
  /\ \A h \in Workers : Cleared(h) => Open(w[h].e) /\ w[h].cap = row[w[h].e].reserved
  /\ \A e \in Effects : call[e].times = 1 => e \in Counted /\ call[e].cap = row[e].reserved
  /\ \A e \in Effects : row[e].status = "completed" => call[e].state = "done"
  /\ \A e \in Effects : row[e].status = "settled_unknown" => row[e].actual = row[e].reserved

\* What is spent by a call, and what its row says of it.
Metered ==
  \A e \in Effects :
    /\ call[e].state = "none" <=> call[e].times = 0
    /\ call[e].state # "done" => call[e].spent = 0
    /\ call[e].spent <= Unit * call[e].cap + Overrun
    /\ row[e].status = "completed" => call[e].spent <= Unit * row[e].actual

\* At most one row is open, and while it is, everything is charged.
Exclusive ==
  /\ \A e, f \in Effects : Open(e) /\ Open(f) => e = f
  /\ \A e \in Effects : Open(e) => ConservativeCost = MaxCostMicros

Admitted == InvocationCount <= MaxInvocations /\ Spent <= MaxCostMicros * Unit + Overrun

MoneyInv == Paid /\ Metered /\ Exclusive /\ Admitted

\* Before the first reservation.
LEMMA MoneyInitHolds == Init => MoneyInv
<1> SUFFICES ASSUME Init PROVE MoneyInv
  OBVIOUS
<1>1. Counted = {} /\ InvocationCount = 0
  BY FS_EmptySet DEF Init, Counted, With, InvocationCount, NoRow
<1>2. Typed
  BY InitHolds DEF CallInv
<1>3. Spent <= 0 * Spent /\ Spent \in Nat
  <2> DEFINE f == [e \in Effects |-> call[e].spent]
  <2>1. f \in [Effects -> Nat] /\ \A e \in Effects : f[e] <= 0 * f[e]
    BY DEF Init
  <2> HIDE DEF f
  <2>2. Total(f) <= 0 * Total(f) /\ Total(f) \in Nat
    BY <2>1, TotalBound, TotalType
  <2> QED BY <2>2 DEF Spent, f
<1>4. Admitted
  <2>1. MaxCostMicros * Unit + Overrun \in Nat /\ MaxInvocations \in Nat
    BY <1>2, ChargeType, AsfBudgetAssumption
  <2> QED BY <1>1, <1>3, <2>1 DEF Admitted
<1>5. Paid /\ Exclusive
  BY DEF Init, Paid, Exclusive, Open, Cleared, Idle, NoRow
<1>6. Metered
  BY AsfBudgetAssumption DEF Init, Metered, NoRow
<1> QED BY <1>4, <1>5, <1>6 DEF MoneyInv

\* The number of invocations counts the effects with a row that is not denied.
LEMMA CountedIsFinite == IsFiniteSet(Counted) /\ Counted \subseteq Effects
<1>1. IsFiniteSet(Effects)
  BY AsfBudgetAssumption, FS_Interval DEF Effects
<1>2. Counted \subseteq Effects
  BY DEF Counted, With
<1> QED BY <1>1, <1>2, FS_Subset

\* A step that moves no money and brings nobody closer to a call.
LEMMA NoMoney ==
  ASSUME MoneyInv, UNCHANGED <<call, row>>,
         \A h \in Workers : Cleared(h)' => /\ Cleared(h)
                                           /\ w'[h].e = w[h].e /\ w'[h].cap = w[h].cap
  PROVE  MoneyInv'
<1>1. Charge' = Charge /\ Counted' = Counted /\ (\A e : Open(e)' <=> Open(e))
  BY DEF Charge, Counted, With, Open
<1>2. Spent' = Spent /\ ConservativeCost' = ConservativeCost
      /\ InvocationCount' = InvocationCount
  BY <1>1 DEF Spent, ConservativeCost, InvocationCount
<1>3. Paid'
  BY <1>1 DEF MoneyInv, Paid
<1>4. Metered'
  BY DEF MoneyInv, Metered
<1>5. Exclusive' /\ Admitted'
  BY <1>1, <1>2 DEF MoneyInv, Exclusive, Admitted
<1> QED BY <1>3, <1>4, <1>5 DEF MoneyInv

\* Rows are settled: what was reserved is charged.
LEMMA SettlingRows ==
  ASSUME CallInv, MoneyInv, UNCHANGED call, row' \in [Effects -> Rows],
         \A e \in Effects : \/ row'[e] = row[e]
                            \/ /\ row[e].status = "reserved" /\ row'[e].status = "settled_unknown"
                               /\ row'[e].reserved = row[e].reserved
                               /\ row'[e].actual = row[e].reserved,
         \A h \in Workers : Cleared(h)' => /\ Cleared(h)
                                           /\ w'[h].e = w[h].e /\ w'[h].cap = w[h].cap
  PROVE  MoneyInv'
<1>1. Charge' = Charge
  BY DEF Charge
<1>2. Counted' = Counted
  BY DEF Counted, With
<1>3. \A e \in Effects : Open(e)' <=> Open(e)
  BY DEF Open
<1>4. Spent' = Spent /\ ConservativeCost' = ConservativeCost
      /\ InvocationCount' = InvocationCount
  BY <1>1, <1>2 DEF Spent, ConservativeCost, InvocationCount
<1>5. Paid'
  BY <1>2, <1>3 DEF MoneyInv, Paid, CallInv, Rights, InHand, Cleared
<1>6. Metered'
  BY DEF MoneyInv, Metered
<1>7. Exclusive' /\ Admitted'
  BY <1>3, <1>4 DEF MoneyInv, Exclusive, Admitted
<1> QED BY <1>5, <1>6, <1>7 DEF MoneyInv

\* The steps of an owner that write no row.
LEMMA OwnerMoney ==
  ASSUME CallInv, MoneyInv, NEW h \in Workers,
         \/ Claim(h) \/ Fenced(h) \/ Crash(h) \/ Intend(h) \/ GivesUp(h) \/ Confirm(h)
         \/ ReserveAgain(h)
  PROVE  MoneyInv'
<1>1. UNCHANGED <<call, row>>
  BY DEF Claim, Fenced, Crash, Intend, GivesUp, Confirm, ReserveAgain
<1>2. \A k \in Workers \ {h} : w'[k] = w[k]
  BY DEF Claim, Fenced, Crash, Intend, GivesUp, Confirm, ReserveAgain, Leaves, Ends, Denied,
         Keeps, CallInv, Typed
<1>3. ~Cleared(h)'
  <2> USE DEF Cleared, CallInv, Typed, Proc, Idle
  <2>1. CASE Claim(h)
    BY <2>1 DEF Claim
  <2>2. CASE Fenced(h) \/ Crash(h) \/ GivesUp(h)
    BY <2>2 DEF Fenced, Crash, GivesUp, Leaves
  <2>3. CASE Intend(h)
    BY <2>3 DEF Intend, Ends, Keeps
  <2>4. CASE Confirm(h)
    BY <2>4 DEF Confirm, Ends, Keeps
  <2>5. CASE ReserveAgain(h)
    BY <2>5 DEF ReserveAgain, Denied, Ends, Keeps
  <2> QED BY <2>1, <2>2, <2>3, <2>4, <2>5
<1>4. \A k \in Workers : Cleared(k)' => Cleared(k) /\ w'[k].e = w[k].e /\ w'[k].cap = w[k].cap
  BY <1>2, <1>3 DEF Cleared
<1> QED BY <1>1, <1>4, NoMoney

\* The operator's answer, and the terminal plan.
LEMMA SettlementMoney ==
  ASSUME CallInv, MoneyInv,
         \/ \E h \in Workers : Plan(h)
         \/ \E e \in Effects, o \in {"confirmed", "not_applied"} : Reconcile(e, o)
  PROVE  MoneyInv'
<1>1. CallInv'
  BY PlanStep, ReconcileStep
<1>2. ASSUME NEW e \in Effects, NEW o, NEW g
      PROVE  LET r == Settled(e, o, g) IN
             \A f \in Effects : \/ r[f] = row[f]
                                \/ /\ f = e /\ row[f].status = "reserved"
                                   /\ r[f].status = "settled_unknown"
                                   /\ r[f].reserved = row[f].reserved
                                   /\ r[f].actual = row[f].reserved
  BY DEF Settled, CallInv, Typed, Rows
<1>3. CASE \E h \in Workers : Plan(h)
  <2>1. PICK h \in Workers : Plan(h)
    BY <1>3
  <2>2. UNCHANGED call /\ w' = [w EXCEPT ![h] = Idle] /\ row' = Resettled
    BY <2>1 DEF Plan, Leaves
  <2>3. \A k \in Workers : Cleared(k)' => Cleared(k) /\ w'[k].e = w[k].e /\ w'[k].cap = w[k].cap
    BY <2>2 DEF Cleared, Idle, CallInv, Typed
  <2>4. \A e \in Effects : \/ row'[e] = row[e]
                           \/ /\ row[e].status = "reserved" /\ row'[e].status = "settled_unknown"
                              /\ row'[e].reserved = row[e].reserved
                              /\ row'[e].actual = row[e].reserved
    BY <1>2, <2>2 DEF Resettled
  <2> QED BY <1>1, <2>2, <2>3, <2>4, SettlingRows DEF CallInv, Typed
<1>4. CASE \E e \in Effects, o \in {"confirmed", "not_applied"} : Reconcile(e, o)
  <2>1. PICK e \in Effects, o \in {"confirmed", "not_applied"} : Reconcile(e, o)
    BY <1>4
  <2>2. UNCHANGED <<call, w>> /\ row' = Settled(e, o, generation + 1)
    BY <2>1 DEF Reconcile
  <2>3. \A f \in Effects : \/ row'[f] = row[f]
                           \/ /\ row[f].status = "reserved" /\ row'[f].status = "settled_unknown"
                              /\ row'[f].reserved = row[f].reserved
                              /\ row'[f].actual = row[f].reserved
    BY <1>2, <2>2
  <2>4. \A k \in Workers : Cleared(k)' => Cleared(k) /\ w'[k].e = w[k].e /\ w'[k].cap = w[k].cap
    BY <2>2 DEF Cleared
  <2> QED BY <1>1, <2>2, <2>3, <2>4, SettlingRows DEF CallInv, Typed
<1> QED BY <1>3, <1>4

\* The call is paid for by the row that gave the right to make it.
LEMMA InvokeMoney ==
  ASSUME CallInv, MoneyInv, NEW h \in Workers, Invoke(h)
  PROVE  MoneyInv'
<1> DEFINE e == w[h].e
<1>1. /\ Cleared(h) /\ e \in Effects /\ call[e].times = 0 /\ Open(e)
      /\ w[h].cap = row[e].reserved
  BY DEF Invoke, Cleared, CallInv, Rights, InHand, ClearedFirst, MoneyInv, Paid
<1>2. /\ UNCHANGED row /\ \A k \in Workers \ {h} : w'[k] = w[k]
      /\ ~Cleared(h)'
  BY DEF Invoke, Keeps, CallInv, Typed, Proc, Cleared
<1>3. /\ call'[e].state = "running" /\ call'[e].times = 1 /\ call'[e].cap = row[e].reserved
      /\ call'[e].spent = call[e].spent /\ \A f \in Effects \ {e} : call'[f] = call[f]
  BY <1>1 DEF Invoke, CallInv, Typed, Calls
<1> HIDE DEF e
<1>4. Charge' = Charge /\ Counted' = Counted /\ \A f \in Effects : Open(f)' <=> Open(f)
  BY <1>2 DEF Charge, Counted, With, Open
<1>5. Spent' = Spent /\ ConservativeCost' = ConservativeCost
      /\ InvocationCount' = InvocationCount
  <2>1. \A f \in Effects : call'[f].spent = call[f].spent
    BY <1>3
  <2> QED BY <1>4, <2>1 DEF Spent, ConservativeCost, InvocationCount
<1>6. \A k \in Workers : Cleared(k)' => Cleared(k) /\ w'[k] = w[k]
  BY <1>2 DEF Cleared
<1>7. Paid'
  <2>1. e \in Counted /\ row[e].status # "completed"
    BY <1>1 DEF Open, Counted, With
  <2> QED BY <1>2, <1>3, <1>4, <1>6, <2>1
          DEF MoneyInv, Paid, CallInv, Rights, InHand, Cleared
<1>8. Metered'
  <2>1. call[e].spent = 0
    BY <1>1 DEF MoneyInv, Metered
  <2>2. 0 <= Unit * row[e].reserved + Overrun /\ row[e].status # "completed"
    BY <1>1, AsfBudgetAssumption DEF CallInv, Typed, Rows, Open
  <2> QED BY <1>2, <1>3, <2>1, <2>2 DEF MoneyInv, Metered
<1>9. Exclusive' /\ Admitted'
  BY <1>4, <1>5 DEF MoneyInv, Exclusive, Admitted
<1> QED BY <1>7, <1>8, <1>9 DEF MoneyInv

\* A reservation becomes the cost that was reported; nothing is open then.
LEMMA CompleteMoney ==
  ASSUME CallInv, MoneyInv, NEW h \in Workers, Complete(h)
  PROVE  MoneyInv'
<1> DEFINE e == w[h].e
           cost == Ceil(call[e].spent)
<1>1. /\ UNCHANGED call /\ \A k \in Workers \ {h} : w'[k] = w[k]
      /\ ~Cleared(h)'
  BY DEF Complete, Verdict, Keeps, CallInv, Typed, Proc, Cleared
<1>2. \A k \in Workers : Cleared(k)' => Cleared(k) /\ w'[k] = w[k]
  BY <1>1 DEF Cleared
<1>3. CASE row' = row
  BY <1>1, <1>2, <1>3, NoMoney
<1>4. CASE row' # row
  <2>1. /\ e \in Effects /\ row[e].status = "reserved" /\ call[e].state = "done"
        /\ row' = [row EXCEPT ![e] = [@ EXCEPT !.status = "completed", !.actual = cost,
                                               !.by = generation]]
    BY <1>4 DEF Complete, HasResult, CallInv, Typed
  <2>2. cost \in Nat /\ call[e].spent <= Unit * cost
    BY <2>1, Rounding DEF CallInv, Typed, Calls
  <2> HIDE DEF cost
  <2>3. /\ row'[e].status = "completed" /\ row'[e].actual = cost
        /\ row'[e].reserved = row[e].reserved
        /\ \A f \in Effects \ {e} : row'[f] = row[f]
    BY <2>1 DEF CallInv, Typed, Rows
  <2> HIDE DEF e
  <2>4. \A f \in Effects : ~Open(f)'
    BY <2>1, <2>3 DEF Open, MoneyInv, Exclusive
  <2>5. \A k \in Workers : Cleared(k) => w[k].e # e
    BY <2>1 DEF CallInv, Rights, ClearedFirst, MoneyInv, Metered
  <2>6. Counted' = Counted
    BY <2>1, <2>3 DEF Counted, With
  <2>7. Paid'
    <3>1. \A k \in Workers : Cleared(k)' => Open(w[k].e)' /\ w'[k].cap = row'[w'[k].e].reserved
      BY <1>2, <2>3, <2>5 DEF Open, Cleared, MoneyInv, Paid, CallInv, Rights, InHand
    <3> QED BY <1>1, <2>1, <2>3, <2>6, <3>1 DEF MoneyInv, Paid
  <2>8. Metered'
    BY <1>1, <2>2, <2>3 DEF MoneyInv, Metered
  <2>9. Admitted'
    <3>1. Spent' = Spent /\ InvocationCount' = InvocationCount
      BY <1>1, <2>6 DEF Spent, InvocationCount
    <3> QED BY <3>1 DEF MoneyInv, Admitted
  <2> QED BY <2>4, <2>7, <2>8, <2>9 DEF MoneyInv, Exclusive
<1> QED BY <1>3, <1>4

\* A reservation takes all that is left, and is made only if something is: then
\* no row is open.
LEMMA ReserveMoney ==
  ASSUME CallInv, MoneyInv, NEW h \in Workers, ReserveNew(h)
  PROVE  MoneyInv'
<1> DEFINE e == w[h].e
           left == MaxCostMicros - ConservativeCost
<1>1. /\ e \in Effects /\ row[e].status = "none" /\ w[h].pc = "intended" /\ UNCHANGED call
      /\ call[e].times = 0
  BY DEF ReserveNew, MayReserve, CallInv, Rights, InHand, CalledHasRow
<1>2. \A k \in Workers : Cleared(k) => w[k].e # e
  BY <1>1 DEF CallInv, Rights, ClearedFirst
<1>3. CASE Denial # "none"
  <2>1. row' = [row EXCEPT ![e].status = "denied"] /\ w' = [w EXCEPT ![h].pc = "ending"]
    BY <1>3 DEF ReserveNew, Denied, Ends, Keeps
  <2>2. /\ row'[e].status = "denied" /\ row'[e].reserved = row[e].reserved
        /\ \A f \in Effects \ {e} : row'[f] = row[f]
    BY <1>1, <2>1 DEF CallInv, Typed, Rows
  <2>3. \A k \in Workers : Cleared(k)' => Cleared(k) /\ w'[k] = w[k]
    BY <2>1 DEF CallInv, Typed, Proc, Cleared
  <2> HIDE DEF e
  <2>4. Charge' = Charge /\ Counted' = Counted /\ \A f \in Effects : Open(f)' <=> Open(f)
    BY <1>1, <2>2 DEF Charge, Counted, With, Open
  <2>5. Spent' = Spent /\ ConservativeCost' = ConservativeCost
        /\ InvocationCount' = InvocationCount
    BY <1>1, <2>4 DEF Spent, ConservativeCost, InvocationCount
  <2>6. Paid'
    <3>1. \A k \in Workers : Cleared(k)' => Open(w[k].e)' /\ w'[k].cap = row'[w'[k].e].reserved
      BY <1>2, <2>2, <2>3 DEF Open, Cleared, MoneyInv, Paid, CallInv, Rights, InHand
    <3> QED BY <1>1, <2>2, <2>4, <3>1 DEF MoneyInv, Paid
  <2>7. Metered'
    BY <1>1, <2>2 DEF MoneyInv, Metered
  <2> QED BY <2>4, <2>5, <2>6, <2>7 DEF MoneyInv, Exclusive, Admitted
<1>4. CASE Denial = "none"
  <2>1. /\ row' = [row EXCEPT ![e].status = "reserved", ![e].reserved = left]
        /\ w' = [w EXCEPT ![h].pc = "authorized", ![h].cap = left]
    BY <1>4 DEF ReserveNew
  <2>2. left > 0 /\ InvocationCount < MaxInvocations
    <3>1. InvocationCount \in Nat /\ MaxInvocations \in Nat
      BY CountedIsFinite, FS_CardinalityType, AsfBudgetAssumption DEF InvocationCount
    <3>2. ConservativeCost \in Nat /\ MaxCostMicros \in Nat
      BY ChargeType DEF CallInv
    <3> QED BY <1>4, <3>1, <3>2 DEF Denial
  <2>3. \A f \in Effects : ~Open(f)
    <3>1. ConservativeCost \in Nat /\ MaxCostMicros \in Nat
      BY ChargeType DEF CallInv
    <3> QED BY <2>2, <3>1 DEF MoneyInv, Exclusive
  <2>4. left \in Nat /\ ConservativeCost \in Nat /\ MaxCostMicros \in Nat
        /\ ConservativeCost + left = MaxCostMicros
    BY <2>2, ChargeType DEF CallInv
  <2> HIDE DEF left
  <2>5. /\ row'[e].status = "reserved" /\ row'[e].reserved = left
        /\ \A f \in Effects \ {e} : row'[f] = row[f]
    BY <1>1, <2>1 DEF CallInv, Typed, Rows
  <2>6. /\ w'[h].e = e /\ w'[h].cap = left
        /\ \A k \in Workers \ {h} : w'[k] = w[k]
    BY <2>1 DEF CallInv, Typed, Proc
  <2> HIDE DEF e
  <2>7. ConservativeCost' = MaxCostMicros
    <3>1. Charge \in [Effects -> Nat] /\ Charge[e] = 0
      BY <1>1, ChargeType DEF CallInv, Charge
    <3>2. Charge' = [Charge EXCEPT ![e] = left]
      BY <1>1, <2>5 DEF Charge
    <3>3. Total(Charge') = Total(Charge) - 0 + left
      BY <1>1, <2>4, <3>1, <3>2, TotalUpdate
    <3> QED BY <2>4, <3>3 DEF ConservativeCost
  <2>8. Counted' = Counted \cup {e} /\ e \notin Counted
    BY <1>1, <2>5 DEF Counted, With
  <2>9. Exclusive'
    <3>1. \A f \in Effects : Open(f)' => f = e
      BY <2>3, <2>5 DEF Open
    <3>2. MaxCostMicros' = MaxCostMicros
      BY DEF MaxCostMicros, Floor
    <3> QED BY <2>7, <3>1, <3>2 DEF Exclusive
  <2>10. Admitted'
    <3>1. InvocationCount' = InvocationCount + 1
      BY <2>8, CountedIsFinite, FS_AddElement DEF InvocationCount
    <3>2. InvocationCount \in Nat /\ MaxInvocations \in Nat
      BY CountedIsFinite, FS_CardinalityType, AsfBudgetAssumption DEF InvocationCount
    <3>3. Spent' = Spent
      BY <1>1 DEF Spent
    <3> QED BY <2>2, <3>1, <3>2, <3>3 DEF MoneyInv, Admitted
  <2>11. Paid'
    <3>1. ASSUME NEW k \in Workers, Cleared(k)'
          PROVE  Open(w[k].e)' /\ w'[k].cap = row'[w'[k].e].reserved
      <4>1. CASE k = h
        BY <2>5, <2>6, <4>1 DEF Open
      <4>2. CASE k # h
        <5>1. Cleared(k) /\ w'[k] = w[k]
          BY <2>6, <3>1, <4>2 DEF Cleared
        <5> QED BY <1>2, <2>3, <5>1 DEF MoneyInv, Paid, CallInv, Rights, InHand, Cleared
      <4> QED BY <4>1, <4>2
    <3> QED BY <1>1, <2>5, <2>8, <3>1 DEF MoneyInv, Paid
  <2>12. Metered'
    BY <1>1, <2>5 DEF MoneyInv, Metered
  <2> QED BY <2>9, <2>10, <2>11, <2>12 DEF MoneyInv
<1> QED BY <1>3, <1>4

\* What a call spends is covered by its row, but for the overrun: the row is
\* open, so everything is charged, and every other call has been paid for.
LEMMA ProviderMoney ==
  ASSUME CallInv, MoneyInv, NEW e \in Effects, ProviderEnds(e)
  PROVE  MoneyInv'
<1> DEFINE spent == [f \in Effects |-> call[f].spent]
           others == [spent EXCEPT ![e] = 0]
           charged == [Charge EXCEPT ![e] = 0]
<1>1. PICK s \in 0 .. call[e].cap * Unit + Overrun :
        call' = [call EXCEPT ![e].state = "done", ![e].spent = @ + s]
  BY DEF ProviderEnds
<1>2. /\ call[e].state = "running" /\ call[e].times = 1 /\ call[e].spent = 0
      /\ call[e].cap = row[e].reserved /\ Open(e)
  <2>1. call[e].state = "running"
    BY DEF ProviderEnds
  <2>2. call[e].times = 1 /\ call[e].spent = 0
    BY <2>1 DEF CallInv, Rights, CalledHasRow, MoneyInv, Metered
  <2> QED BY <2>1, <2>2 DEF MoneyInv, Paid, Counted, With, Open
<1>3. /\ s \in Nat /\ s <= Unit * row[e].reserved + Overrun /\ Unit \in Nat /\ Overrun \in Nat
      /\ row[e].reserved \in Nat
  BY <1>1, <1>2, AsfBudgetAssumption DEF CallInv, Typed, Rows
<1>4. /\ call'[e].state = "done" /\ call'[e].spent = s /\ call'[e].times = 1
      /\ call'[e].cap = call[e].cap /\ \A f \in Effects \ {e} : call'[f] = call[f]
  BY <1>1, <1>2, <1>3 DEF CallInv, Typed, Calls
<1>5. UNCHANGED <<row, w>>
  BY DEF ProviderEnds
<1>6. Charge' = Charge /\ Counted' = Counted /\ \A f \in Effects : Open(f)' <=> Open(f)
  BY <1>5 DEF Charge, Counted, With, Open
<1>7. ConservativeCost' = ConservativeCost /\ InvocationCount' = InvocationCount
  BY <1>6 DEF ConservativeCost, InvocationCount
<1>8. Paid'
  BY <1>2, <1>4, <1>5, <1>6 DEF MoneyInv, Paid, CallInv, Rights, InHand, Cleared, Open
<1>9. Metered'
  BY <1>2, <1>3, <1>4, <1>5 DEF MoneyInv, Metered, Open
<1>10. Spent' <= MaxCostMicros * Unit + Overrun
  <2>1. spent \in [Effects -> Nat] /\ Charge \in [Effects -> Nat] /\ MaxCostMicros \in Nat
    BY ChargeType DEF CallInv, Typed, Calls
  <2>2. others \in [Effects -> Nat] /\ charged \in [Effects -> Nat]
    BY <2>1
  <2>3. \A f \in Effects : others[f] <= Unit * charged[f]
    <3>1. others[e] <= Unit * charged[e]
      BY <1>3, <2>1
    <3>2. ASSUME NEW f \in Effects \ {e} PROVE others[f] <= Unit * charged[f]
      <4>1. others[f] = call[f].spent /\ charged[f] = Charge[f]
        BY <2>1
      <4>2. ~Open(f)
        BY <1>2 DEF MoneyInv, Exclusive
      <4>3. CASE row[f].status = "completed"
        BY <4>1, <4>3 DEF Charge, MoneyInv, Metered
      <4>4. CASE row[f].status # "completed"
        <5>1. f \notin Counted /\ call[f].times = 0
          BY <4>2, <4>4 DEF Counted, With, Open, MoneyInv, Paid, CallInv, Rights, CalledHasRow
        <5>2. call[f].spent = 0
          BY <5>1 DEF MoneyInv, Metered
        <5>3. Unit * charged[f] \in Nat
          BY <1>3, <2>2
        <5> QED BY <4>1, <5>2, <5>3
      <4> QED BY <4>3, <4>4
    <3> QED BY <3>1, <3>2
  <2>4. Total(others) <= Unit * Total(charged)
    <3> HIDE DEF others, charged
    <3> QED BY <1>3, <2>2, <2>3, TotalBound
  <2>5. Total(charged) = Total(Charge) - Charge[e] + 0
    BY <2>1, TotalUpdate
  <2>6. Spent' = Total(others) + s
    <3>1. Total([others EXCEPT ![e] = s]) = Total(others) - others[e] + s
      <4> HIDE DEF others
      <4> QED BY <1>3, <2>2, TotalUpdate
    <3>2. others[e] = 0
      BY <2>1
    <3>3. [f \in Effects |-> call'[f].spent] = [others EXCEPT ![e] = s]
      BY <1>4
    <3>4. Total(others) \in Nat
      <4> HIDE DEF others
      <4> QED BY <2>2, TotalType
    <3>5. Spent' = Total([others EXCEPT ![e] = s])
      BY <3>3 DEF Spent
    <3> HIDE DEF others
    <3> QED BY <1>3, <3>1, <3>2, <3>4, <3>5
  <2>7. Total(Charge) = MaxCostMicros /\ Charge[e] = row[e].reserved
    BY <1>2 DEF MoneyInv, Exclusive, ConservativeCost, Charge, Open, Paid
  <2>8. Total(charged) \in Nat /\ Total(others) \in Nat
    <3> HIDE DEF others, charged
    <3> QED BY <2>2, TotalType
  <2> DEFINE a == Total(charged)
             b == Total(others)
             c == row[e].reserved
             m == MaxCostMicros
  <2>9. a \in Nat /\ b \in Nat /\ c \in Nat /\ m \in Nat /\ m = a + c /\ b <= Unit * a
        /\ s <= Unit * c + Overrun /\ Spent' = b + s
    BY <1>3, <2>1, <2>4, <2>5, <2>6, <2>7, <2>8
  <2> HIDE DEF a, b, c, m
  <2>10. m * Unit = Unit * a + Unit * c /\ Unit * a \in Nat /\ Unit * c \in Nat
    BY <1>3, <2>9
  <2>11. b + s <= m * Unit + Overrun
    BY <1>3, <2>9, <2>10
  <2> QED BY <2>9, <2>11 DEF m
<1>11. Exclusive' /\ Admitted'
  <2>1. MaxCostMicros' = MaxCostMicros
    BY DEF MaxCostMicros, Floor
  <2> QED BY <1>6, <1>7, <1>10, <2>1 DEF MoneyInv, Exclusive, Admitted
<1> QED BY <1>8, <1>9, <1>11 DEF MoneyInv

\* The invariant of the money (reserveAsfProviderBudget,
\* completeAsfProviderBudget and the settlement of what nobody can account for).
THEOREM MoneyInvariant == Spec => []MoneyInv
<1>1. CallInv /\ MoneyInv /\ [Next]_vars => MoneyInv'
  <2> SUFFICES ASSUME CallInv, MoneyInv, [Next]_vars PROVE MoneyInv'
    OBVIOUS
  <2>1. CASE \E h \in Workers : Claim(h) \/ Fenced(h) \/ Crash(h) \/ Intend(h) \/ GivesUp(h)
                                 \/ Confirm(h) \/ ReserveAgain(h)
    BY <2>1, OwnerMoney
  <2>2. CASE \E h \in Workers : ReserveNew(h) \/ Invoke(h) \/ Complete(h)
    BY <2>2, ReserveMoney, InvokeMoney, CompleteMoney
  <2>3. CASE \/ \E h \in Workers : Plan(h)
             \/ \E e \in Effects, o \in {"confirmed", "not_applied"} : Reconcile(e, o)
    BY <2>3, SettlementMoney
  <2>4. CASE \E e \in Effects : ProviderEnds(e)
    BY <2>4, ProviderMoney
  <2>5. CASE DeadlinePasses \/ Cancel \/ UNCHANGED vars
    BY <2>5, NoMoney DEF DeadlinePasses, Cancel, vars, Cleared
  <2> QED BY <2>1, <2>2, <2>3, <2>4, <2>5 DEF Next
<1> QED BY <1>1, MoneyInitHolds, RightToCall, PTL DEF Spec

\* What providers really spent, and how often they were called, stays within
\* what was admitted, but for the overrun of a single call.
THEOREM WithinBudgetHolds == Spec => []WithinBudget
<1>1. CallInv /\ MoneyInv => WithinBudget
  <2> SUFFICES ASSUME CallInv, MoneyInv PROVE WithinBudget
    OBVIOUS
  <2> DEFINE called == {e \in Effects : call[e].times > 0}
  <2>1. called \subseteq Counted
    BY DEF MoneyInv, Paid, CallInv, Rights, CalledHasRow
  <2>2. Cardinality(called) <= InvocationCount /\ Cardinality(called) \in Nat
        /\ InvocationCount \in Nat /\ MaxInvocations \in Nat
    BY <2>1, CountedIsFinite, FS_Subset, FS_CardinalityType, AsfBudgetAssumption
       DEF InvocationCount
  <2> QED BY <2>2 DEF WithinBudget, MoneyInv, Admitted
<1> QED BY <1>1, RightToCall, MoneyInvariant, PTL

-----------------------------------------------------------------------------
(* What an invocation may do.                                              *)

\* A record keeps its fields.
Shaped == DOMAIN x = DOMAIN NoInvocation /\ DOMAIN tool = DOMAIN NoTool

\* Where the invocation is: nothing runs outside the race, and only the race is
\* watched.
Placed ==
  /\ x.pc \in {"idle", "entering", "running", "draining", "leaving", "settled"}
  /\ x.pc \in {"idle", "entering", "leaving", "settled"} => tool = NoTool
  /\ tool.at = "none" => tool = NoTool
  /\ x.watch # "idle" => x.pc = "running"
  /\ result.kind = "returned" => x.pc = "settled"

\* The owner is never ahead of the fence.
NotAhead == fence \in Nat /\ Gen \in Nat /\ Gen <= fence /\ fence > 0

\* Once a tool has started behind the fence no tool is cleared any more, and no
\* result is.
Strayed ==
  /\ strays \in {0, 1}
  /\ x.pc \in {"idle", "entering"} => strays = 0
  /\ strays = 1 =>
       /\ Gen < fence
       /\ ~(tool.at = "answered" /\ tool.current)
       /\ ~(x.pc = "leaving" /\ x.current)
       /\ result.kind # "returned"

HarnessInv == Shaped /\ Placed /\ NotAhead /\ Strayed

\* Before the first invocation.
LEMMA HarnessInitHolds == HarnessInit => HarnessInv
  BY DEF HarnessInit, HarnessInv, Shaped, Placed, NotAhead, Strayed, NoInvocation, NoTool,
         NoResult, Gen

\* What no invocation begins with.
Untouched == {"watch", "stop", "calls", "seen", "done", "status"}

\* What execute begins with: a capability that is bound, or a number of its own.
LEMMA Beginning ==
  ASSUME Begin
  PROVE  \E role, lease, cap, inv :
           /\ lease \in LeaseIds /\ lease[1] <= fence
           /\ DOMAIN x' = DOMAIN NoInvocation /\ result'.kind # "returned"
           /\ \A f \in Untouched : x'[f] = NoInvocation[f]
           /\ \/ /\ x'.pc = "entering" /\ x'.lease = lease /\ x'.inv = inv /\ inv \in Nat
                 /\ cap \in Held \cup Resolved \/ inv = execs + 1
                 /\ RequestBound(inv, lease, cap) /\ SessionBound(role, inv, lease, cap)
              \/ x'.pc = "settled" /\ x'.lease = <<1, 1>>
<1>1. PICK role \in Roles, lease \in LeaseIds, left \in Terms,
           fresh \in IF "repository.check" \in Tools THEN BOOLEAN ELSE {FALSE},
           tools \in {Tools, Tools \ {"repository.apply_patch"}},
           cap \in {NoCapability} \cup Held \cup Resolved, inv \in 1 .. MaxExecs :
        /\ lease[1] <= fence /\ lease[2] <= execs + 1 /\ (cap.on \/ inv = execs + 1)
        /\ IF /\ RequestBound(inv, lease, cap) /\ LeaseHolds(left) /\ LimitsFit
              /\ ToolPolicy(role, tools) /\ SessionBound(role, inv, lease, cap)
           THEN /\ x' = [NoInvocation EXCEPT !.pc = "entering", !.role = role, !.lease = lease,
                                             !.left = left, !.inv = inv, !.fresh = fresh,
                                             !.tools = tools, !.current = IsCurrent(lease[1]),
                                             !.ended = FALSE]
                /\ result' = NoResult
           ELSE /\ x' = [NoInvocation EXCEPT !.pc = "settled"]
                /\ result' = [NoResult EXCEPT !.kind = "refused"]
  BY Zenon DEF Begin
<1>2. CASE /\ x' = [NoInvocation EXCEPT !.pc = "settled"]
           /\ result' = [NoResult EXCEPT !.kind = "refused"]
  BY <1>1, <1>2 DEF NoInvocation, NoResult, Untouched
<1>3. CASE /\ RequestBound(inv, lease, cap) /\ SessionBound(role, inv, lease, cap)
           /\ x' = [NoInvocation EXCEPT !.pc = "entering", !.role = role, !.lease = lease,
                                        !.left = left, !.inv = inv, !.fresh = fresh,
                                        !.tools = tools, !.current = IsCurrent(lease[1]),
                                        !.ended = FALSE]
           /\ result' = NoResult
  <2> DEFINE current == IsCurrent(lease[1])
  <2> HIDE DEF current
  <2>1. x' = [NoInvocation EXCEPT !.pc = "entering", !.role = role, !.lease = lease,
                                  !.left = left, !.inv = inv, !.fresh = fresh,
                                  !.tools = tools, !.current = current, !.ended = FALSE]
    BY <1>3 DEF current
  <2>2. /\ x'.pc = "entering" /\ x'.lease = lease /\ x'.inv = inv
        /\ DOMAIN x' = DOMAIN NoInvocation /\ \A f \in Untouched : x'[f] = NoInvocation[f]
    BY <2>1 DEF NoInvocation, Untouched
  <2>3. result'.kind # "returned"
    BY <1>3 DEF NoResult
  <2>4. inv \in Nat /\ (cap \in Held \cup Resolved \/ inv = execs + 1)
    BY <1>1, AsfHarnessAssumption DEF NoCapability
  <2> QED BY <1>1, <1>3, <2>2, <2>3, <2>4
<1> QED BY <1>1, <1>2, <1>3

\* An invocation that ends leaves nothing running.
LEMMA Settling ==
  ASSUME HarnessInv, tool = NoTool, tool' = tool, NEW r, Settle(r), UNCHANGED <<fence, strays>>,
         r.kind = "returned" => strays = 0
  PROVE  HarnessInv'
<1>1. /\ x'.pc = "settled" /\ x'.lease = x.lease /\ x'.watch = "idle"
      /\ DOMAIN x' = DOMAIN NoInvocation /\ result' = r
  BY DEF Settle, NoInvocation
<1>2. tool.at # "answered"
  BY DEF NoTool
<1> QED BY <1>1, <1>2 DEF HarnessInv, Shaped, Placed, NotAhead, Strayed, Gen

\* execute, up to the answer of the fence.
LEMMA Entering == HarnessInv /\ (Begin \/ Enter) => HarnessInv'
<1> SUFFICES ASSUME HarnessInv, Begin \/ Enter PROVE HarnessInv'
  OBVIOUS
<1>1. CASE Begin
  <2>1. PICK lease \in LeaseIds :
          /\ lease[1] <= fence /\ x'.lease \in {lease, <<1, 1>>}
          /\ x'.pc \in {"entering", "settled"}
          /\ x'.watch = "idle" /\ DOMAIN x' = DOMAIN NoInvocation /\ result'.kind # "returned"
    BY <1>1, Beginning DEF Untouched, NoInvocation
  <2>2. x'.lease[1] \in Nat /\ x'.lease[1] <= fence
    BY <2>1, AsfHarnessAssumption DEF LeaseIds, Gens, HarnessInv, NotAhead
  <2>3. x.pc = "idle" /\ UNCHANGED <<fence, tool, strays>>
    BY <1>1 DEF Begin
  <2> QED BY <2>1, <2>2, <2>3 DEF HarnessInv, Shaped, Placed, NotAhead, Strayed, Gen
<1>2. CASE Enter
  <2>1. x.pc = "entering" /\ tool = NoTool /\ strays = 0 /\ UNCHANGED <<fence, strays, tool>>
    BY <1>2 DEF Enter, HarnessInv, Placed, Strayed
  <2>2. CASE \E r : Settle(r)
    BY <2>1, <2>2, Settling
  <2>3. CASE x' = [x EXCEPT !.pc = "running", !.current = FALSE] /\ UNCHANGED result
    <3>1. x'.pc = "running" /\ x'.lease = x.lease /\ x'.watch = x.watch /\ DOMAIN x' = DOMAIN x
      BY <2>3 DEF HarnessInv, Shaped, NoInvocation
    <3> QED BY <2>1, <2>3, <3>1 DEF HarnessInv, Shaped, Placed, NotAhead, Strayed, Gen
  <2> QED BY <1>2, <2>2, <2>3 DEF Enter, Refuse
<1> QED BY <1>1, <1>2

\* The deadline, the cancellation and the watchdog.
LEMMA Racing ==
  HarnessInv /\ (ForwardCancellation \/ Deadline \/ WatchdogAsks \/ WatchdogActs) => HarnessInv'
<1> SUFFICES ASSUME HarnessInv, ForwardCancellation \/ Deadline \/ WatchdogAsks \/ WatchdogActs
             PROVE  HarnessInv'
  OBVIOUS
<1> USE DEF HarnessInv, Shaped, Placed, NotAhead, Strayed, Gen, NoInvocation, Forced
<1>1. CASE ForwardCancellation
  BY <1>1 DEF ForwardCancellation
<1>2. CASE Deadline
  BY <1>2 DEF Deadline
<1>3. CASE WatchdogAsks
  BY <1>3 DEF WatchdogAsks
<1>4. CASE WatchdogActs
  BY <1>4 DEF WatchdogActs
<1> QED BY <1>1, <1>2, <1>3, <1>4

\* A tool, from its request to its result.
LEMMA Tooling == HarnessInv /\ (InvokeTool \/ Works) => HarnessInv'
<1> SUFFICES ASSUME HarnessInv, InvokeTool \/ Works PROVE HarnessInv'
  OBVIOUS
<1> USE DEF HarnessInv, Shaped, Placed, NotAhead, Strayed, Gen, NoInvocation
<1>1. CASE InvokeTool
  <2>1. /\ x'.pc = x.pc /\ x'.lease = x.lease /\ x'.watch = x.watch /\ x'.current = x.current
        /\ DOMAIN x' = DOMAIN x
    BY <1>1, Zenon DEF InvokeTool
  <2>2. \/ tool' = tool
        \/ x.pc = "running" /\ \E id : tool' = [NoTool EXCEPT !.at = "asked", !.id = id]
    BY <1>1 DEF InvokeTool, SessionActive
  <2>3. \/ tool' = tool
        \/ x.pc = "running" /\ tool'.at = "asked" /\ DOMAIN tool' = DOMAIN NoTool
    BY <2>2 DEF NoTool
  <2> QED BY <1>1, <2>1, <2>3 DEF InvokeTool
<1>2. CASE GatewayAsks
  <2>1. tool.at \in {"asked", "ended"} /\ UNCHANGED <<fence, x, result, strays>>
    BY <1>2 DEF GatewayAsks
  <2>2. /\ DOMAIN tool' = DOMAIN tool /\ tool'.at \in {"answered", "confirmed"}
        /\ tool'.current => fence = x.lease[1]
    BY <1>2 DEF GatewayAsks, IsCurrent, NoTool
  <2>3. tool # NoTool /\ tool'.at # "none" /\ x.pc \in {"running", "draining"}
    BY <2>1, <2>2 DEF NoTool
  <2>4. Shaped' /\ Placed'
    BY <2>1, <2>2, <2>3
  <2> QED BY <2>1, <2>2, <2>3, <2>4
<1>3. CASE RunTool
  BY <1>3 DEF RunTool, NoTool
<1>4. CASE SandboxEnds
  BY <1>4 DEF SandboxEnds, NoTool
<1>5. CASE CompleteTool
  BY <1>5 DEF CompleteTool, NoTool
<1> QED BY <1>1, <1>2, <1>3, <1>4, <1>5 DEF Works

\* The transport is done, and what comes after it.
LEMMA Ending ==
  HarnessInv /\ (TransportReturns \/ TransportThrows \/ Leave \/ Return) => HarnessInv'
<1> SUFFICES ASSUME HarnessInv, TransportReturns \/ TransportThrows \/ Leave \/ Return
             PROVE  HarnessInv'
  OBVIOUS
<1> USE DEF HarnessInv, Shaped, Placed, NotAhead, Strayed, Gen, NoInvocation
<1>1. CASE TransportReturns \/ TransportThrows
  <2>1. x.pc = "running" /\ UNCHANGED <<fence, tool, result, strays>>
    BY <1>1 DEF TransportReturns, TransportThrows
  <2>2. ASSUME NEW left
        PROVE  /\ Over(left).pc = "draining" /\ Over(left).lease = x.lease
               /\ Over(left).watch = "idle" /\ DOMAIN Over(left) = DOMAIN x
    BY DEF Over
  <2>3. ASSUME NEW status, NEW ref, NEW count, NEW events
        PROVE  /\ Returned(status, ref, count, events).pc = "draining"
               /\ Returned(status, ref, count, events).lease = x.lease
               /\ Returned(status, ref, count, events).watch = "idle"
               /\ DOMAIN Returned(status, ref, count, events) = DOMAIN x
    BY <2>2 DEF Returned
  <2>4. x'.pc = "draining" /\ x'.lease = x.lease /\ x'.watch = "idle" /\ DOMAIN x' = DOMAIN x
    <3>1. CASE TransportReturns
      <4>1. \/ x' = Over(TRUE)
            \/ \E status, ref, count, events : x' = Returned(status, ref, count, events)
        BY <3>1, Zenon DEF TransportReturns
      <4>2. CASE x' = Over(TRUE)
        BY <2>2, <4>2
      <4>3. CASE \E status, ref, count, events : x' = Returned(status, ref, count, events)
        BY <2>3, <4>3
      <4> QED BY <4>1, <4>2, <4>3
    <3>2. CASE TransportThrows
      <4>1. x' \in {[Over(Pending) EXCEPT !.status = "failure", !.count = x.calls],
                    [Over(Pending) EXCEPT !.status = "refusal"]}
        BY <3>2 DEF TransportThrows
      <4>2. {"pc", "lease", "watch"} \subseteq DOMAIN x
        BY DEF NoInvocation
      <4>3. x' = [Over(Pending) EXCEPT !.status = "failure", !.count = x.calls]
              \/ x' = [Over(Pending) EXCEPT !.status = "refusal"]
        BY <4>1
      <4> HIDE DEF HarnessInv, Shaped, NoInvocation, Pending
      <4> QED BY <2>2, <4>2, <4>3
    <3> QED BY <1>1, <3>1, <3>2
  <2> QED BY <2>1, <2>4
<1>2. CASE Leave
  <2>1. x.pc = "draining" /\ tool = NoTool /\ UNCHANGED <<fence, tool, strays>>
    BY <1>2 DEF Leave, Drained, Pending
  <2>2. CASE Refuse
    BY <2>1, <2>2, Settling DEF Refuse, NoResult
  <2>3. CASE ~Refuse
    <3>1. /\ x'.pc = "leaving" /\ (x'.current => fence = x.lease[1]) /\ x'.lease = x.lease
          /\ x'.watch = x.watch /\ DOMAIN x' = DOMAIN x /\ result' = result
      BY <1>2, <2>3 DEF Leave, IsCurrent
    <3>2. Shaped' /\ Placed'
      BY <2>1, <3>1
    <3> QED BY <2>1, <3>1, <3>2 DEF NoTool
  <2> QED BY <2>2, <2>3
<1>3. CASE Return
  <2>1. x.pc = "leaving" /\ tool = NoTool /\ UNCHANGED <<fence, tool, strays>>
    BY <1>3 DEF Return
  <2>2. \E r : Settle(r) /\ (r.kind = "returned" => x.current)
    BY <1>3 DEF Return, Refuse, NoResult
  <2> QED BY <2>1, <2>2, Settling
<1> QED BY <1>1, <1>2, <1>3

\* The caller, another owner, and time.
LEMMA Surrounding == HarnessInv /\ (Collect \/ Takeover \/ Authorize \/ Tick) => HarnessInv'
<1> SUFFICES ASSUME HarnessInv, Collect \/ Takeover \/ Authorize \/ Tick PROVE HarnessInv'
  OBVIOUS
<1> USE DEF HarnessInv, Shaped, Placed, NotAhead, Strayed, Gen
<1>1. CASE Collect
  BY <1>1 DEF Collect, NoInvocation, NoResult
<1>2. CASE Takeover
  BY <1>2 DEF Takeover
<1>3. CASE Authorize
  BY <1>3 DEF Authorize
<1>4. CASE Tick
  BY <1>4 DEF Tick, NoInvocation
<1> QED BY <1>1, <1>2, <1>3, <1>4

\* The invariant of an invocation (AsfHarness.execute and its tool gateway), for
\* any roles, limits, number of owners and length of the run.
THEOREM HarnessInvariant == HarnessSpec => []HarnessInv
<1>1. HarnessInv /\ UNCHANGED harnessVars => HarnessInv'
  BY DEF harnessVars, HarnessInv, Shaped, Placed, NotAhead, Strayed, Gen
<1>2. HarnessInv /\ [HarnessNext]_harnessVars => HarnessInv'
  BY <1>1, Entering, Racing, Tooling, Ending, Surrounding DEF HarnessNext
<1> QED BY <1>2, HarnessInitHolds, PTL DEF HarnessSpec

\* When execute returns or throws, no tool of the invocation is running or
\* about to (Promise.allSettled of the pending calls).
THEOREM SettledMeansQuietHolds == HarnessSpec => []SettledMeansQuiet
<1>1. HarnessInv => SettledMeansQuiet
  BY DEF HarnessInv, Placed, SettledMeansQuiet
<1> QED BY <1>1, HarnessInvariant, PTL

\* At most one tool starts behind a fence that was lost meanwhile, its result
\* is discarded and the invocation is refused (RunTool, the gateway's second
\* question and the assertions of execute).
THEOREM StaleWorkIsContainedHolds == HarnessSpec => []StaleWorkIsContained
<1>1. HarnessInv => StaleWorkIsContained
  BY DEF HarnessInv, Strayed, StaleWorkIsContained
<1> QED BY <1>1, HarnessInvariant, PTL

\* What resumes a session: #assertSession binds a capability of the same lease,
\* and an authorization its session and its new owner.
LEMMA CapabilityBinds ==
  ASSUME NEW role, NEW lease \in LeaseIds, NEW cap \in Held \cup Resolved, NEW inv,
         RequestBound(inv, lease, cap), SessionBound(role, inv, lease, cap)
  PROVE  \/ \E s \in sessions : s.inv = inv /\ s.lease = lease
         \/ \E g \in grants : g.session.inv = inv /\ g.to = lease[1]
<1>1. CASE cap \in Held
  <2>1. PICK s \in sessions :
          cap = [on |-> TRUE, session |-> s, granted |-> FALSE, to |-> s.lease[1]]
    BY <1>1 DEF Held
  <2>2. s.inv = inv /\ s.lease = lease
    BY <2>1 DEF SessionBound
  <2> QED BY <2>2
<1>2. CASE cap \in Resolved
  <2>1. PICK g \in grants :
          cap = [on |-> TRUE, session |-> g.session, granted |-> TRUE, to |-> g.to]
    BY <1>2 DEF Resolved
  <2>2. g.session.inv = inv /\ g.to = lease[1]
    BY <2>1 DEF RequestBound
  <2> QED BY <2>2
<1> QED BY <1>1, <1>2

\* Only execute begins an invocation; a later owner resumes a session of an
\* earlier invocation only if it was granted to it.
THEOREM ResumeIsBoundHolds == HarnessSpec => ResumeIsBound
<1> DEFINE A == (x.pc = "idle" /\ x'.pc = "entering" /\ x'.inv < execs') =>
                  \/ \E s \in sessions : s.inv = x'.inv /\ s.lease = x'.lease
                  \/ \E g \in grants : g.session.inv = x'.inv /\ g.to = x'.lease[1]
<1>1. ASSUME HarnessInv, Begin, x'.pc = "entering", x'.inv < execs' PROVE A
  <2>1. PICK role, lease, cap, inv :
          /\ lease \in LeaseIds /\ x'.lease = lease /\ x'.inv = inv /\ inv \in Nat
          /\ cap \in Held \cup Resolved \/ inv = execs + 1
          /\ RequestBound(inv, lease, cap) /\ SessionBound(role, inv, lease, cap)
    BY <1>1, Beginning
  <2>2. inv # execs + 1
    BY <1>1, <2>1 DEF Begin
  <2> QED BY <2>1, <2>2, CapabilityBinds
<1>2. ASSUME HarnessInv, HarnessNext, ~Begin, x.pc = "idle", x'.pc = "entering" PROVE FALSE
  <2>1. x.watch = "idle" /\ tool = NoTool /\ x' # x
    BY <1>2 DEF HarnessInv, Placed
  <2>2. ~ForwardCancellation /\ ~WatchdogActs /\ ~WatchdogAsks /\ ~Deadline /\ ~InvokeTool
    BY <1>2, <2>1 DEF ForwardCancellation, WatchdogActs, WatchdogAsks, Deadline, InvokeTool
  <2>3. ~Works
    BY <2>1 DEF Works, GatewayAsks, RunTool, SandboxEnds, CompleteTool, NoTool
  <2>4. ~Enter /\ ~TransportReturns /\ ~TransportThrows /\ ~Leave /\ ~Return /\ ~Collect
    BY <1>2 DEF Enter, TransportReturns, TransportThrows, Leave, Return, Collect
  <2>5. ~Takeover /\ ~Authorize /\ ~Tick
    BY <1>2, <2>1 DEF Takeover, Authorize, Tick
  <2> QED BY <1>2, <2>2, <2>3, <2>4, <2>5 DEF HarnessNext
<1>3. HarnessInv /\ [HarnessNext]_harnessVars => [A]_harnessVars
  BY <1>1, <1>2
<1> HIDE DEF A
<1>4. HarnessSpec => [][A]_harnessVars
  BY <1>3, HarnessInvariant, PTL DEF HarnessSpec
<1> QED BY <1>4 DEF ResumeIsBound, A

-----------------------------------------------------------------------------
(* What an invocation reports: the tools that ran, no more and no fewer.   *)

\* The stream of a forced stop names every tool that ran.
LEMMA StreamReports ==
  ASSUME NEW done \in Seq(Nat), NEW status, NEW k \in DOMAIN done
  PROVE  done[k] \in Reported(Stream(done, status))
<1> DEFINE calls == ToolEvents(done)
           start == <<Ev("session.started", 0)>>
           end == <<Ev("usage.updated", 0), Ev(status, 0)>>
           E == {Ev("session.started", 0), Ev("usage.updated", 0), Ev(status, 0)}
                  \cup {Ev("tool.requested", m) : m \in Nat}
                  \cup {Ev("tool.completed", m) : m \in Nat}
           n == Len(done)
<1>1. n \in Nat /\ DOMAIN done = 1 .. n /\ k \in Nat /\ 1 <= k /\ k <= n
  OBVIOUS
<1>2. /\ DOMAIN calls = 1 .. 2 * n
      /\ \A i \in 1 .. 2 * n :
           calls[i] = Ev(IF i % 2 = 1 THEN "tool.requested" ELSE "tool.completed",
                         done[(i + 1) \div 2])
  BY DEF ToolEvents
<1>3. \A i \in 1 .. 2 * n : calls[i] \in E
  <2> TAKE i \in 1 .. 2 * n
  <2>1. (i + 1) \div 2 \in 1 .. n
    BY <1>1
  <2>2. done[(i + 1) \div 2] \in Nat
    BY <2>1, <1>1
  <2> QED BY <1>2, <2>2
<1>4. calls \in Seq(E) /\ Len(calls) = 2 * n
  <2>1. calls \in [1 .. 2 * n -> E]
    BY <1>2, <1>3 DEF ToolEvents
  <2> HIDE DEF calls, E
  <2> QED BY <2>1, <1>1
<1>5. 2 * k \in 1 .. 2 * n /\ (2 * k) % 2 = 0 /\ (2 * k + 1) \div 2 = k
  <2> HIDE DEF n
  <2>1. 2 * k \in 1 .. 2 * n
    BY <1>1
  <2>2. (2 * k) % 2 = 0
    BY <1>1
  <2>3. (2 * k + 1) \div 2 = k
    BY <1>1
  <2> QED BY <2>1, <2>2, <2>3
<1>6. calls[2 * k] = Ev("tool.completed", done[k])
  BY <1>2, <1>5
<1>7. start \in Seq(E) /\ Len(start) = 1 /\ end \in Seq(E) /\ Len(end) = 2
  OBVIOUS
<1>8. Stream(done, status) = (start \o calls) \o end
  BY DEF Stream
<1>9. /\ 2 * k + 1 \in DOMAIN Stream(done, status)
      /\ Stream(done, status)[2 * k + 1] = Ev("tool.completed", done[k])
  <2> HIDE DEF calls, start, end, E, n
  <2> DEFINE s == start \o calls
  <2>1. s \in Seq(E) /\ Len(s) = 1 + 2 * n /\ s[2 * k + 1] = calls[2 * k]
    <3>1. /\ s \in Seq(E) /\ Len(s) = Len(start) + Len(calls)
          /\ \A i \in 1 .. Len(start) + Len(calls) :
               s[i] = IF i <= Len(start) THEN start[i] ELSE calls[i - Len(start)]
      BY <1>4, <1>7, ConcatProperties
    <3>2. 2 * k + 1 \in 1 .. 1 + 2 * n /\ ~(2 * k + 1 <= 1) /\ 2 * k + 1 - 1 = 2 * k
      BY <1>1
    <3> HIDE DEF s
    <3> QED BY <1>4, <1>7, <3>1, <3>2
  <2> HIDE DEF s
  <2> DEFINE t == s \o end
  <2>2. /\ t \in Seq(E) /\ Len(t) = Len(s) + Len(end)
        /\ \A i \in 1 .. Len(s) + Len(end) :
             t[i] = IF i <= Len(s) THEN s[i] ELSE end[i - Len(s)]
    BY <1>7, <2>1, ConcatProperties
  <2>3. 2 * k + 1 \in 1 .. Len(s) + Len(end) /\ 2 * k + 1 <= Len(s)
    BY <1>1, <1>7, <2>1
  <2>4. Stream(done, status) = t
    BY <1>8 DEF s
  <2> HIDE DEF t
  <2>5. DOMAIN t = 1 .. Len(s) + Len(end)
    BY <2>2
  <2> QED BY <1>6, <2>1, <2>2, <2>3, <2>4, <2>5
<1> QED BY <1>9 DEF Reported, Completions, Ev

\* The new status of the final event leaves the tools of a stream as they are.
LEMMA RenamedReports ==
  ASSUME NEW events, FinalStatus # "tool.completed"
  PROVE  Reported(Renamed(events)) = Reported(events)
<1>1. Completions(Renamed(events)) = Completions(events)
  BY DEF Completions, Renamed, Ev, Statuses
<1>2. \A i \in Completions(events) : Renamed(events)[i] = events[i]
  BY DEF Completions, Renamed, Ev, Statuses
<1> QED BY <1>1, <1>2 DEF Reported


\* What is counted: the calls of an invocation and the tools that ran to their
\* end, and what a forced stop reports of them.
Tallied ==
  /\ x.done \in Seq(Nat) /\ x.seen \subseteq Nat /\ IsFiniteSet(x.seen) /\ tool.id \in Nat
  /\ x.status \in Statuses \cup {"none", "refusal"} /\ x.stop \in Stops \cup {"none"}
  /\ x.pc = "entering" => x.calls = 0 /\ x.done = <<>>
  /\ x.pc = "leaving" /\ x.stop # "none" => x.events = ForcedEvents

AccountInv == Tallied /\ ResultAccountsForTools

\* Before the first invocation.
LEMMA AccountInitHolds == HarnessInit => AccountInv
  BY FS_EmptySet DEF HarnessInit, AccountInv, Tallied, ResultAccountsForTools, NoInvocation,
                     NoTool, NoResult, Statuses, Stops

\* A step that does not touch what is counted.
LEMMA Uncounted ==
  ASSUME AccountInv, x'.done = x.done, x'.seen = x.seen, x'.calls = x.calls, tool'.id \in Nat,
         x'.status = x.status, x'.stop = x.stop, x'.events = x.events, result' = result,
         x'.pc = "entering" => x.pc = "entering", x'.pc = "leaving" => x.pc = "leaving"
  PROVE  AccountInv'
  BY DEF AccountInv, Tallied, ResultAccountsForTools, ForcedEvents

\* An invocation that ends without a result.
LEMMA RefusedIsCounted ==
  ASSUME HarnessInv, AccountInv, tool'.id \in Nat, x'.pc = "settled",
         x'.done \in Seq(Nat), x'.seen = {}, x'.status = "none", x'.stop = "none",
         result'.kind # "returned"
  PROVE  AccountInv'
  BY FS_EmptySet DEF AccountInv, Tallied, ResultAccountsForTools, Statuses

\* A refusal of execute.
LEMMA Refusing == ASSUME HarnessInv, AccountInv, tool'.id \in Nat, Refuse PROVE AccountInv'
<1>1. /\ x'.pc = "settled" /\ x'.done = x.done /\ x'.seen = {} /\ x'.status = "none"
      /\ x'.stop = "none" /\ result'.kind = "refused"
  BY DEF Refuse, Settle, NoInvocation, NoResult
<1> QED BY <1>1, RefusedIsCounted DEF AccountInv, Tallied

\* execute, up to the answer of the fence.
LEMMA EnteringCounts ==
  ASSUME HarnessInv, AccountInv, Begin \/ Enter PROVE AccountInv'
<1>1. CASE Begin
  <2>1. /\ x'.pc # "leaving" /\ result'.kind # "returned"
        /\ \A f \in Untouched : x'[f] = NoInvocation[f]
    BY <1>1, Beginning
  <2>2. /\ x'.done = <<>> /\ x'.seen = {} /\ x'.calls = 0 /\ x'.status = "none"
        /\ x'.stop = "none"
    BY <2>1 DEF Untouched, NoInvocation
  <2>3. tool' = tool
    BY <1>1 DEF Begin
  <2> QED BY <2>1, <2>2, <2>3, FS_EmptySet
          DEF AccountInv, Tallied, ResultAccountsForTools, Statuses
<1>2. CASE Enter
  <2>1. x.pc = "entering" /\ tool' = tool
    BY <1>2 DEF Enter
  <2>2. CASE Refuse
    BY <2>1, <2>2, Refusing DEF AccountInv, Tallied
  <2>3. CASE Settle(CancelledResult)
    <3>1. /\ x'.pc = "settled" /\ x'.done = x.done /\ x'.calls = x.calls /\ x'.seen = {}
          /\ x'.status = "none" /\ x'.stop = "none" /\ result' = CancelledResult
      BY <2>3 DEF Settle, NoInvocation
    <3>2. result'.calls = 0 /\ Reported(result'.events) = {}
      BY <3>1 DEF CancelledResult, NoResult, Reported, Completions
    <3> QED BY <2>1, <3>1, <3>2, FS_EmptySet
            DEF AccountInv, Tallied, ResultAccountsForTools, Statuses
  <2>4. CASE x' = [x EXCEPT !.pc = "running", !.current = FALSE] /\ UNCHANGED result
    BY <2>1, <2>4, Uncounted DEF HarnessInv, Shaped, NoInvocation, AccountInv, Tallied
  <2> QED BY <1>2, <2>2, <2>3, <2>4 DEF Enter
<1> QED BY <1>1, <1>2

\* The deadline, the cancellation and the watchdog.
LEMMA RacingCounts ==
  ASSUME HarnessInv, AccountInv, ForwardCancellation \/ Deadline \/ WatchdogAsks \/ WatchdogActs
  PROVE  AccountInv'
<1>1. tool' = tool /\ result' = result
  BY DEF ForwardCancellation, Deadline, WatchdogAsks, WatchdogActs
<1>2. ASSUME NEW kind \in Stops, x' = Forced(kind), x.pc = "running" PROVE AccountInv'
  <2>1. /\ x'.pc = "draining" /\ x'.stop = kind /\ x'.done = x.done /\ x'.seen = x.seen
        /\ x'.status = x.status
    BY <1>2 DEF Forced, HarnessInv, Shaped, NoInvocation
  <2> QED BY <1>1, <1>2, <2>1
          DEF HarnessInv, Placed, AccountInv, Tallied, ResultAccountsForTools
<1>3. CASE x' = Forced("cancelled") /\ x.pc = "running"
  BY <1>2, <1>3 DEF Stops
<1>4. CASE x' = Forced("timeout") /\ x.pc = "running"
  BY <1>2, <1>4 DEF Stops
<1>5. CASE x' = Forced("stale-generation") /\ x.pc = "running"
  BY <1>2, <1>5 DEF Stops
<1>6. CASE \E watch, abort : x' \in {[x EXCEPT !.watch = watch], [x EXCEPT !.abort = abort], x}
  <2>1. /\ x'.done = x.done /\ x'.seen = x.seen /\ x'.calls = x.calls /\ x'.status = x.status
        /\ x'.stop = x.stop /\ x'.events = x.events /\ x'.pc = x.pc
    BY <1>6 DEF HarnessInv, Shaped, NoInvocation
  <2> QED BY <1>1, <2>1, Uncounted DEF AccountInv, Tallied
<1> QED BY <1>3, <1>4, <1>5, <1>6
        DEF ForwardCancellation, Deadline, WatchdogAsks, WatchdogActs, HarnessInv, Placed

\* A tool, from its request to its result.
LEMMA ToolingCounts ==
  ASSUME HarnessInv, AccountInv, InvokeTool \/ Works PROVE AccountInv'
<1>1. CASE InvokeTool
  <2>1. PICK id \in x.seen \cup {Cardinality(x.seen) + 1} :
          /\ x'.seen \in {x.seen, x.seen \cup {id}} /\ tool'.id \in {tool.id, id}
          /\ x.pc # "running" => x'.calls = x.calls
          /\ x'.done = x.done /\ x'.status = x.status /\ x'.stop = x.stop /\ x'.pc = x.pc
          /\ x'.events = x.events
    BY <1>1 DEF InvokeTool, HarnessInv, Shaped, NoInvocation, NoTool, SessionActive
  <2>2. id \in Nat /\ IsFiniteSet(x.seen \cup {id})
    BY FS_CardinalityType, FS_AddElement DEF AccountInv, Tallied
  <2>3. x.pc \notin {"idle", "entering"} /\ result' = result
    BY <1>1 DEF InvokeTool
  <2> QED BY <2>1, <2>2, <2>3
          DEF HarnessInv, Placed, AccountInv, Tallied, ResultAccountsForTools, ForcedEvents
<1>2. CASE GatewayAsks \/ RunTool \/ SandboxEnds
  <2>1. x' = x /\ result' = result
    BY <1>2 DEF GatewayAsks, RunTool, SandboxEnds
  <2>2. tool'.id \in {tool.id, 0}
    <3> USE DEF HarnessInv, Shaped, NoTool
    <3>1. CASE GatewayAsks
      BY <3>1 DEF GatewayAsks
    <3>2. CASE RunTool
      BY <3>2 DEF RunTool
    <3>3. CASE SandboxEnds
      BY <3>3 DEF SandboxEnds
    <3> QED BY <1>2, <3>1, <3>2, <3>3
  <2> QED BY <2>1, <2>2, Uncounted DEF AccountInv, Tallied
<1>3. CASE CompleteTool
  <2>1. x.pc \in {"running", "draining"} /\ tool'.id = 0 /\ result' = result
    BY <1>3 DEF CompleteTool, HarnessInv, Placed, NoTool
  <2>2. /\ x'.done \in {x.done, ToolResult} /\ x'.seen = x.seen /\ x'.calls = x.calls
        /\ x'.status = x.status /\ x'.stop = x.stop /\ x'.pc = x.pc
    BY <1>3 DEF CompleteTool, HarnessInv, Shaped, NoInvocation
  <2>3. ToolResult \in Seq(Nat)
    BY DEF ToolResult, AccountInv, Tallied
  <2> QED BY <2>1, <2>2, <2>3
          DEF HarnessInv, Placed, AccountInv, Tallied, ResultAccountsForTools
<1> QED BY <1>1, <1>2, <1>3 DEF Works

\* The transport is done.
LEMMA TransportCounts ==
  ASSUME HarnessInv, AccountInv, TransportReturns \/ TransportThrows PROVE AccountInv'
<1>1. x.pc = "running" /\ tool' = tool /\ result' = result
  BY DEF TransportReturns, TransportThrows
<1>2. ASSUME NEW y, y.pc = "draining", y.done = x.done, y.seen = x.seen, y.stop = x.stop,
             y.status \in Statuses \cup {"none", "refusal"}, x' = y
      PROVE  AccountInv'
  BY <1>1, <1>2 DEF HarnessInv, Placed, AccountInv, Tallied, ResultAccountsForTools
<1>3. ASSUME NEW left
      PROVE  /\ Over(left).pc = "draining" /\ Over(left).done = x.done
             /\ Over(left).seen = x.seen /\ Over(left).stop = x.stop
             /\ Over(left).status = x.status
             /\ DOMAIN Over(left) = DOMAIN NoInvocation
  BY DEF Over, HarnessInv, Shaped, NoInvocation
<1>4. {"pc", "done", "seen", "stop", "status"} \subseteq DOMAIN NoInvocation
  BY DEF NoInvocation
<1>5. CASE x' = Over(TRUE)
  BY <1>2, <1>3, <1>5 DEF AccountInv, Tallied
<1>6. ASSUME NEW status \in Statuses, NEW ref, NEW count, NEW events,
             x' = Returned(status, ref, count, events)
      PROVE  AccountInv'
  <2>1. /\ x'.pc = "draining" /\ x'.done = x.done /\ x'.seen = x.seen /\ x'.stop = x.stop
        /\ x'.status = status
    <3>1. DOMAIN Over(FALSE) = DOMAIN NoInvocation /\ "status" \in DOMAIN Over(FALSE)
      BY <1>3, <1>4
    <3>2. /\ x'.pc = Over(FALSE).pc /\ x'.done = Over(FALSE).done /\ x'.seen = Over(FALSE).seen
          /\ x'.stop = Over(FALSE).stop /\ x'.status = status
      BY <1>4, <1>6, <3>1 DEF Returned
    <3> QED BY <1>3, <3>2
  <2> QED BY <1>2, <2>1
<1>7. CASE TransportReturns
  <2>1. \/ x' = Over(TRUE)
        \/ \E status \in Statuses : \E ref, count, events :
             x' = Returned(status, ref, count, events)
    BY <1>7 DEF TransportReturns, Statuses
  <2> QED BY <1>5, <1>6, <2>1
<1>8. CASE TransportThrows
  <2> DEFINE over == Over(Pending)
  <2>1. /\ over.pc = "draining" /\ over.done = x.done /\ over.seen = x.seen
        /\ over.stop = x.stop /\ {"pc", "done", "seen", "stop", "status"} \subseteq DOMAIN over
    BY <1>3, <1>4
  <2>2. \/ x' = [over EXCEPT !.status = "failure", !.count = x.calls]
        \/ x' = [over EXCEPT !.status = "refusal"]
    BY <1>8 DEF TransportThrows
  <2> HIDE DEF over
  <2>3. /\ x'.pc = "draining" /\ x'.done = x.done /\ x'.seen = x.seen /\ x'.stop = x.stop
        /\ x'.status \in {"failure", "refusal"}
    BY <2>1, <2>2
  <2> QED BY <1>2, <2>3 DEF Statuses
<1> QED BY <1>7, <1>8

\* What comes after the race.
LEMMA LeavingCounts ==
  ASSUME HarnessInv, AccountInv, Leave \/ Return PROVE AccountInv'
<1>1. CASE Leave
  <2>1. x.pc = "draining" /\ tool' = tool
    BY <1>1 DEF Leave
  <2>2. CASE Refuse
    BY <2>1, <2>2, Refusing DEF AccountInv, Tallied
  <2>3. CASE ~Refuse
    <3>1. /\ x'.pc = "leaving" /\ x'.done = x.done /\ x'.seen = x.seen /\ x'.stop = x.stop
          /\ x'.status \in {x.status, x.stop} /\ result' = result
          /\ x.stop # "none" => x'.events = ForcedEvents
          /\ x.stop = "none" => x'.status = x.status
      BY <1>1, <2>3 DEF Leave, HarnessInv, Shaped, NoInvocation
    <3>2. x.stop # "stale-generation"
      BY <1>1, <2>3 DEF Leave
    <3>3. x'.status \in Statuses \cup {"none", "refusal"}
      BY <3>1, <3>2 DEF AccountInv, Tallied, Stops, Statuses
    <3>4. x'.stop # "none" => x'.events = ForcedEvents'
      BY <3>1 DEF ForcedEvents
    <3>5. result'.kind # "returned"
      BY <2>1, <3>1 DEF HarnessInv, Placed
    <3> QED BY <2>1, <3>1, <3>3, <3>4, <3>5 DEF AccountInv, Tallied, ResultAccountsForTools
  <2> QED BY <2>2, <2>3
<1>2. CASE Return
  <2>1. x.pc = "leaving" /\ tool' = tool
    BY <1>2 DEF Return
  <2>2. CASE Refuse
    BY <2>1, <2>2, Refusing DEF AccountInv, Tallied
  <2> DEFINE told == [kind |-> "returned", status |-> FinalStatus, calls |-> x.count,
                      events |-> Renamed(x.events)]
  <2>3. CASE TransportSound /\ Settle(told)
    <3>1. /\ x'.pc = "settled" /\ x'.done = x.done /\ x'.calls = x.calls /\ x'.seen = {}
          /\ x'.status = "none" /\ x'.stop = "none" /\ result' = told
      BY <2>3 DEF Settle, NoInvocation
    <3>2. FinalStatus # "tool.completed"
      BY DEF FinalStatus, AccountInv, Tallied, Statuses
    <3>3. Reported(result'.events) = Reported(x.events)
      <4>1. result'.events = Renamed(x.events)
        BY <3>1
      <4> QED BY <3>2, <4>1, RenamedReports
    <3>4. Reported(x.events) \subseteq {x.done[i] : i \in DOMAIN x.done}
      BY <2>3 DEF TransportSound
    <3>5. \A i \in DOMAIN x.done : x.done[i] \in Reported(x.events)
      <4>1. CASE x.stop = "none"
        BY <2>3, <4>1 DEF TransportSound
      <4>2. CASE x.stop # "none"
        <5>1. x.events = Stream(x.done, x.stop) /\ x.done \in Seq(Nat)
          BY <2>1, <4>2 DEF AccountInv, Tallied, ForcedEvents
        <5> QED BY <5>1, StreamReports
      <4> QED BY <4>1, <4>2
    <3>6. /\ result'.calls = x'.calls
          /\ Reported(result'.events) = {x'.done[i] : i \in DOMAIN x'.done}
      BY <2>3, <3>1, <3>3, <3>4, <3>5 DEF TransportSound
    <3>7. Tallied'
      BY <2>1, <3>1, FS_EmptySet DEF AccountInv, Tallied, Statuses
    <3> QED BY <3>6, <3>7 DEF AccountInv, ResultAccountsForTools
  <2> QED BY <1>2, <2>2, <2>3 DEF Return
<1> QED BY <1>1, <1>2

\* The caller, another owner, and time.
LEMMA SurroundingCounts ==
  ASSUME HarnessInv, AccountInv, Collect \/ Takeover \/ Authorize \/ Tick PROVE AccountInv'
<1>1. CASE Collect
  BY <1>1, FS_EmptySet
     DEF Collect, NoInvocation, NoResult, AccountInv, Tallied, ResultAccountsForTools, Statuses
<1>2. CASE Takeover \/ Authorize
  BY <1>2, Uncounted DEF Takeover, Authorize, AccountInv, Tallied
<1>3. CASE Tick
  <2>1. /\ x'.done = x.done /\ x'.seen = x.seen /\ x'.calls = x.calls /\ x'.status = x.status
        /\ x'.stop = x.stop /\ x'.events = x.events /\ x'.pc = x.pc
        /\ tool' = tool /\ result' = result
    BY <1>3 DEF Tick, HarnessInv, Shaped, NoInvocation
  <2> QED BY <2>1, Uncounted DEF AccountInv, Tallied
<1> QED BY <1>1, <1>2, <1>3

\* The account of an invocation (invokeTool, #forcedTransportResult and
\* #assertTransportResult), for any limits and whatever the transport returns.
THEOREM AccountInvariant == HarnessSpec => []AccountInv
<1>1. AccountInv /\ UNCHANGED harnessVars => AccountInv'
  BY DEF harnessVars, AccountInv, Tallied, ResultAccountsForTools, ForcedEvents
<1>2. HarnessInv /\ AccountInv /\ [HarnessNext]_harnessVars => AccountInv'
  BY <1>1, EnteringCounts, RacingCounts, ToolingCounts, TransportCounts, LeavingCounts,
     SurroundingCounts DEF HarnessNext
<1> QED BY <1>2, AccountInitHolds, HarnessInvariant, PTL DEF HarnessSpec

\* A result has the number of the calls that were made and the tools that ran
\* to their end, also when the transport was cut off or lied.
THEOREM ResultAccountsForToolsHolds == HarnessSpec => []ResultAccountsForTools
<1>1. AccountInv => ResultAccountsForTools
  BY DEF AccountInv
<1> QED BY <1>1, AccountInvariant, PTL
=============================================================================
