-------------------------- MODULE AsfEffectsProofs --------------------------
(***************************************************************************)
(* The safety of a run's effects, for any hosts, stages and bounds: what   *)
(* is applied once, what an advance and a terminal phase rest on, and that *)
(* a cancelled run stays cancelled.  One inductive invariant carries the   *)
(* first four; the last has a small one of its own.                        *)
(***************************************************************************)
EXTENDS AsfEffects, FiniteSetTheorems, TLAPS
-----------------------------------------------------------------------------
(* The invariants. *)

\* A generation is taken once: by one worker or by one reconciliation.
Owners ==
  /\ \A h \in Hosts : worker[h].pc # "idle" => worker[h].gen > 0 /\ worker[h].gen <= gen
  /\ \A h \in Hosts : recon[h].pc # "idle" => recon[h].gen > 0 /\ recon[h].gen <= gen
  /\ \A h, k \in Hosts :
       worker[h].pc # "idle" /\ worker[k].pc # "idle" /\ worker[h].gen = worker[k].gen => h = k
  /\ \A h, k \in Hosts :
       worker[h].pc # "idle" /\ recon[k].pc # "idle" => worker[h].gen # recon[k].gen

\* What any worker has in hand, stale or not.
Hand(h) ==
  /\ worker[h].pc \in InStage => worker[h].key \in intents
  /\ worker[h].pc \in {"observe", "begin"} => worker[h].key[1] \in GitHub
  /\ worker[h].pc = "confirm" => applied[worker[h].key[1]] > 0
  /\ worker[h].pc = "sealed" => plan.status = "sealed"
InHand == \A h \in Hosts : Hand(h)

\* What the worker of the latest generation knows of the run.
Delivers == InStage \cup {"advance", "failing"}
Knows(h) ==
  /\ worker[h].pc \in Delivers => phase = "DELIVERING" /\ plan.status = "none"
  /\ worker[h].pc \in InStage => worker[h].key[1] = pos
  /\ worker[h].pc = "advance" => pos <= Stages /\ applied[pos] > 0
  /\ worker[h].pc = "cancelling" => phase = "CANCELLING"
Current == \A h \in Hosts : worker[h].gen = gen => Knows(h)

\* The phase, the continuation and the plan.
Control ==
  /\ version > 0
  /\ block.on => block.resume \in {"DELIVERING", "CANCELLING"} /\ block.cursor > 0
  /\ phase = "BLOCKED_EXTERNAL" => resume # "none"
  /\ phase \in Terminal => plan.status = "sealed"
  /\ plan.status # "none" => plan.to \in Terminal /\ Pending = {} /\ ~Active
  /\ plan.status = "sealed" => ~flag

\* A stage has one intent, recorded when the run had come to it.
Intents ==
  /\ \A k \in intents : k[1] <= pos /\ k[2] > 0
  /\ \A j, k \in intents : j[1] = k[1] => j = k
  /\ phase = "DELIVERING" /\ result.cursor = 0 =>
       \A k \in intents : k[1] = pos => k[2] = version

\* Host h may still make a request for stage p.
Authority(h, p) ==
  /\ worker[h].key[1] = p
  /\ \/ worker[h].pc = "begun"
     \/ worker[h].pc = "invoke" /\ worker[h].apply /\ p \notin GitHub

\* The ledgers have stage p as unresolved.
Unresolved(p) ==
  IF p \in GitHub THEN github[p] \in Open
  ELSE \E k \in intents : k[1] = p /\ outcome[k] = "pending"

\* A stage is applied, or a request for it is on its way, or one worker may
\* make one, and never two of these; the ledgers wait for the last two.
Once(p) ==
  /\ applied[p] + inflight[p] <= 1
  /\ \A h \in Hosts : Authority(h, p) =>
       applied[p] = 0 /\ inflight[p] = 0 /\ \A k \in Hosts : Authority(k, p) => k = h
  /\ MayLand(p) => Unresolved(p)
  /\ p \notin GitHub /\ (\A k \in intents : k[1] = p => outcome[k] = "not_applied") =>
       applied[p] = 0
  /\ \A h \in Hosts :
       worker[h].pc = "begin" /\ worker[h].gen = gen /\ worker[h].key[1] = p =>
         applied[p] = 0 /\ ~MayLand(p)
Undisturbed == \A p \in 1 .. Stages : overtaken[p] \/ Once(p)

EffectsInv == /\ TypeOK /\ Owners /\ InHand /\ Current /\ Control /\ Intents
              /\ AdvancedMeansApplied /\ Undisturbed
-----------------------------------------------------------------------------
(* Moves of one worker. *)

Pcs == {"idle", "running", "invoke", "observe", "begin", "begun", "sent", "confirm",
        "advance", "cancelling", "failing", "planned", "sealed", "done"}
Workers == [pc : Pcs, gen : Nat, key : (0 .. Stages) \X Nat, apply : BOOLEAN]

\* Only the worker of h changes.
Alone(h) == \A k \in Hosts \ {h} : worker'[k] = worker[k]

\* It keeps its generation; it keeps the stage in hand while it is in one.
Moved(h, pc) ==
  /\ worker' \in [Hosts -> Workers] /\ Alone(h)
  /\ worker'[h].pc = pc /\ worker'[h].gen = worker[h].gen
  /\ pc \in InStage => worker'[h].key = worker[h].key /\ worker'[h].apply = worker[h].apply

\* Go moves one worker, which keeps its generation and, in a stage, its key.
LEMMA GoMoves ==
  ASSUME worker \in [Hosts -> Workers], NEW h \in Hosts, NEW pc \in Pcs, Go(h, pc)
  PROVE  Moved(h, pc)
<1> DEFINE rest == [Idle EXCEPT !.pc = pc, !.gen = worker[h].gen]
           same == [worker[h] EXCEPT !.pc = pc]
<1>1. worker[h] \in Workers OBVIOUS
<1>2. same \in Workers /\ same.pc = pc /\ same.gen = worker[h].gen /\ same.key = worker[h].key
      /\ same.apply = worker[h].apply
  BY <1>1 DEF Workers
<1>3. rest \in Workers /\ rest.pc = pc /\ rest.gen = worker[h].gen
  <2>1. <<0, 0>> \in (0 .. Stages) \X Nat
    BY AsfEffectsAssumption
  <2>2. worker[h].gen \in Nat BY <1>1 DEF Workers
  <2> QED BY <2>1, <2>2 DEF Workers, Idle
<1>4. worker' = [worker EXCEPT ![h] = IF pc \in InStage THEN same ELSE rest]
  BY DEF Go
<1> HIDE DEF rest, same
<1> QED BY <1>2, <1>3, <1>4 DEF Moved, Alone

\* A worker that leaves is idle; no other worker changes.
LEMMA LeaveMoves ==
  ASSUME worker \in [Hosts -> Workers], NEW h \in Hosts, worker' = [worker EXCEPT ![h] = Idle]
  PROVE  worker' \in [Hosts -> Workers] /\ Alone(h) /\ worker'[h] = Idle /\ worker'[h].pc = "idle"
<1>1. Idle \in Workers /\ Idle.pc = "idle"
  <2>1. <<0, 0>> \in (0 .. Stages) \X Nat BY AsfEffectsAssumption
  <2> QED BY <2>1 DEF Idle, Workers, Pcs
<1> QED BY <1>1 DEF Alone
-----------------------------------------------------------------------------
(* What a step must leave alone for a part of the invariant to stay. *)

Ops == [status : {"none", "queued", "running"}, set : SUBSET Effects, gen : Nat]
Recons == [pc : {"idle", "claimed", "github", "intents", "finish", "blocked", "release"},
           gen : Nat]
Resumes == {"none", "DELIVERING", "CANCELLING", "CANCEL_REQUESTED"}
Blocks == [on : BOOLEAN, set : SUBSET Effects, cursor : Nat, resume : Resumes]

\* TypeOK in four parts.
RunTyped ==
  /\ phase \in Phases /\ pos \in 1 .. Stages + 1 /\ version \in Nat /\ gen \in Nat
  /\ owned \in BOOLEAN /\ flag \in BOOLEAN /\ started \in BOOLEAN
  /\ resume \in Resumes
  /\ cancel \in [mode : {"none", "graceful", "forced"},
                 origin : {"none", "preexisting", "durable-effects", "forced-cancellation-cleanup"}]
  /\ block \in Blocks /\ result \in [cursor : Nat, absent : SUBSET Keys]
LedgerTyped ==
  /\ intents \subseteq Keys
  /\ outcome \in [intents -> Outcomes] /\ replay \in [intents -> Nat]
  /\ github \in [GitHub -> Open \cup {"none", "confirmed", "not_applied"}]
  /\ plan \in [status : {"none", "open", "sealed"}, to : Terminal \cup {"none"}]
ProcsTyped ==
  /\ op \in Ops /\ worker \in [Hosts -> Workers] /\ recon \in [Hosts -> Recons]
  /\ up \in [Hosts -> BOOLEAN] /\ crashes \in Nat
WorldTyped ==
  /\ inflight \in [1 .. Stages -> Nat] /\ applied \in [1 .. Stages -> Nat]
  /\ overtaken \in [1 .. Stages -> BOOLEAN]

\* The four parts are TypeOK.
LEMMA Types == TypeOK <=> RunTyped /\ LedgerTyped /\ ProcsTyped /\ WorldTyped
BY DEF TypeOK, RunTyped, LedgerTyped, ProcsTyped, WorldTyped, Resumes, Blocks, Ops, Recons,
       Workers, Pcs

\* The same after a step.
LEMMA TypesNext == ASSUME RunTyped', LedgerTyped', ProcsTyped', WorldTyped' PROVE TypeOK'
BY DEF TypeOK, RunTyped, LedgerTyped, ProcsTyped, WorldTyped, Resumes, Blocks, Ops, Recons,
       Workers, Pcs

\* The workers, as the lemmas above need them.
LEMMA Typed == TypeOK => worker \in [Hosts -> Workers]
BY Types DEF ProcsTyped

\* No generation changes hands while the fence stays where it is.
LEMMA OwnersStay ==
  ASSUME Owners, NEW h \in Hosts, Alone(h), UNCHANGED gen,
         worker'[h].pc # "idle" => worker[h].pc # "idle" /\ worker'[h].gen = worker[h].gen,
         \A k \in Hosts : recon'[k].pc # "idle" =>
           recon[k].pc # "idle" /\ recon'[k].gen = recon[k].gen
  PROVE  Owners'
BY DEF Owners, Alone

\* Nothing that is applied is undone, and no row is removed.
Grows == /\ intents \subseteq intents'
         /\ \A p \in 1 .. Stages : applied[p] > 0 => applied'[p] > 0
         /\ plan.status = "sealed" => plan'.status = "sealed"

\* What the other workers have in hand survives a step that only adds.
LEMMA InHandStays ==
  ASSUME TypeOK, InHand, NEW h \in Hosts, Alone(h), Grows, Hand(h)'
  PROVE  InHand'
<1> SUFFICES ASSUME NEW k \in Hosts, k # h PROVE Hand(k)' BY DEF InHand
<1>1. worker'[k] = worker[k] /\ Hand(k) BY DEF Alone, InHand
<1>2. worker[k].pc \in InStage => worker[k].key[1] \in 1 .. Stages
  BY <1>1 DEF Hand, TypeOK, Keys
<1> QED BY <1>1, <1>2 DEF Hand, Grows, InStage

\* The step of a worker that has the fence concerns no other worker that has it.
LEMMA CurrentStays ==
  ASSUME Owners, Current, NEW h \in Hosts, Alone(h), UNCHANGED gen,
         worker'[h].gen = gen => Knows(h)',
         \/ worker[h].gen = gen /\ worker[h].pc # "idle"
         \/ UNCHANGED <<phase, plan, pos, applied>>
  PROVE  Current'
<1> SUFFICES ASSUME NEW k \in Hosts, k # h, worker[k].gen = gen PROVE Knows(k)'
  BY DEF Current, Alone
<1>1. worker'[k] = worker[k] /\ Knows(k) BY DEF Alone, Current
<1>2. CASE UNCHANGED <<phase, plan, pos, applied>>
  BY <1>1, <1>2 DEF Knows
<1>3. CASE worker[h].gen = gen /\ worker[h].pc # "idle"
  <2>1. worker[k].pc = "idle" BY <1>3 DEF Owners
  <2> QED BY <1>1, <2>1 DEF Knows, Delivers, InStage
<1> QED BY <1>2, <1>3

\* A new generation starts without a stage.
LEMMA CurrentAnew ==
  ASSUME TypeOK, Owners, gen' = gen + 1,
         \A k \in Hosts : worker'[k] = worker[k] \/ worker'[k].pc \in {"idle", "running"}
  PROVE  Current'
<1> SUFFICES ASSUME NEW k \in Hosts, worker'[k].gen = gen + 1 PROVE Knows(k)' BY DEF Current
<1>1. gen \in Nat BY DEF TypeOK
<1>2. worker'[k].pc \in {"idle", "running"} BY <1>1 DEF Owners
<1> QED BY <1>2 DEF Knows, Delivers, InStage

\* The phase and what goes with it.
LEMMA ControlStays ==
  ASSUME Control, UNCHANGED <<version, block, phase, resume, plan>>,
         plan.status # "none" => Pending' = {} /\ op'.status = "none",
         plan.status = "sealed" => ~flag'
  PROVE  Control'
BY DEF Control, Active

\* The intents keep to their stages while neither they nor the position change.
LEMMA IntentsStay ==
  ASSUME Intents, UNCHANGED <<intents, pos>>,
         phase' = "DELIVERING" /\ result'.cursor = 0 => UNCHANGED <<phase, result, version>>
  PROVE  Intents'
BY DEF Intents

\* No new authority, no new answer.
LEMMA OnceStays ==
  ASSUME NEW p \in 1 .. Stages, Once(p), UNCHANGED <<applied, inflight, gen>>,
         \A k \in Hosts : Authority(k, p)' => Authority(k, p),
         Unresolved(p) => Unresolved(p)',
         p \notin GitHub => UNCHANGED <<intents, outcome>>,
         \A k \in Hosts : worker'[k].pc = "begin" =>
           worker[k].pc = "begin" /\ worker'[k].gen = worker[k].gen /\ worker'[k].key = worker[k].key
  PROVE  Once(p)'
<1>1. MayLand(p)' => MayLand(p)
  BY DEF MayLand, Authority
<1>2. applied'[p] = applied[p] /\ inflight'[p] = inflight[p] OBVIOUS
<1>3. /\ (applied[p] + inflight[p] <= 1)'
      /\ \A h \in Hosts : Authority(h, p)' =>
           applied'[p] = 0 /\ inflight'[p] = 0 /\ \A k \in Hosts : Authority(k, p)' => k = h
  BY <1>2 DEF Once
<1>4. MayLand(p)' => Unresolved(p)' BY <1>1 DEF Once
<1>5. p \notin GitHub /\ (\A k \in intents' : k[1] = p => outcome'[k] = "not_applied") =>
        applied'[p] = 0
  BY <1>2 DEF Once
<1>6. \A h \in Hosts :
        worker'[h].pc = "begin" /\ worker'[h].gen = gen' /\ worker'[h].key[1] = p =>
          applied'[p] = 0 /\ ~MayLand(p)'
  BY <1>1, <1>2 DEF Once
<1> QED BY <1>3, <1>4, <1>5, <1>6 DEF Once
-----------------------------------------------------------------------------
(* Steps of one worker that change nothing but what it does. *)

untouched == <<phase, pos, version, gen, resume, cancel, block, result, started,
               ledger, plan, world>>
\* The state around them keeps its types, and a plan keeps what it rests on.
Around ==
  /\ owned' \in BOOLEAN /\ up' \in [Hosts -> BOOLEAN] /\ crashes' \in Nat
  /\ flag' \in BOOLEAN /\ op' \in Ops /\ recon' \in [Hosts -> Recons]
  /\ plan.status # "none" => op'.status = "none"
  /\ plan.status = "sealed" => ~flag'
  /\ \A k \in Hosts : recon'[k].pc # "idle" =>
       recon[k].pc # "idle" /\ recon'[k].gen = recon[k].gen

\* A step that writes neither flag nor request keeps what is around.
LEMMA AroundStays ==
  ASSUME EffectsInv, UNCHANGED <<flag, op>>,
         owned' \in BOOLEAN, up' \in [Hosts -> BOOLEAN], crashes' \in Nat,
         recon' \in [Hosts -> Recons],
         \A k \in Hosts : recon'[k] = recon[k] \/ recon'[k].pc = "idle"
  PROVE  Around
BY DEF EffectsInv, TypeOK, Around, Ops, Recons, Control, Active

\* The invariant, for a step of one worker that writes no ledger.
LEMMA Quiet ==
  ASSUME EffectsInv, NEW h \in Hosts, worker' \in [Hosts -> Workers], Alone(h),
         UNCHANGED untouched, Around,
         worker'[h].pc # "idle" => worker[h].pc # "idle" /\ worker'[h].gen = worker[h].gen,
         Hand(h)', worker'[h].gen = gen => Knows(h)',
         \A p \in 1 .. Stages : Authority(h, p)' => Authority(h, p),
         worker'[h].pc = "begin" => worker'[h] = worker[h]
  PROVE  EffectsInv'
<1> USE DEF EffectsInv, untouched, ledger, world
<1>1. TypeOK'
  <2>1. RunTyped' BY Types DEF RunTyped, Around
  <2>2. LedgerTyped' /\ WorldTyped' BY Types DEF LedgerTyped, WorldTyped
  <2>3. ProcsTyped' BY Types DEF ProcsTyped, Around
  <2> QED BY <2>1, <2>2, <2>3, TypesNext
<1>2. Owners' BY OwnersStay DEF Around
<1>3. InHand' BY InHandStays DEF Grows
<1>4. Current' BY CurrentStays
<1>5. Control' BY ControlStays DEF Control, Pending, OpenIntents, OpenGitHub, Around
<1>6. Intents' BY IntentsStay
<1>7. AdvancedMeansApplied' BY DEF AdvancedMeansApplied
<1>8. Undisturbed'
  <2> SUFFICES ASSUME NEW p \in 1 .. Stages, ~overtaken[p] PROVE Once(p)' BY DEF Undisturbed
  <2>1. Once(p) BY DEF Undisturbed
  <2>2. \A k \in Hosts : Authority(k, p)' => Authority(k, p) BY DEF Alone, Authority
  <2>3. Unresolved(p) => Unresolved(p)' BY DEF Unresolved
  <2>4. \A k \in Hosts : worker'[k].pc = "begin" =>
           worker[k].pc = "begin" /\ worker'[k].gen = worker[k].gen /\ worker'[k].key = worker[k].key
    BY DEF Alone
  <2> QED BY <2>1, <2>2, <2>3, <2>4, OnceStays
<1> QED BY <1>1, <1>2, <1>3, <1>4, <1>5, <1>6, <1>7, <1>8

\* No worker moves.
LEMMA QuietWorkers ==
  ASSUME EffectsInv, NEW h \in Hosts, UNCHANGED <<untouched, worker>>, Around
  PROVE  EffectsInv'
<1>1. worker' \in [Hosts -> Workers] /\ Alone(h) BY Typed DEF EffectsInv, Alone
<1>2. Hand(h)' /\ (worker'[h].gen = gen => Knows(h)')
  BY DEF EffectsInv, InHand, Current, Hand, Knows, untouched, ledger, world
<1>3. \A p \in 1 .. Stages : Authority(h, p)' => Authority(h, p) BY DEF Authority
<1> QED BY <1>1, <1>2, <1>3, Quiet

\* The worker lets go of the run, or its process ends.
LEMMA WorkerLeaves ==
  ASSUME EffectsInv, NEW h \in Hosts, worker' = [worker EXCEPT ![h] = Idle],
         UNCHANGED untouched, Around
  PROVE  EffectsInv'
<1>1. worker' \in [Hosts -> Workers] /\ Alone(h) /\ worker'[h].pc = "idle"
  BY LeaveMoves, Typed DEF EffectsInv
<1>2. Hand(h)' /\ Knows(h)' /\ \A p \in 1 .. Stages : ~Authority(h, p)'
  BY <1>1 DEF Hand, Knows, Authority, InStage, Delivers
<1> QED BY <1>1, <1>2, Quiet

\* The worker goes on to a step outside the stages.
LEMMA WorkerGoes ==
  ASSUME EffectsInv, NEW h \in Hosts, NEW pc \in Pcs \ InStage, Go(h, pc),
         UNCHANGED <<untouched, flag, op, recon, owned, up, crashes>>,
         worker[h].pc # "idle", pc # "idle",
         pc = "sealed" => plan.status = "sealed",
         worker[h].gen = gen /\ pc \in {"advance", "failing"} =>
           phase = "DELIVERING" /\ plan.status = "none",
         worker[h].gen = gen /\ pc = "advance" => pos <= Stages /\ applied[pos] > 0,
         worker[h].gen = gen /\ pc = "cancelling" => phase = "CANCELLING"
  PROVE  EffectsInv'
<1>1. Moved(h, pc) BY GoMoves, Typed DEF EffectsInv
<1>2. Hand(h)' /\ \A p \in 1 .. Stages : ~Authority(h, p)'
  BY <1>1 DEF Moved, Hand, Authority, InStage, untouched
<1>3. worker'[h].gen = gen => Knows(h)'
  BY <1>1 DEF Moved, Knows, Delivers, untouched, world
<1>4. Around
  BY AroundStays DEF EffectsInv, TypeOK, Recons
<1> QED BY <1>1, <1>2, <1>3, <1>4, Quiet DEF Moved, InStage, Pcs
-----------------------------------------------------------------------------
(* The host and the worker service. *)

\* The open effects are effects.
LEMMA PendingType ==
  ASSUME TypeOK
  PROVE  /\ OpenIntents \subseteq Keys /\ OpenGitHub \subseteq 1 .. Stages
         /\ Pending \in SUBSET Effects
BY AsfEffectsAssumption DEF TypeOK, Pending, OpenIntents, OpenGitHub, Effects

\* A request is recorded, by the start of a host or by the recovery.
LEMMA RequestStep ==
  ASSUME EffectsInv, NEW h \in Hosts, UNCHANGED <<untouched, worker, flag, recon, owned, crashes>>,
         up' \in [Hosts -> BOOLEAN], op' = op \/ (Requestable /\ op' = Queued(Pending))
  PROVE  EffectsInv'
<1>1. op' \in Ops
  BY PendingType, Types DEF EffectsInv, ProcsTyped, Queued, Ops
<1>2. Around
  BY <1>1, Types DEF EffectsInv, RunTyped, ProcsTyped, Around, Requestable, Control, Active
<1> QED BY <1>2, QuietWorkers

\* The start, the crash and the recovery of a host.
LEMMA HostRequestSteps ==
  ASSUME EffectsInv, NEW h \in Hosts, Start(h) \/ Crash(h) \/ Request(h)
  PROVE  EffectsInv'
<1>1. CASE Start(h)
  <2>1. up' \in [Hosts -> BOOLEAN] BY <1>1, Types DEF Start, EffectsInv, ProcsTyped
  <2> QED BY <1>1, <2>1, RequestStep DEF Start, untouched, runVars
<1>2. CASE Crash(h)
  <2>1. /\ up' \in [Hosts -> BOOLEAN] /\ crashes' \in Nat /\ owned' \in BOOLEAN
        /\ recon' \in [Hosts -> Recons]
        /\ \A k \in Hosts : recon'[k] = recon[k] \/ recon'[k].pc = "idle"
    BY <1>2, Types DEF Crash, EffectsInv, ProcsTyped, RunTyped, Asleep, Recons, runVars
  <2>2. Around BY <1>2, <2>1, AroundStays DEF Crash, runVars
  <2> QED BY <1>2, <2>2, WorkerLeaves DEF Crash, untouched, runVars
<1>3. CASE Request(h)
  <2>1. up' \in [Hosts -> BOOLEAN] BY <1>3, Types DEF Request, EffectsInv, ProcsTyped, procs
  <2> QED BY <1>3, <2>1, RequestStep DEF Request, untouched, runVars, procs
<1> QED BY <1>1, <1>2, <1>3

\* A new generation: every worker there is has become stale.
LEMMA NewGeneration ==
  ASSUME EffectsInv, gen' = gen + 1,
         UNCHANGED <<pos, intents, outcome, replay, github, plan, world>>,
         RunTyped', ProcsTyped', Control', Intents', Owners', InHand',
         \A k \in Hosts : worker'[k] = worker[k] \/ worker'[k].pc \in {"idle", "running"}
  PROVE  EffectsInv'
<1> USE DEF EffectsInv, world
<1>1. TypeOK'
  <2>1. LedgerTyped' /\ WorldTyped' BY Types DEF LedgerTyped, WorldTyped
  <2> QED BY <2>1, TypesNext
<1>2. Current' BY CurrentAnew
<1>3. AdvancedMeansApplied' BY DEF AdvancedMeansApplied
<1>4. Undisturbed'
  <2> SUFFICES ASSUME NEW p \in 1 .. Stages, ~overtaken[p] PROVE Once(p)' BY DEF Undisturbed
  <2>1. Once(p) BY DEF Undisturbed
  <2>2. \A k \in Hosts : Authority(k, p)' => Authority(k, p) BY DEF Authority
  <2>3. MayLand(p)' => MayLand(p) BY <2>2 DEF MayLand, Authority
  <2>4. Unresolved(p)' <=> Unresolved(p) BY DEF Unresolved
  <2>5. \A k \in Hosts : worker'[k].pc = "begin" => worker'[k].gen # gen'
    BY Types DEF Owners, RunTyped
  <2> QED BY <2>1, <2>2, <2>3, <2>4, <2>5 DEF Once
<1> QED BY <1>1, <1>2, <1>3, <1>4

\* A claim takes a generation nobody has had.
LEMMA ClaimStep ==
  ASSUME EffectsInv, NEW h \in Hosts, Claim(h)
  PROVE  EffectsInv'
<1> USE DEF EffectsInv
<1> DEFINE fresh == [Idle EXCEPT !.pc = "running", !.gen = gen + 1]
<1>1. gen + 1 \in Nat /\ <<0, 0>> \in (0 .. Stages) \X Nat
  BY Types, AsfEffectsAssumption DEF RunTyped
<1>2. fresh \in Workers /\ fresh.pc = "running" /\ fresh.gen = gen + 1
  BY <1>1 DEF Workers, Idle, Pcs
<1>3. /\ worker' = [worker EXCEPT ![h] = fresh] /\ gen' = gen + 1 /\ owned' = TRUE
      /\ UNCHANGED <<phase, pos, version, resume, flag, cancel, block, result, started,
                     ledger, plan, op, recon, up, crashes, world>>
  BY DEF Claim
<1> HIDE DEF fresh
<1>4. worker' \in [Hosts -> Workers] /\ Alone(h) /\ worker'[h] = fresh
  BY <1>2, <1>3, Typed DEF Alone
<1>5. RunTyped' /\ ProcsTyped'
  BY <1>1, <1>3, <1>4, Types DEF RunTyped, ProcsTyped
<1>6. Control' /\ Intents'
  BY <1>3, ControlStays, IntentsStay DEF Control, Pending, OpenIntents, OpenGitHub, ledger, Active
<1>7. Owners'
  BY <1>2, <1>3, <1>4, <1>5, Types DEF Owners, Alone, RunTyped, ProcsTyped, Workers, Recons
<1>8. InHand'
  <2>1. Hand(h)' BY <1>2, <1>4 DEF Hand, InStage
  <2> QED BY <1>3, <1>4, <2>1, InHandStays DEF Grows, ledger, world
<1> QED BY <1>2, <1>3, <1>4, <1>5, <1>6, <1>7, <1>8, NewGeneration DEF ledger, Alone

\* A worker that lost its fence, or is done, lets go.
LEMMA ReleaseStep ==
  ASSUME EffectsInv, NEW h \in Hosts, Release(h) \/ RetryPlan(h)
  PROVE  EffectsInv'
<1>1. owned' \in BOOLEAN BY Types DEF Release, RetryPlan, EffectsInv, RunTyped, Fence
<1>2. Around
  BY <1>1, Types, AroundStays DEF Release, RetryPlan, EffectsInv, ProcsTyped
<1> QED BY <1>2, WorkerLeaves DEF Release, RetryPlan, Leave, untouched
-----------------------------------------------------------------------------
(* The stages. *)

\* The first decision of a run, and a refusal before a stage.
LEMMA SimpleSteps ==
  ASSUME EffectsInv, NEW h \in Hosts, Resume(h) \/ Fail(h)
  PROVE  EffectsInv'
<1>1. CASE Resume(h)
  <2>1. PICK pc \in {"planned", "sealed", "done", "cancelling"} :
          /\ Go(h, pc) /\ (pc = "sealed" => plan.status = "sealed")
          /\ pc = "cancelling" => phase = "CANCELLING"
    BY <1>1 DEF Resume, FinishPlan, PlanSealed
  <2> QED BY <1>1, <2>1, WorkerGoes DEF Resume, untouched, runVars, Pcs, InStage
<1>2. CASE Fail(h)
  BY <1>2, WorkerGoes DEF Fail, untouched, runVars, Pcs, InStage
<1> QED BY <1>1, <1>2

\* A controller outside GitHub goes on with its stage, or answers.
LEMMA InvokeSteps ==
  ASSUME EffectsInv, NEW h \in Hosts, Invoke(h) \/ Reply(h)
  PROVE  EffectsInv'
<1> USE DEF EffectsInv
<1> DEFINE p == worker[h].key[1]
<1>1. /\ worker[h].pc \in InStage /\ p \notin GitHub /\ worker[h].pc # "idle"
      /\ UNCHANGED <<untouched, flag, op, recon, owned, up, crashes>>
  BY DEF Invoke, Reply, InStage, untouched, runVars
<1>2. worker[h].gen = gen => phase = "DELIVERING" /\ plan.status = "none" /\ p = pos
  BY <1>1 DEF Current, Knows, Delivers
<1>3. worker[h].key \in intents
  BY <1>1 DEF InHand, Hand
<1>4. CASE Go(h, "failing")
  BY <1>1, <1>2, <1>4, WorkerGoes DEF Pcs, InStage
<1>5. CASE \/ Go(h, "confirm") /\ applied[p] > 0
           \/ Go(h, "begun") /\ worker[h].pc = "invoke" /\ worker[h].apply
  <2>1. PICK pc \in {"confirm", "begun"} :
          /\ Go(h, pc) /\ (pc = "confirm" => applied[p] > 0)
          /\ pc = "begun" => worker[h].pc = "invoke" /\ worker[h].apply
    BY <1>5
  <2>2. Moved(h, pc) BY <2>1, GoMoves, Typed DEF Pcs
  <2>3. pc \in InStage BY DEF InStage
  <2>4. Hand(h)' BY <1>1, <1>3, <2>1, <2>2, <2>3 DEF Hand, Moved, untouched, ledger, world
  <2>5. worker'[h].gen = gen => Knows(h)'
    BY <1>1, <1>2, <2>2, <2>3 DEF Knows, Moved, untouched
  <2>6. \A q \in 1 .. Stages : Authority(h, q)' => Authority(h, q)
    BY <1>1, <2>1, <2>2, <2>3 DEF Authority, Moved
  <2>7. Around BY <1>1, Types, AroundStays DEF RunTyped, ProcsTyped
  <2> QED BY <1>1, <2>1, <2>2, <2>4, <2>5, <2>6, <2>7, Quiet DEF Moved
<1> QED BY <1>4, <1>5 DEF Invoke, Reply

\* A step of the owner within its stage: what is left to show of it.
LEMMA OwnerStep ==
  ASSUME EffectsInv, NEW h \in Hosts, worker[h].gen = gen, worker[h].pc # "idle",
         plan.status = "none", worker' \in [Hosts -> Workers], Alone(h),
         worker'[h].gen = worker[h].gen,
         UNCHANGED <<phase, pos, version, gen, owned, resume, cancel, block, result, started,
                     plan, op, recon, up, crashes, inflight, applied>>,
         flag' \in BOOLEAN, intents \subseteq intents', LedgerTyped', WorldTyped',
         Hand(h)', Knows(h)', Intents',
         \A p \in 1 .. Stages : ~overtaken'[p] => Once(p)'
  PROVE  EffectsInv'
<1> USE DEF EffectsInv
<1>1. TypeOK'
  <2>1. RunTyped' /\ ProcsTyped' BY Types DEF RunTyped, ProcsTyped
  <2> QED BY <2>1, TypesNext
<1>2. Owners' BY OwnersStay
<1>3. InHand' BY InHandStays DEF Grows
<1>4. Current' BY CurrentStays
<1>5. Control' BY ControlStays
<1>6. AdvancedMeansApplied' BY DEF AdvancedMeansApplied
<1>7. Undisturbed' BY DEF Undisturbed
<1> QED BY <1>1, <1>2, <1>3, <1>4, <1>5, <1>6, <1>7

\* An intent is confirmed only for a stage that is applied.
LEMMA ConfirmStep ==
  ASSUME EffectsInv, NEW h \in Hosts, Confirm(h)
  PROVE  EffectsInv'
<1> USE DEF EffectsInv
<1> DEFINE k == worker[h].key
<1>1. /\ worker[h].pc = "confirm" /\ worker[h].gen = gen /\ phase = "DELIVERING"
      /\ UNCHANGED <<runVars, intents, github, plan, op, recon, up, crashes, world>>
  BY DEF Confirm, Fence
<1>2. k \in intents /\ k[1] \in 1 .. Stages /\ applied[k[1]] > 0 /\ k[1] = pos /\ plan.status = "none"
  BY <1>1 DEF InHand, Hand, Current, Knows, Delivers, InStage, TypeOK, Keys
<1>3. CASE UNCHANGED <<outcome, replay>> /\ Go(h, "advance")
  BY <1>1, <1>2, <1>3, WorkerGoes DEF untouched, runVars, ledger, Pcs, InStage
<1>4. CASE UNCHANGED <<outcome, replay>> /\ Go(h, "failing")
  BY <1>1, <1>2, <1>4, WorkerGoes DEF untouched, runVars, ledger, Pcs, InStage
<1>5. CASE /\ outcome[k] = "pending" /\ ResolveIntents([j \in {k} |-> "confirmed"])
           /\ Go(h, "advance")
  <2>1. /\ outcome' = [j \in intents |-> IF j = k THEN "confirmed" ELSE outcome[j]]
        /\ replay' = [j \in intents |-> IF j = k THEN 0 ELSE replay[j]]
    BY <1>5 DEF ResolveIntents
  <2>2. Moved(h, "advance") BY <1>5, GoMoves, Typed DEF Pcs
  <2>3. LedgerTyped' /\ WorldTyped'
    BY <1>1, <2>1, Types DEF LedgerTyped, Outcomes, WorldTyped, world
  <2>4. Hand(h)' BY <2>2 DEF Hand, Moved, InStage
  <2>5. Knows(h)' BY <1>1, <1>2, <2>2 DEF Knows, Moved, InStage, runVars, world
  <2>6. Intents' BY <1>1, IntentsStay DEF runVars
  <2>7. ASSUME NEW p \in 1 .. Stages, ~overtaken'[p] PROVE Once(p)'
    <3>1. Once(p) BY <1>1, <2>7 DEF Undisturbed, world
    <3>2. \A g \in Hosts : Authority(g, p)' => Authority(g, p)
      BY <2>2 DEF Authority, Moved, Alone
    <3>3. MayLand(p)' => MayLand(p) BY <1>1, <3>2 DEF MayLand, Authority, world
    <3>4. \A g \in Hosts : worker'[g].pc = "begin" => worker'[g] = worker[g]
      BY <2>2 DEF Moved, Alone
    <3>5. CASE p = pos
      <4>1. applied[p] > 0 /\ applied[p] \in Nat /\ inflight[p] \in Nat
        BY <1>2, <3>5 DEF TypeOK
      <4>2. ~MayLand(p) BY <3>1, <4>1 DEF Once, MayLand, Authority
      <4>3. p \notin GitHub => ~\A j \in intents' : j[1] = p => outcome'[j] = "not_applied"
        BY <1>1, <1>2, <2>1, <3>5
      <4> QED BY <1>1, <3>1, <3>2, <3>3, <3>4, <4>2, <4>3 DEF Once, world, runVars
    <3>6. CASE p # pos
      <4>1. \A j \in intents : j[1] = p => outcome'[j] = outcome[j] BY <1>2, <2>1, <3>6
      <4>2. Unresolved(p) => Unresolved(p)' BY <1>1, <4>1 DEF Unresolved
      <4> QED BY <1>1, <3>1, <3>2, <3>3, <3>4, <4>1, <4>2 DEF Once, world, runVars
    <3> QED BY <3>5, <3>6
  <2>8. flag' \in BOOLEAN BY <1>1, Types DEF RunTyped, runVars
  <2> QED BY <1>1, <1>2, <2>2, <2>3, <2>4, <2>5, <2>6, <2>7, <2>8, OwnerStep
          DEF Moved, runVars, world
<1> QED BY <1>3, <1>4, <1>5 DEF Confirm

\* The answers of the store: a new row only for the event itself, authority
\* again only for a row that was found not applied.
LEMMA DispositionMeans ==
  ASSUME NEW k
  PROVE  /\ Disposition(k) \in {"created", "existing", "replay", "refused"}
         /\ Disposition(k) = "created" => k \notin intents /\ result.cursor = 0
         /\ Disposition(k) \in {"existing", "replay"} => k \in intents
         /\ Disposition(k) = "replay" => outcome[k] = "not_applied"
BY DEF Disposition, Authorized, Replay

\* Authority to apply is given only when no request for the stage is to come.
LEMMA RecordIntentStep ==
  ASSUME EffectsInv, NEW h \in Hosts, RecordIntent(h)
  PROVE  EffectsInv'
<1> USE DEF EffectsInv
<1> DEFINE k == <<pos, Cursor>>
           d == Disposition(k)
<1>1. /\ worker[h].pc = "running" /\ worker[h].gen = gen /\ phase = "DELIVERING"
      /\ plan.status = "none" /\ pos \in 1 .. Stages
      /\ UNCHANGED <<runVars, github, plan, op, recon, up, crashes, world>>
  BY Types DEF RecordIntent, Fence, RunTyped
<1>2. CASE d = "refused"
  <2>1. Go(h, "failing") /\ UNCHANGED <<intents, outcome, replay>>
    BY <1>2 DEF RecordIntent
  <2> QED BY <1>1, <2>1, WorkerGoes DEF untouched, runVars, ledger, Pcs, InStage
<1>3. CASE d # "refused"
  <2>1. /\ d \in {"created", "existing", "replay"}
        /\ d = "created" => k \notin intents /\ result.cursor = 0
        /\ d \in {"existing", "replay"} => k \in intents
        /\ d = "replay" => outcome[k] = "not_applied"
    BY <1>3, DispositionMeans
  <2>2. /\ worker' = [worker EXCEPT ![h].pc = "invoke", ![h].key = k,
                                    ![h].apply = d \in {"created", "replay"}]
        /\ IntentRow(k, d)
    BY <1>3 DEF RecordIntent
  <2>3. k \in Keys /\ k[1] = pos /\ k[2] > 0 /\ (d = "created" => k[2] = version)
    BY <1>1, <2>1, Types DEF RunTyped, Keys, Cursor, Control
  <2> HIDE DEF k, d
  <2>4. /\ worker' \in [Hosts -> Workers] /\ Alone(h)
        /\ worker'[h].pc = "invoke" /\ worker'[h].gen = gen /\ worker'[h].key = k
        /\ worker'[h].apply = (d \in {"created", "replay"})
    <3> DEFINE b == d \in {"created", "replay"}
    <3>0. /\ b \in BOOLEAN /\ b = (d \in {"created", "replay"})
          /\ worker' = [worker EXCEPT ![h].pc = "invoke", ![h].key = k, ![h].apply = b]
      BY <2>2
    <3> HIDE DEF b
    <3> DEFINE w == [worker[h] EXCEPT !.pc = "invoke", !.key = k, !.apply = b]
    <3>1. worker \in [Hosts -> Workers] /\ worker[h] \in Workers BY Typed
    <3>2. k \in (0 .. Stages) \X Nat BY <2>3 DEF Keys
    <3>3. /\ w \in Workers /\ w.pc = "invoke" /\ w.gen = worker[h].gen /\ w.key = k
          /\ w.apply = b
      BY <3>0, <3>1, <3>2 DEF Workers, Pcs
    <3>4. worker' = [worker EXCEPT ![h] = w] BY <3>0, <3>1
    <3> HIDE DEF w
    <3> QED BY <1>1, <3>0, <3>1, <3>3, <3>4 DEF Alone
  <2>5. /\ intents' = intents \cup {k}
        /\ d = "existing" => UNCHANGED <<intents, outcome, replay>>
        /\ d # "existing" => /\ outcome' = Extend(outcome, k, "pending")
                             /\ replay' = Extend(replay, k, IF d = "replay" THEN version ELSE 0)
    BY <2>1, <2>2 DEF IntentRow
  <2>6. d # "existing" => /\ outcome' \in [intents' -> Outcomes] /\ replay' \in [intents' -> Nat]
                          /\ outcome'[k] = "pending"
                          /\ \A j \in intents : j # k => outcome'[j] = outcome[j]
    BY <2>5, Types DEF LedgerTyped, RunTyped, Extend, Outcomes
  <2>7. LedgerTyped' /\ WorldTyped'
    BY <1>1, <2>3, <2>5, <2>6, Types DEF LedgerTyped, WorldTyped, world
  <2>8. Hand(h)' BY <2>4, <2>5 DEF Hand, InStage
  <2>9. Knows(h)' BY <1>1, <2>3, <2>4 DEF Knows, Delivers, InStage, runVars
  <2>10. \A j \in intents : d = "created" => j[1] # pos
    <3> SUFFICES ASSUME NEW j \in intents, d = "created", j[1] = pos PROVE FALSE OBVIOUS
    <3>1. j \in Keys /\ j[2] = version BY <1>1, <2>1, Types DEF LedgerTyped, Intents
    <3>2. j = k BY <2>3, <3>1 DEF Keys
    <3> QED BY <2>1, <3>2
  <2>11. Intents'
    <3>1. \A j \in intents' : j[1] <= pos /\ j[2] > 0
      BY <1>1, <2>3, <2>5 DEF Intents
    <3>2. \A i, j \in intents' : i[1] = j[1] => i = j
      BY <2>1, <2>3, <2>5, <2>10 DEF Intents
    <3>3. result.cursor = 0 => \A j \in intents' : j[1] = pos => j[2] = version
      BY <1>1, <2>1, <2>3, <2>5 DEF Intents
    <3> QED BY <1>1, <3>1, <3>2, <3>3 DEF Intents, runVars
  <2>12. ASSUME NEW p \in 1 .. Stages, ~overtaken'[p] PROVE Once(p)'
    <3>1. Once(p) BY <1>1, <2>12 DEF Undisturbed, world
    <3>2. \A g \in Hosts : worker'[g].pc = "begin" => worker'[g] = worker[g]
      BY <2>4 DEF Alone
    <3>3. applied[p] \in Nat /\ inflight[p] \in Nat BY Types DEF WorldTyped
    <3>4. CASE p = pos /\ p \notin GitHub /\ d # "existing"
      <4>1. \A j \in intents : j[1] = p => outcome[j] = "not_applied"
        BY <2>1, <2>3, <2>10, <3>4 DEF Intents
      <4>2. applied[p] = 0 /\ ~MayLand(p) BY <3>1, <3>4, <4>1 DEF Once, Unresolved
      <4>3. inflight[p] = 0 /\ \A g \in Hosts : ~Authority(g, p)
        BY <3>3, <4>2 DEF MayLand, Authority
      <4>4. \A g \in Hosts : Authority(g, p)' => g = h
        BY <2>4, <4>3 DEF Authority, Alone
      <4>5. Unresolved(p)' /\ ~\A j \in intents' : j[1] = p => outcome'[j] = "not_applied"
        BY <2>3, <2>5, <2>6, <3>4 DEF Unresolved
      <4>6. \A g \in Hosts : worker'[g].pc = "begin" /\ worker'[g].gen = gen' => FALSE
        BY <1>1, <2>4, <3>2 DEF Owners, runVars, Alone
      <4> QED BY <1>1, <4>2, <4>3, <4>4, <4>5, <4>6 DEF Once, world
    <3>5. CASE ~(p = pos /\ p \notin GitHub /\ d # "existing")
      <4>1. \A g \in Hosts : Authority(g, p)' => Authority(g, p)
        BY <2>1, <2>3, <2>4, <3>5 DEF Authority, Alone
      <4>2. MayLand(p)' => MayLand(p) BY <1>1, <4>1 DEF MayLand, Authority, world
      <4>3. p \notin GitHub => \A j \in intents : j[1] = p => outcome'[j] = outcome[j]
        BY <2>3, <2>5, <2>6, <3>5
      <4>4. p \notin GitHub => \A j \in intents' : j[1] = p => j \in intents
        BY <2>1, <2>3, <2>5, <3>5
      <4>5. Unresolved(p) => Unresolved(p)' BY <1>1, <2>5, <4>3 DEF Unresolved
      <4> QED BY <1>1, <2>5, <3>1, <3>2, <4>1, <4>2, <4>3, <4>4, <4>5 DEF Once, world, runVars
    <3> QED BY <3>4, <3>5
  <2>13. flag' \in BOOLEAN BY <1>1, Types DEF RunTyped, runVars
  <2> QED BY <1>1, <2>4, <2>5, <2>7, <2>8, <2>9, <2>11, <2>12, <2>13, OwnerStep DEF runVars, world
<1> QED BY <1>2, <1>3
-----------------------------------------------------------------------------
(* The GitHub effects controller. *)

\* A GitHub effect is intended before it is looked for.
LEMMA IntendStep ==
  ASSUME EffectsInv, NEW h \in Hosts, Intend(h)
  PROVE  EffectsInv'
<1> USE DEF EffectsInv
<1> DEFINE p == worker[h].key[1]
<1>1. /\ worker[h].pc = "invoke" /\ p \in GitHub /\ worker[h].gen = gen
      /\ phase = "DELIVERING" /\ plan.status = "none" /\ Go(h, "observe")
      /\ github' = IF github[p] = "none" THEN [github EXCEPT ![p] = "intended"] ELSE github
      /\ UNCHANGED <<runVars, intents, outcome, replay, plan, op, recon, up, crashes, world>>
  BY DEF Intend, Fence
<1>2. worker[h].key \in intents /\ p = pos
  BY <1>1 DEF InHand, Hand, Current, Knows, InStage
<1> HIDE DEF p
<1>3. Moved(h, "observe") BY <1>1, GoMoves, Typed DEF Pcs
<1>4. LedgerTyped' /\ WorldTyped'
  BY <1>1, Types DEF LedgerTyped, WorldTyped, Open, world
<1>5. Hand(h)' /\ Knows(h)'
  BY <1>1, <1>2, <1>3 DEF p, Hand, Knows, Moved, InStage, runVars
<1>6. Intents' /\ flag' \in BOOLEAN BY <1>1, IntentsStay, Types DEF RunTyped, runVars
<1>7. ASSUME NEW q \in 1 .. Stages, ~overtaken'[q] PROVE Once(q)'
  <2>1. Once(q) BY <1>1, <1>7 DEF Undisturbed, world
  <2>2. \A k \in Hosts : Authority(k, q)' => Authority(k, q)
    BY <1>3 DEF Authority, Moved, Alone
  <2>3. Unresolved(q) => Unresolved(q)'
    BY <1>1, Types DEF Unresolved, Open, LedgerTyped
  <2>4. \A k \in Hosts : worker'[k].pc = "begin" =>
           worker[k].pc = "begin" /\ worker'[k].gen = worker[k].gen /\ worker'[k].key = worker[k].key
    BY <1>3 DEF Moved, Alone
  <2> QED BY <1>1, <2>1, <2>2, <2>3, <2>4, OnceStays DEF runVars, world
<1> QED BY <1>1, <1>3, <1>4, <1>5, <1>6, <1>7, OwnerStep DEF Moved, runVars, world

\* An observation decides about a stage only when no request for it is to come,
\* unless it overtakes one.
LEMMA ObserveStep ==
  ASSUME EffectsInv, NEW h \in Hosts, Observe(h)
  PROVE  EffectsInv'
<1> USE DEF EffectsInv
<1> DEFINE p == worker[h].key[1]
<1>1. PICK o \in Observed(p) :
        /\ RecordObservations([q \in {p} |-> o])
        /\ Go(h, CASE o = "confirmed" -> "confirm"
                   [] o = "not_applied" /\ worker[h].pc = "observe" -> "begin"
                   [] OTHER -> "failing")
        /\ Overtake(IF o = "not_applied" THEN {p} ELSE {})
  BY DEF Observe
<1>2. /\ worker[h].pc \in {"observe", "sent"} /\ worker[h].gen = gen
      /\ UNCHANGED <<phase, pos, version, gen, owned, resume, cancel, block, result, started,
                     intents, outcome, replay, plan, op, recon, up, crashes, inflight, applied>>
  BY DEF Observe, Fence
<1>3. p \in GitHub BY DEF Observe, InHand, Hand
<1>4. /\ worker[h].key \in intents /\ p = pos /\ p \in 1 .. Stages
      /\ phase = "DELIVERING" /\ plan.status = "none"
  BY <1>2, <1>3, AsfEffectsAssumption DEF InHand, Hand, Current, Knows, InStage, Delivers
<1>5. /\ o \in {"confirmed", "not_applied", "ambiguous"}
      /\ o = "confirmed" => applied[p] > 0
      /\ o = "not_applied" => ~(applied[p] > 0)
  BY DEF Observed
<1>6. PICK pc \in {"confirm", "begin", "failing"} :
        /\ Go(h, pc) /\ (pc = "confirm" => o = "confirmed") /\ (pc = "begin" => o = "not_applied")
  BY <1>1, <1>5
<1>7. /\ github' = [q \in GitHub |-> IF q = p THEN o ELSE github[q]]
      /\ flag' \in BOOLEAN
  BY <1>1, Types DEF RecordObservations, RunTyped
<1>8. /\ overtaken' \in [1 .. Stages -> BOOLEAN]
      /\ \A q \in 1 .. Stages : ~overtaken'[q] => ~overtaken[q]
      /\ o = "not_applied" /\ ~overtaken'[p] => ~MayLand(p)
  BY <1>1, <1>4, Types DEF Overtake, WorldTyped
<1> HIDE DEF p
<1>9. Moved(h, pc) BY <1>6, GoMoves, Typed DEF Pcs
<1>10. LedgerTyped' /\ WorldTyped'
  BY <1>2, <1>5, <1>7, <1>8, Types DEF LedgerTyped, WorldTyped, Open
<1>11. Hand(h)' /\ Knows(h)'
  BY <1>2, <1>3, <1>4, <1>5, <1>6, <1>9 DEF p, Hand, Knows, Moved, InStage
<1>12. Intents' BY <1>2, IntentsStay
<1>13. ASSUME NEW q \in 1 .. Stages, ~overtaken'[q] PROVE Once(q)'
  <2>1. Once(q) BY <1>8, <1>13 DEF Undisturbed
  <2>2. applied[q] \in Nat /\ inflight[q] \in Nat BY Types DEF WorldTyped
  <2>3. \A k \in Hosts : Authority(k, q)' => Authority(k, q)
    BY <1>9 DEF Authority, Moved, Alone, InStage
  <2>4. MayLand(q)' => MayLand(q) BY <1>2, <2>3 DEF MayLand, Authority
  <2>5. \A k \in Hosts : worker'[k].pc = "begin" => k = h \/ worker'[k] = worker[k]
    BY <1>9 DEF Moved, Alone
  <2>6. CASE q # p
    <3>1. Unresolved(q) => Unresolved(q)' BY <1>2, <1>7, <2>6 DEF Unresolved
    <3>2. worker'[h].pc = "begin" => worker'[h].key[1] # q
      BY <1>9, <2>6 DEF p, Moved, InStage
    <3> QED BY <1>2, <2>1, <2>3, <2>4, <2>5, <3>1, <3>2 DEF Once
  <2>7. CASE q = p /\ o = "confirmed"
    <3>1. ~MayLand(q) BY <1>5, <2>1, <2>2, <2>7 DEF Once, MayLand, Authority
    <3>2. worker'[h].pc # "begin" BY <1>6, <1>9, <2>7 DEF Moved
    <3> QED BY <1>2, <1>3, <2>1, <2>3, <2>4, <2>5, <2>7, <3>1, <3>2 DEF Once
  <2>8. CASE q = p /\ o = "not_applied"
    <3>1. ~MayLand(q) /\ applied[q] = 0 BY <1>5, <1>8, <1>13, <2>2, <2>8
    <3> QED BY <1>2, <1>3, <2>1, <2>3, <2>4, <2>8, <3>1 DEF Once
  <2>9. CASE q = p /\ o = "ambiguous"
    <3>1. Unresolved(q)' BY <1>3, <1>7, <2>9 DEF Unresolved, Open
    <3>2. worker'[h].pc # "begin" BY <1>6, <1>9, <2>9 DEF Moved
    <3> QED BY <1>2, <1>3, <2>1, <2>3, <2>4, <2>5, <2>9, <3>1, <3>2 DEF Once
  <2> QED BY <1>5, <2>6, <2>7, <2>8, <2>9
<1> QED BY <1>2, <1>4, <1>7, <1>9, <1>10, <1>11, <1>12, <1>13, OwnerStep DEF Moved

\* An effect begins only when it was found absent by the same owner.
LEMMA BeginStep ==
  ASSUME EffectsInv, NEW h \in Hosts, Begin(h)
  PROVE  EffectsInv'
<1> USE DEF EffectsInv
<1> DEFINE p == worker[h].key[1]
<1>1. /\ worker[h].pc = "begin" /\ worker[h].gen = gen
      /\ phase = "DELIVERING" /\ plan.status = "none"
      /\ UNCHANGED <<runVars, intents, outcome, replay, plan, op, recon, up, crashes, world>>
  BY DEF Begin, Fence
<1>2. worker[h].key \in intents /\ p \in GitHub /\ p = pos
  BY <1>1 DEF InHand, Hand, Current, Knows, InStage
<1>3. CASE UNCHANGED github /\ Go(h, "failing")
  BY <1>1, <1>3, WorkerGoes DEF untouched, runVars, ledger, Pcs, InStage
<1>4. CASE github' = [github EXCEPT ![p] = "in_flight"] /\ Go(h, "begun")
  <2> HIDE DEF p
  <2>1. Moved(h, "begun") BY <1>4, GoMoves, Typed DEF Pcs
  <2>2. LedgerTyped' /\ WorldTyped'
    BY <1>1, <1>4, Types DEF LedgerTyped, WorldTyped, Open, world
  <2>3. Hand(h)' /\ Knows(h)'
    BY <1>1, <1>2, <2>1 DEF p, Hand, Knows, Moved, InStage, runVars
  <2>4. Intents' /\ flag' \in BOOLEAN BY <1>1, IntentsStay, Types DEF RunTyped, runVars
  <2>5. ASSUME NEW q \in 1 .. Stages, ~overtaken'[q] PROVE Once(q)'
    <3>1. Once(q) BY <1>1, <2>5 DEF Undisturbed, world
    <3>2. \A k \in Hosts : k # h => (Authority(k, q)' <=> Authority(k, q))
      BY <2>1 DEF Authority, Moved, Alone
    <3>3. \A k \in Hosts : ~(worker'[k].pc = "begin" /\ worker'[k].gen = gen)
      BY <1>1, <2>1 DEF Moved, Alone, Owners
    <3>4. CASE q = p
      <4>1. applied[q] = 0 /\ ~MayLand(q) BY <1>1, <3>1, <3>4 DEF p, Once
      <4>2. inflight[q] = 0 /\ \A k \in Hosts : ~Authority(k, q)
        BY <4>1, Types DEF MayLand, Authority, WorldTyped
      <4>3. Unresolved(q)' BY <1>2, <1>4, <3>4, Types DEF Unresolved, Open, LedgerTyped
      <4> QED BY <1>1, <1>2, <3>2, <3>3, <3>4, <4>1, <4>2, <4>3 DEF Once, world, runVars
    <3>5. CASE q # p
      <4>1. ~Authority(h, q)' BY <2>1, <3>5 DEF p, Authority, Moved, InStage
      <4>2. MayLand(q)' => MayLand(q) BY <1>1, <3>2, <4>1 DEF MayLand, Authority, world
      <4>3. Unresolved(q) => Unresolved(q)'
        BY <1>1, <1>2, <1>4, <3>5, Types DEF Unresolved, LedgerTyped
      <4> QED BY <1>1, <3>1, <3>2, <3>3, <4>1, <4>2, <4>3 DEF Once, world, runVars
    <3> QED BY <3>4, <3>5
  <2> QED BY <1>1, <2>1, <2>2, <2>3, <2>4, <2>5, OwnerStep DEF Moved, runVars, world
<1> QED BY <1>3, <1>4 DEF Begin

\* The request of a worker that has lost its fence leaves all the same: it is
\* the one that the ledgers wait for.
LEMMA SendStep ==
  ASSUME EffectsInv, NEW h \in Hosts, Send(h)
  PROVE  EffectsInv'
<1> USE DEF EffectsInv
<1> DEFINE p == worker[h].key[1]
<1>1. /\ worker[h].pc = "begun" /\ inflight' = [inflight EXCEPT ![p] = @ + 1] /\ Go(h, "sent")
      /\ UNCHANGED <<runVars, ledger, plan, op, recon, up, crashes, applied, overtaken>>
  BY DEF Send
<1>2. worker[h].key \in intents /\ p \in 1 .. Stages
  BY <1>1, Types DEF InHand, Hand, InStage, LedgerTyped, Keys
<1>3. Moved(h, "sent") BY <1>1, GoMoves, Typed DEF Pcs
<1>4. worker'[h].key = worker[h].key BY <1>3 DEF Moved, InStage
<1>5. inflight' \in [1 .. Stages -> Nat] /\ inflight'[p] = inflight[p] + 1
      /\ \A q \in 1 .. Stages : q # p => inflight'[q] = inflight[q]
  BY <1>1, <1>2, Types DEF WorldTyped
<1> HIDE DEF p
<1>6. TypeOK'
  <2>1. RunTyped' /\ LedgerTyped' /\ ProcsTyped' /\ WorldTyped'
    BY <1>1, <1>3, <1>5, Types DEF RunTyped, LedgerTyped, ProcsTyped, WorldTyped, Moved, runVars, ledger
  <2> QED BY <2>1, TypesNext
<1>7. Owners' BY <1>1, <1>3, OwnersStay DEF Moved, runVars
<1>8. InHand'
  <2>1. Hand(h)' BY <1>1, <1>2, <1>3, <1>4 DEF Hand, Moved, InStage, ledger
  <2> QED BY <1>1, <1>3, <2>1, InHandStays DEF Grows, Moved, ledger
<1>9. Current'
  <2>1. worker'[h].gen = gen => Knows(h)'
    BY <1>1, <1>3, <1>4 DEF Current, Knows, Moved, InStage, Delivers, runVars
  <2> QED BY <1>1, <1>3, <2>1, CurrentStays DEF Moved, runVars
<1>10. Control' BY <1>1, ControlStays DEF Control, Pending, OpenIntents, OpenGitHub, Active, runVars, ledger
<1>11. Intents' /\ AdvancedMeansApplied'
  BY <1>1, IntentsStay DEF runVars, ledger, AdvancedMeansApplied
<1>12. Undisturbed'
  <2> SUFFICES ASSUME NEW q \in 1 .. Stages, ~overtaken[q] PROVE Once(q)'
    BY <1>1 DEF Undisturbed
  <2>1. Once(q) BY DEF Undisturbed
  <2>2. \A k \in Hosts : Authority(k, q)' => k # h /\ Authority(k, q)
    BY <1>3 DEF Authority, Moved, Alone
  <2>3. \A k \in Hosts : worker'[k].pc = "begin" => worker'[k] = worker[k]
    BY <1>3 DEF Moved, Alone
  <2>4. Unresolved(q)' <=> Unresolved(q) BY <1>1 DEF Unresolved, ledger
  <2>5. CASE q = p
    <3>1. Authority(h, q) /\ MayLand(q) BY <1>1, <2>5 DEF p, Authority, MayLand
    <3>2. applied[q] = 0 /\ inflight[q] = 0 /\ \A k \in Hosts : ~Authority(k, q)'
      BY <2>1, <2>2, <3>1 DEF Once
    <3> QED BY <1>1, <1>5, <2>1, <2>3, <2>4, <2>5, <3>1, <3>2 DEF Once, runVars, ledger
  <2>6. CASE q # p
    <3>1. MayLand(q)' => MayLand(q) BY <1>5, <2>2, <2>6 DEF MayLand, Authority
    <3> QED BY <1>1, <1>5, <2>1, <2>2, <2>3, <2>4, <2>6, <3>1 DEF Once, runVars, ledger
  <2> QED BY <2>5, <2>6
<1> QED BY <1>6, <1>7, <1>8, <1>9, <1>10, <1>11, <1>12
-----------------------------------------------------------------------------
(* Events, the terminal plan, cancellation. *)

\* A step of the owner that is not in a stage after it, and sends nothing.
LEMMA EventStep ==
  ASSUME EffectsInv, NEW h \in Hosts, worker[h].gen = gen, worker[h].pc # "idle",
         NEW pc \in Pcs \ InStage, Go(h, pc), pc # "idle",
         UNCHANGED <<gen, intents, outcome, replay, github, op, recon, up, crashes, world>>,
         plan' \in [status : {"none", "open", "sealed"}, to : Terminal \cup {"none"}],
         plan.status = "sealed" => plan'.status = "sealed",
         RunTyped', Control', Intents', AdvancedMeansApplied',
         pc = "sealed" => plan'.status = "sealed",
         pc \notin {"advance", "failing"},
         pc = "cancelling" => phase' = "CANCELLING"
  PROVE  EffectsInv'
<1> USE DEF EffectsInv, world
<1>1. Moved(h, pc) BY GoMoves, Typed
<1>2. TypeOK'
  <2>1. LedgerTyped' /\ WorldTyped' BY Types DEF LedgerTyped, WorldTyped
  <2>2. ProcsTyped' BY <1>1, Types DEF ProcsTyped, Moved
  <2> QED BY <2>1, <2>2, TypesNext
<1>3. Owners' BY <1>1, OwnersStay DEF Moved
<1>4. InHand'
  <2>1. Hand(h)' BY <1>1 DEF Hand, Moved, InStage
  <2> QED BY <1>1, <2>1, InHandStays DEF Grows, Moved
<1>5. Current'
  <2>1. Knows(h)' BY <1>1 DEF Knows, Moved, Delivers
  <2> QED BY <1>1, <2>1, CurrentStays DEF Moved
<1>6. Undisturbed'
  <2> SUFFICES ASSUME NEW p \in 1 .. Stages, ~overtaken[p] PROVE Once(p)' BY DEF Undisturbed
  <2>1. Once(p) BY DEF Undisturbed
  <2>2. \A k \in Hosts : Authority(k, p)' => Authority(k, p)
    BY <1>1 DEF Moved, Alone, Authority, InStage
  <2>3. Unresolved(p) => Unresolved(p)' BY DEF Unresolved
  <2>4. \A k \in Hosts : worker'[k].pc = "begin" =>
           worker[k].pc = "begin" /\ worker'[k].gen = worker[k].gen /\ worker'[k].key = worker[k].key
    BY <1>1 DEF Moved, Alone, InStage
  <2> QED BY <2>1, <2>2, <2>3, <2>4, OnceStays
<1> QED BY <1>2, <1>3, <1>4, <1>5, <1>6

\* What an event without authority carries.
LEMMA Plain == NoBlock \in Blocks /\ ~NoBlock.on /\ NoResult.cursor = 0
               /\ NoResult \in [cursor : Nat, absent : SUBSET Keys]
BY DEF NoBlock, Blocks, Resumes, NoResult

\* The run moves on from a stage that is applied.
LEMMA AdvanceStep ==
  ASSUME EffectsInv, NEW h \in Hosts, Advance(h)
  PROVE  EffectsInv'
<1> USE DEF EffectsInv
<1>1. /\ worker[h].pc = "advance" /\ worker[h].gen = gen /\ Go(h, "running")
      /\ Event("DELIVERING", NoBlock, NoResult, FALSE) /\ pos' = pos + 1
      /\ UNCHANGED <<gen, owned, resume, flag, cancel, ledger, plan, op, recon, up, crashes, world>>
  BY DEF Advance, Fence, Go, InStage
<1>2. plan.status = "none" /\ pos \in 1 .. Stages /\ applied[pos] > 0
  BY <1>1, Types DEF Current, Knows, Delivers, RunTyped
<1>3. /\ phase' = "DELIVERING" /\ block' = NoBlock /\ result' = NoResult
      /\ version \in Nat /\ version' = version + 1 /\ started' = FALSE
  BY <1>1, Types DEF Event, RunTyped
<1>4. RunTyped'
  <2>1. pos' \in 1 .. Stages + 1 BY <1>1, <1>2, AsfEffectsAssumption
  <2>2. /\ phase' \in Phases /\ version' \in Nat /\ started' \in BOOLEAN
        /\ block' \in Blocks /\ result' \in [cursor : Nat, absent : SUBSET Keys]
    <3>1. started' \in BOOLEAN BY <1>3
    <3>2. phase' \in Phases BY <1>3 DEF Phases
    <3>3. version' \in Nat BY <1>3
    <3>4. block' \in Blocks BY <1>3, Plain
    <3>5. result' \in [cursor : Nat, absent : SUBSET Keys] BY <1>3, Plain
    <3> QED BY <3>1, <3>2, <3>3, <3>4, <3>5
  <2>3. UNCHANGED <<gen, owned, flag, resume, cancel>> BY <1>1
  <2> QED BY <2>1, <2>2, <2>3, Types DEF RunTyped
<1>5. Control' BY <1>1, <1>2, <1>3, Plain DEF Control, Terminal
<1>6. Intents'
  <2>1. \A k \in intents : k[1] \in 1 .. Stages /\ k[1] <= pos BY Types DEF LedgerTyped, Keys, Intents
  <2> QED BY <1>1, <1>2, <2>1 DEF Intents, ledger
<1>7. AdvancedMeansApplied' BY <1>1, <1>2 DEF AdvancedMeansApplied, world
<1> QED BY <1>1, <1>2, <1>4, <1>5, <1>6, <1>7, EventStep, Types DEF LedgerTyped, ledger, Pcs, InStage

\* The other events leave the position alone and leave DELIVERING.
LEMMA StopStep ==
  ASSUME EffectsInv, NEW h \in Hosts, worker[h].gen = gen, worker[h].pc # "idle",
         NEW pc \in {"done", "cancelling"}, Go(h, pc),
         NEW to \in Phases \ {"DELIVERING"}, NEW c \in Blocks, NEW b \in BOOLEAN,
         Event(to, c, NoResult, b),
         c.on => c.resume \in {"DELIVERING", "CANCELLING"} /\ c.cursor > 0,
         to = "BLOCKED_EXTERNAL" => resume' # "none",
         to \in Terminal => plan.status = "sealed",
         plan.status = "sealed" => ~flag',
         pc = "cancelling" => to = "CANCELLING",
         resume' \in Resumes, flag' \in BOOLEAN,
         UNCHANGED <<pos, gen, owned, cancel, ledger, plan, op, recon, up, crashes, world>>
  PROVE  EffectsInv'
<1> USE DEF EffectsInv
<1>1. /\ phase' = to /\ block' = c /\ result' = NoResult /\ started' = b
      /\ version \in Nat /\ version' = version + 1
  BY Types DEF Event, RunTyped
<1>2. RunTyped' BY <1>1, Plain, Types DEF RunTyped
<1>3. Control'
  BY <1>1 DEF Control, Pending, OpenIntents, OpenGitHub, Active, ledger
<1>4. Intents' BY <1>1 DEF Intents, ledger
<1>5. AdvancedMeansApplied' BY DEF AdvancedMeansApplied, world
<1> QED BY <1>1, <1>2, <1>3, <1>4, <1>5, EventStep, Types DEF LedgerTyped, ledger, Pcs, InStage

\* A pause, the terminal transition, the start of a cancellation.
LEMMA StopSteps ==
  ASSUME EffectsInv, NEW h \in Hosts, Pause(h) \/ Terminate(h) \/ CancelStart(h)
  PROVE  EffectsInv'
<1> USE DEF EffectsInv
<1>1. CASE Pause(h)
  <2>1. plan.status = "none" BY <1>1 DEF Pause, Fence, Current, Knows, Delivers, InStage
  <2>2. resume' \in Resumes /\ resume' # "none" /\ flag' \in BOOLEAN
    BY <1>1, Types DEF Pause, RunTyped, Resumes
  <2> QED BY <1>1, <2>1, <2>2, Plain, StopStep DEF Pause, Fence, Phases, Terminal
<1>2. CASE Terminate(h)
  <2>1. plan.status = "sealed" /\ plan.to \in Terminal
    BY <1>2 DEF Terminate, InHand, Hand, Control
  <2>2. resume' \in Resumes /\ flag' \in BOOLEAN /\ ~flag'
    BY <1>2, <2>1, Types DEF Terminate, RunTyped, Control
  <2>3. plan.to \in Phases \ {"DELIVERING"} /\ plan.to # "BLOCKED_EXTERNAL"
    BY <2>1 DEF Phases, Terminal
  <2> QED BY <1>2, <2>1, <2>2, <2>3, Plain, StopStep DEF Terminate, Fence
<1>3. CASE CancelStart(h)
  <2>1. resume' \in Resumes /\ flag' \in BOOLEAN BY <1>3, Types DEF CancelStart, RunTyped
  <2> QED BY <1>3, <2>1, Plain, StopStep DEF CancelStart, Fence, Phases, Terminal
<1> QED BY <1>1, <1>2, <1>3

\* A continuation names the phase the run is in and an event on record.
LEMMA ContinuationMeans ==
  ASSUME EffectsInv, phase \in {"DELIVERING", "CANCELLING"}
  PROVE  /\ Continuation \in Blocks
         /\ Continuation.on => /\ Continuation.resume \in {"DELIVERING", "CANCELLING"}
                               /\ Continuation.cursor > 0
<1> USE DEF EffectsInv
<1>1. version \in Nat /\ version > 0 BY Types DEF RunTyped, Control
<1>2. Pending \in SUBSET Effects BY PendingType
<1>3. CASE Pending = {} BY <1>3, Plain DEF Continuation
<1>4. CASE Pending # {} /\ phase = "CANCELLING" /\ started
  BY <1>1, <1>2, <1>4 DEF Continuation, Blocks, Resumes
<1>5. CASE Pending # {} /\ ~(phase = "CANCELLING" /\ started) /\ Cardinality(OpenCursors) = 1
  <2> DEFINE c == CHOOSE c \in OpenCursors : TRUE
  <2>1. OpenCursors # {} BY <1>5, FS_EmptySet
  <2>2. c \in OpenCursors BY <2>1
  <2>3. c \in Nat /\ c > 0 BY <2>2, Types DEF OpenCursors, OpenIntents, LedgerTyped, Keys, Intents
  <2>4. Continuation = [on |-> TRUE, set |-> Pending, cursor |-> c, resume |-> phase]
    BY <1>5 DEF Continuation
  <2> HIDE DEF c
  <2> QED BY <1>2, <2>3, <2>4 DEF Blocks, Resumes
<1>6. CASE Pending # {} /\ ~(phase = "CANCELLING" /\ started) /\ Cardinality(OpenCursors) # 1
  BY <1>6, Plain DEF Continuation
<1> QED BY <1>3, <1>4, <1>5, <1>6

\* The run is blocked with the continuation of its open effects.
LEMMA BlockStep ==
  ASSUME EffectsInv, NEW h \in Hosts, Block(h)
  PROVE  EffectsInv'
<1> USE DEF EffectsInv
<1> DEFINE c == Continuation
<1>1. /\ plan.status = "none" /\ worker[h].gen = gen
      /\ worker[h].pc # "idle" /\ phase \in {"DELIVERING", "CANCELLING"}
  BY DEF Block, Fence, Current, Knows, Delivers
<1>2. c \in Blocks /\ (c.on => c.resume \in {"DELIVERING", "CANCELLING"} /\ c.cursor > 0)
  BY <1>1, ContinuationMeans
<1>3. /\ Event("BLOCKED_EXTERNAL", c, NoResult, FALSE) /\ Go(h, "done")
      /\ flag' = (flag \/ c.on)
      /\ UNCHANGED <<pos, gen, owned, cancel, ledger, plan, op, recon, up, crashes, world>>
  BY DEF Block
<1>4. resume' \in Resumes /\ resume' # "none"
  BY <1>1, Types DEF Block, RunTyped, Resumes
<1> HIDE DEF c
<1>5. flag' \in BOOLEAN BY <1>2, <1>3, Types DEF RunTyped, Blocks
<1> QED BY <1>1, <1>2, <1>3, <1>4, <1>5, StopStep DEF Phases, Terminal

\* A plan rests on ledgers that are settled, and its seal clears the flag.
LEMMA PlanSteps ==
  ASSUME EffectsInv, NEW h \in Hosts, RecordPlan(h) \/ Seal(h)
  PROVE  EffectsInv'
<1> USE DEF EffectsInv
<1>1. CASE RecordPlan(h)
  <2>1. PICK to \in Terminal : CanPlan(to) /\ plan' = OpenPlan(to) /\ worker[h].pc # "idle"
    BY <1>1 DEF RecordPlan, Terminal
  <2>2. /\ plan' \in [status : {"none", "open", "sealed"}, to : Terminal \cup {"none"}]
        /\ plan'.status = "open" /\ plan'.to \in Terminal
    BY <2>1 DEF OpenPlan
  <2>3. Pending = {} /\ ~Active /\ phase \notin Terminal
    BY <2>1 DEF CanPlan, LedgersSettled, IntentsSettled, GitHubSettled, ReconciliationsSettled,
                Pending, Terminal
  <2>4. UNCHANGED <<runVars, ledger, op, recon, up, crashes, world>> /\ plan.status = "none"
        /\ worker[h].gen = gen /\ Go(h, "planned")
    BY <1>1 DEF RecordPlan, Fence
  <2>5. RunTyped' BY <2>4, Types DEF RunTyped, runVars
  <2>6. Control'
    BY <2>2, <2>3, <2>4 DEF Control, Pending, OpenIntents, OpenGitHub, Active, ledger, runVars
  <2>7. Intents' /\ AdvancedMeansApplied'
    BY <2>4, IntentsStay DEF AdvancedMeansApplied, ledger, runVars, world
  <2> QED BY <2>1, <2>2, <2>4, <2>5, <2>6, <2>7, EventStep DEF runVars, ledger, Pcs, InStage
<1>2. CASE Seal(h)
  <2>1. /\ plan.status = "open" /\ flag' = FALSE /\ Go(h, "sealed") /\ worker[h].gen = gen
        /\ worker[h].pc # "idle" /\ plan' = SealedPlan
        /\ UNCHANGED <<phase, pos, version, gen, owned, resume, cancel, block, result, started,
                       ledger, op, recon, up, crashes, world>>
    BY <1>2 DEF Seal, Fence, Sealable, PlanUnsealed
  <2>2. /\ plan' \in [status : {"none", "open", "sealed"}, to : Terminal \cup {"none"}]
        /\ plan'.status = "sealed" /\ plan'.to = plan.to
    BY <2>1, Types DEF SealedPlan, LedgerTyped
  <2>3. RunTyped' BY <2>1, Types DEF RunTyped
  <2>4. Control'
    BY <2>1, <2>2 DEF Control, Pending, OpenIntents, OpenGitHub, Active, ledger
  <2>5. Intents' /\ AdvancedMeansApplied'
    BY <2>1, IntentsStay DEF AdvancedMeansApplied, ledger, world
  <2> QED BY <2>1, <2>2, <2>3, <2>4, <2>5, EventStep DEF ledger, Pcs, InStage
<1> QED BY <1>1, <1>2
-----------------------------------------------------------------------------
(* Cancellation and the reconciliation service. *)

\* A cancellation takes the generation away from every owner.
LEMMA CancelRequestStep ==
  ASSUME EffectsInv, NEW mode \in {"graceful", "forced"}, Cancel(mode)
  PROVE  EffectsInv'
<1> USE DEF EffectsInv
<1>1. /\ phase' = "CANCEL_REQUESTED" /\ block' = NoBlock /\ result' = NoResult /\ started' = FALSE
      /\ version' = version + 1 /\ gen' = gen + 1 /\ owned' = FALSE
      /\ resume' = IF resume = "none" THEN phase ELSE resume
      /\ cancel' = [mode |-> mode, origin |-> Origin(mode)]
      /\ UNCHANGED <<pos, ledger, plan, op, procs, world>>
      /\ plan.status = "none" /\ phase \notin Terminal
  BY DEF Cancel, Event, Cancellable
<1>2. flag' \in BOOLEAN BY Types DEF Cancel, RunTyped
<1>3. Origin(mode) \in {"none", "preexisting", "durable-effects", "forced-cancellation-cleanup"}
  BY DEF Origin
<1>4. resume' \in Resumes
  BY <1>1, Types DEF RunTyped, Resumes, Phases, Control
<1>5. RunTyped'
  <2>1. phase' \in Phases /\ gen' \in Nat BY <1>1, Types DEF Phases, RunTyped
  <2>2. block' \in Blocks /\ result' \in [cursor : Nat, absent : SUBSET Keys] BY <1>1, Plain
  <2>3. cancel' \in [mode : {"none", "graceful", "forced"},
                     origin : {"none", "preexisting", "durable-effects", "forced-cancellation-cleanup"}]
    BY <1>1, <1>3
  <2>4. version' \in Nat /\ pos' = pos BY <1>1, Types DEF RunTyped
  <2>5. owned' \in BOOLEAN /\ started' \in BOOLEAN BY <1>1
  <2> QED BY <1>2, <1>4, <2>1, <2>2, <2>3, <2>4, <2>5, Types DEF RunTyped
<1>6. ProcsTyped' BY <1>1, Types DEF ProcsTyped, procs
<1>7. Control' BY <1>1, Plain, Types DEF Control, Terminal, RunTyped
<1>8. Intents' BY <1>1 DEF Intents, ledger
<1>9. Owners'
  BY <1>1, Types DEF Owners, procs, RunTyped, ProcsTyped, Workers, Recons
<1>10. InHand' BY <1>1 DEF InHand, Hand, procs, ledger, world
<1> QED BY <1>1, <1>5, <1>6, <1>7, <1>8, <1>9, <1>10, NewGeneration DEF ledger, procs

\* A reconciliation takes its own generation.
LEMMA ReconClaimStep ==
  ASSUME EffectsInv, NEW h \in Hosts, ReconClaim(h)
  PROVE  EffectsInv'
<1> USE DEF EffectsInv
<1> DEFINE r == [pc |-> "claimed", gen |-> gen + 1]
<1>1. /\ gen \in Nat /\ gen' = gen + 1 /\ owned' = TRUE /\ plan.status = "none"
      /\ op' = [op EXCEPT !.status = "running", !.gen = gen + 1]
      /\ recon' = [recon EXCEPT ![h] = r]
      /\ UNCHANGED <<phase, pos, version, resume, flag, cancel, block, result, started,
                     ledger, plan, worker, up, crashes, world>>
  BY Types DEF ReconClaim, RunTyped
<1>2. r \in Recons /\ r.pc = "claimed" /\ r.gen = gen + 1 BY <1>1 DEF Recons
<1> HIDE DEF r
<1>3. recon' \in [Hosts -> Recons] /\ recon'[h] = r /\ \A k \in Hosts \ {h} : recon'[k] = recon[k]
  BY <1>1, <1>2, Types DEF ProcsTyped
<1>4. op' \in Ops
  <2>1. op \in Ops /\ gen + 1 \in Nat BY <1>1, Types DEF ProcsTyped
  <2>2. op' = [op EXCEPT !.status = "running", !.gen = gen + 1] BY <1>1
  <2> QED BY <2>1, <2>2 DEF Ops
<1>5. RunTyped' /\ ProcsTyped' BY <1>1, <1>3, <1>4, Types DEF RunTyped, ProcsTyped
<1>6. Control' BY <1>1 DEF Control
<1>7. Intents' /\ InHand' BY <1>1 DEF Intents, InHand, Hand, ledger, world
<1>8. Owners'
  BY <1>1, <1>2, <1>3, Types DEF Owners, ProcsTyped, Workers, Recons
<1> QED BY <1>1, <1>5, <1>6, <1>7, <1>8, NewGeneration DEF ledger

\* A reconciliation goes on, without a word to the ledgers.
LEMMA GoReconMoves ==
  ASSUME TypeOK, NEW h \in Hosts, recon[h].pc # "idle",
         NEW pc \in {"claimed", "github", "intents", "finish", "blocked", "release"}, GoRecon(h, pc)
  PROVE  /\ recon' \in [Hosts -> Recons]
         /\ \A k \in Hosts : recon'[k].pc # "idle" =>
              recon[k].pc # "idle" /\ recon'[k].gen = recon[k].gen
BY Types DEF ProcsTyped, Recons, GoRecon

\* The steps of a reconciliation that resolve nothing.
LEMMA ReconQuietSteps ==
  ASSUME EffectsInv, NEW h \in Hosts, ReconStart(h) \/ ReconBlock(h) \/ ReconRelease(h)
  PROVE  EffectsInv'
<1> USE DEF EffectsInv
<1>1. CASE ReconStart(h)
  <2>1. PICK pc \in {"github", "finish", "blocked"} : GoRecon(h, pc)
    BY <1>1 DEF ReconStart
  <2>2. Around
    BY <1>1, <2>1, GoReconMoves, Types
       DEF ReconStart, Around, RunTyped, ProcsTyped, Control, Active, runVars
  <2> QED BY <1>1, <2>2, QuietWorkers DEF ReconStart, untouched, runVars
<1>2. CASE ReconBlock(h)
  <2>1. op' \in Ops /\ op'.status = "none" BY <1>2 DEF ReconBlock, NoOp, Ops
  <2>2. Around
    BY <1>2, <2>1, GoReconMoves, Types DEF ReconBlock, Around, RunTyped, ProcsTyped
  <2> QED BY <1>2, <2>2, QuietWorkers DEF ReconBlock, untouched
<1>3. CASE ReconRelease(h)
  <2>1. owned' \in BOOLEAN BY <1>3, Types DEF ReconRelease, RunTyped, ReconFence
  <2>2. recon' \in [Hosts -> Recons] /\ \A k \in Hosts : recon'[k] = recon[k] \/ recon'[k].pc = "idle"
    BY <1>3, Types DEF ReconRelease, ProcsTyped, Recons, Asleep
  <2>3. Around BY <1>3, <2>1, <2>2, Types, AroundStays DEF ReconRelease, ProcsTyped
  <2> QED BY <1>3, <2>3, QuietWorkers DEF ReconRelease, untouched
<1> QED BY <1>1, <1>2, <1>3

\* The run is resumed: the reconciliation has the fence, so no worker has it,
\* and the event carries the cursor of the interrupted one.
LEMMA ReconFinishStep ==
  ASSUME EffectsInv, NEW h \in Hosts, ReconFinish(h)
  PROVE  EffectsInv'
<1> USE DEF EffectsInv
<1>1. /\ recon[h].pc = "finish" /\ recon[h].gen = gen /\ plan.status = "none"
      /\ UNCHANGED <<pos, gen, owned, cancel, ledger, plan, worker, up, crashes, world>>
  BY DEF ReconFinish, ReconFence
<1>2. CASE /\ Resumable /\ Event(block.resume, NoBlock, Resumption, FALSE)
           /\ resume' = "none" /\ flag' = FALSE /\ op' = NoOp /\ GoRecon(h, "release")
  <2>1. /\ block.resume \in {"DELIVERING", "CANCELLING"} /\ block.cursor > 0 /\ block.cursor \in Nat
    BY <1>2, Types DEF Resumable, Control, RunTyped, Blocks
  <2>2. /\ phase' = block.resume /\ version \in Nat /\ version' = version + 1 /\ block' = NoBlock
        /\ result' = Resumption /\ started' = FALSE
    BY <1>2, Types DEF Event, RunTyped
  <2>3. Absent \in SUBSET Keys
    BY Types DEF Absent, Expected, ProcsTyped, Ops, Effects
  <2>4. /\ Resumption \in [cursor : Nat, absent : SUBSET Keys]
        /\ block.resume = "DELIVERING" => Resumption.cursor > 0
    BY <2>1, <2>3 DEF Resumption
  <2>5. RunTyped'
    <3>1. phase' \in Phases BY <2>1, <2>2 DEF Phases
    <3>2. block' \in Blocks BY <2>2, Plain
    <3>3. version' \in Nat /\ result' \in [cursor : Nat, absent : SUBSET Keys] BY <2>2, <2>4
    <3>4. resume' \in Resumes BY <1>2 DEF Resumes
    <3>5. started' \in BOOLEAN /\ flag' \in BOOLEAN BY <1>2, <2>2
    <3> QED BY <1>1, <3>1, <3>2, <3>3, <3>4, <3>5, Types DEF RunTyped
  <2>6. ProcsTyped'
    <3>1. op' \in Ops BY <1>2 DEF NoOp, Ops
    <3> QED BY <1>1, <1>2, <3>1, GoReconMoves, Types DEF ProcsTyped
  <2>7. LedgerTyped' /\ WorldTyped' BY <1>1, Types DEF LedgerTyped, WorldTyped, ledger, world
  <2>8. TypeOK' BY <2>5, <2>6, <2>7, TypesNext
  <2>9. Alone(h) /\ Owners'
    BY <1>1, <1>2, GoReconMoves, OwnersStay DEF Alone
  <2>10. InHand' BY <1>1 DEF InHand, Hand, ledger, world
  <2>11. Current'
    <3>1. \A k \in Hosts : worker[k].gen = gen => worker[k].pc = "idle" BY <1>1 DEF Owners
    <3> QED BY <1>1, <3>1 DEF Current, Knows, Delivers, InStage
  <2>12. Control' BY <1>1, <2>1, <2>2, Plain DEF Control, Terminal
  <2>13. Intents' BY <1>1, <2>2, <2>4 DEF Intents, ledger
  <2>14. AdvancedMeansApplied' BY <1>1 DEF AdvancedMeansApplied, world
  <2>15. Undisturbed'
    <3> SUFFICES ASSUME NEW p \in 1 .. Stages, ~overtaken[p] PROVE Once(p)'
      BY <1>1 DEF Undisturbed, world
    <3>1. Once(p) BY DEF Undisturbed
    <3>2. Unresolved(p) => Unresolved(p)' BY <1>1 DEF Unresolved, ledger
    <3> QED BY <1>1, <3>1, <3>2, OnceStays DEF Authority, ledger, world
  <2> QED BY <2>8, <2>9, <2>10, <2>11, <2>12, <2>13, <2>14, <2>15
<1>3. CASE /\ GoRecon(h, "release") /\ flag' = FALSE /\ op' = NoOp
           /\ UNCHANGED <<phase, version, resume, block, result, started>>
  <2>1. op' \in Ops /\ op'.status = "none" BY <1>3 DEF NoOp, Ops
  <2>2. flag' \in BOOLEAN BY <1>3
  <2>3. Around BY <1>1, <1>3, <2>1, <2>2, GoReconMoves, Types DEF Around, RunTyped, ProcsTyped
  <2> QED BY <1>1, <1>3, <2>3, QuietWorkers DEF untouched
<1>4. CASE /\ GoRecon(h, "blocked")
           /\ UNCHANGED <<phase, version, resume, flag, block, result, started, op>>
  <2>1. Around BY <1>1, <1>4, GoReconMoves, Types DEF Around, RunTyped, ProcsTyped
  <2> QED BY <1>1, <1>4, <2>1, QuietWorkers DEF untouched
<1> QED BY <1>2, <1>3, <1>4 DEF ReconFinish

\* Nothing is pending when both ledgers have nothing open.
LEMMA PendingMeans == Pending = {} <=> OpenIntents = {} /\ OpenGitHub = {}
<1>1. ASSUME NEW k \in OpenIntents PROVE Pending # {}
  <2>1. <<"delivery-intent", k>> \in Pending BY DEF Pending
  <2> QED BY <2>1
<1>2. ASSUME NEW p \in OpenGitHub PROVE Pending # {}
  <2>1. <<"github-effect", p>> \in Pending BY DEF Pending
  <2> QED BY <2>1
<1>3. OpenIntents = {} /\ OpenGitHub = {} => Pending = {} BY DEF Pending
<1> QED BY <1>1, <1>2, <1>3

\* A reconciliation resolves effects: what is left to show of it.
LEMMA ReconResolves ==
  ASSUME EffectsInv, NEW h \in Hosts, recon[h].pc # "idle",
         NEW pc \in {"intents", "finish", "blocked"}, GoRecon(h, pc),
         UNCHANGED <<phase, pos, version, gen, owned, resume, cancel, block, result, started,
                     intents, plan, op, worker, up, crashes, inflight, applied>>,
         flag' \in BOOLEAN, LedgerTyped', WorldTyped',
         Pending = {} => Pending' = {} /\ flag' = flag,
         \A p \in 1 .. Stages : ~overtaken'[p] => Once(p)'
  PROVE  EffectsInv'
<1> USE DEF EffectsInv
<1>1. TypeOK'
  <2>1. RunTyped' BY Types DEF RunTyped
  <2>2. ProcsTyped' BY GoReconMoves, Types DEF ProcsTyped
  <2> QED BY <2>1, <2>2, TypesNext
<1>2. Owners' BY GoReconMoves, OwnersStay DEF Alone
<1>3. InHand' /\ Current' BY DEF InHand, Hand, Current, Knows
<1>4. Control' BY DEF Control, Active
<1>5. Intents' BY IntentsStay
<1>6. AdvancedMeansApplied' BY DEF AdvancedMeansApplied
<1>7. Undisturbed' BY DEF Undisturbed
<1> QED BY <1>1, <1>2, <1>3, <1>4, <1>5, <1>6, <1>7

\* An observation leaves the stage once only, if what may land stays unresolved.
LEMMA OnceResolved ==
  ASSUME NEW p \in 1 .. Stages, Once(p), UNCHANGED <<applied, inflight, gen, worker>>,
         MayLand(p) => Unresolved(p)',
         p \notin GitHub /\ (\A k \in intents' : k[1] = p => outcome'[k] = "not_applied") =>
           applied[p] = 0
  PROVE  Once(p)'
<1>1. (MayLand(p)' <=> MayLand(p)) /\ \A k \in Hosts : Authority(k, p)' <=> Authority(k, p)
  BY DEF MayLand, Authority
<1> QED BY <1>1 DEF Once

\* Nothing is to come for a stage that is applied.
LEMMA AppliedIsOver ==
  ASSUME TypeOK, NEW p \in 1 .. Stages, Once(p), applied[p] > 0
  PROVE  ~MayLand(p)
BY Types DEF WorldTyped, Once, MayLand, Authority

\* The GitHub effects of a reconciliation.
LEMMA ReconGitHubStep ==
  ASSUME EffectsInv, NEW h \in Hosts, ReconGitHub(h)
  PROVE  EffectsInv'
<1> USE DEF EffectsInv
<1>1. PICK o \in [OpenGitHub -> {"confirmed", "not_applied", "ambiguous"}] :
        ObservePending(o) /\ (GoRecon(h, "intents") \/ GoRecon(h, "blocked"))
  BY DEF ReconGitHub
<1>2. PICK pc \in {"intents", "blocked"} : GoRecon(h, pc) BY <1>1
<1>3. /\ recon[h].pc # "idle"
      /\ UNCHANGED <<phase, pos, version, gen, owned, resume, cancel, block, result, started,
                     intents, outcome, replay, plan, op, worker, up, crashes, inflight, applied>>
  BY DEF ReconGitHub
<1>4. /\ github' = [p \in GitHub |-> IF p \in OpenGitHub THEN o[p] ELSE github[p]]
      /\ flag' = (flag \/ \E p \in OpenGitHub : o[p] = "ambiguous")
      /\ \A p \in OpenGitHub : /\ o[p] = "confirmed" => applied[p] > 0
                               /\ o[p] = "not_applied" => ~(applied[p] > 0)
  BY <1>1 DEF ObservePending, RecordObservations, Observed
<1>5. /\ overtaken' \in [1 .. Stages -> BOOLEAN]
      /\ \A p \in 1 .. Stages : ~overtaken'[p] => ~overtaken[p]
      /\ \A p \in OpenGitHub : o[p] = "not_applied" /\ ~overtaken'[p] => ~MayLand(p)
  BY <1>1, PendingType, Types DEF ObservePending, Overtake, WorldTyped
<1>6. flag' \in BOOLEAN BY <1>4, Types DEF RunTyped
<1>7. LedgerTyped' /\ WorldTyped'
  BY <1>3, <1>4, <1>5, Types DEF LedgerTyped, WorldTyped, Open
<1>8. Pending = {} => Pending' = {} /\ flag' = flag
  <2> SUFFICES ASSUME Pending = {} PROVE Pending' = {} /\ flag' = flag OBVIOUS
  <2>1. OpenIntents = {} /\ OpenGitHub = {} BY PendingMeans
  <2>2. OpenIntents' = {} BY <1>3, <2>1 DEF OpenIntents
  <2>3. OpenGitHub' = {} BY <1>4, <2>1 DEF OpenGitHub
  <2>4. flag' = flag BY <1>4, <2>1, Types DEF RunTyped
  <2> QED BY <2>2, <2>3, <2>4 DEF Pending
<1>9. ASSUME NEW p \in 1 .. Stages, ~overtaken'[p] PROVE Once(p)'
  <2>1. Once(p) BY <1>5, <1>9 DEF Undisturbed
  <2>2. MayLand(p) => Unresolved(p)'
    <3> SUFFICES ASSUME MayLand(p) PROVE Unresolved(p)' OBVIOUS
    <3>1. Unresolved(p) /\ ~(applied[p] > 0) BY <2>1, AppliedIsOver DEF Once
    <3>2. CASE p \notin GitHub BY <1>3, <3>1, <3>2 DEF Unresolved
    <3>3. CASE p \in GitHub
      <4>1. p \in OpenGitHub BY <3>1, <3>3 DEF OpenGitHub, Unresolved
      <4>2. o[p] = "ambiguous" BY <1>4, <1>5, <1>9, <3>1, <4>1
      <4> QED BY <1>4, <3>3, <4>1, <4>2 DEF Unresolved, Open
    <3> QED BY <3>2, <3>3
  <2> QED BY <1>3, <2>1, <2>2, OnceResolved DEF Once
<1> QED BY <1>2, <1>3, <1>6, <1>7, <1>8, <1>9, ReconResolves

\* The delivery intents of a reconciliation.
LEMMA ReconIntentsStep ==
  ASSUME EffectsInv, NEW h \in Hosts, ReconIntents(h)
  PROVE  EffectsInv'
<1> USE DEF EffectsInv
<1>1. /\ recon[h].pc # "idle"
      /\ UNCHANGED <<runVars, intents, github, plan, op, worker, up, crashes, inflight, applied>>
  BY DEF ReconIntents
<1>2. flag' = flag /\ flag' \in BOOLEAN BY <1>1, Types DEF runVars, RunTyped
<1>3. CASE GoRecon(h, "blocked") /\ UNCHANGED <<outcome, replay, overtaken>>
  <2>1. Around
    BY <1>1, <1>2, <1>3, GoReconMoves, Types
       DEF Around, RunTyped, ProcsTyped, Control, Active, runVars
  <2> QED BY <1>1, <1>3, <2>1, QuietWorkers DEF untouched, runVars, ledger, world
<1>4. CASE \E o \in [OpenIntents -> {"confirmed", "not_applied", "ambiguous"}] :
              /\ \A k \in OpenIntents : o[k] \in Observed(k[1])
              /\ ResolveIntents(o)
              /\ Overtake({k[1] : k \in {j \in OpenIntents : o[j] = "not_applied"}})
              /\ GoRecon(h, IF \E k \in OpenIntents : o[k] = "ambiguous" THEN "blocked" ELSE "finish")
  <2>1. PICK o \in [OpenIntents -> {"confirmed", "not_applied", "ambiguous"}] :
              /\ \A k \in OpenIntents : o[k] \in Observed(k[1])
              /\ ResolveIntents(o)
              /\ Overtake({k[1] : k \in {j \in OpenIntents : o[j] = "not_applied"}})
              /\ GoRecon(h, IF \E k \in OpenIntents : o[k] = "ambiguous" THEN "blocked" ELSE "finish")
    BY <1>4
  <2>2. PICK pc \in {"blocked", "finish"} : GoRecon(h, pc) BY <2>1
  <2>3. \A k \in OpenIntents : /\ o[k] = "confirmed" => applied[k[1]] > 0
                               /\ o[k] = "not_applied" => ~(applied[k[1]] > 0)
    BY <2>1 DEF Observed
  <2>4. /\ outcome' = [k \in intents |-> IF k \in OpenIntents /\ o[k] # "ambiguous" THEN o[k]
                                         ELSE outcome[k]]
        /\ replay' = [k \in intents |-> IF k \in OpenIntents /\ o[k] # "ambiguous" THEN 0
                                        ELSE replay[k]]
    BY <2>1 DEF ResolveIntents
  <2>5. /\ overtaken' \in [1 .. Stages -> BOOLEAN]
        /\ \A p \in 1 .. Stages : ~overtaken'[p] => ~overtaken[p]
        /\ \A k \in OpenIntents : o[k] = "not_applied" /\ ~overtaken'[k[1]] => ~MayLand(k[1])
    <3>1. \A k \in OpenIntents : k[1] \in 1 .. Stages BY PendingType DEF Keys
    <3> QED BY <2>1, <3>1, Types DEF Overtake, WorldTyped
  <2>6. LedgerTyped' /\ WorldTyped'
    BY <1>1, <2>4, <2>5, Types DEF LedgerTyped, WorldTyped, Outcomes
  <2>7. Pending = {} => Pending' = {}
    <3> SUFFICES ASSUME Pending = {} PROVE Pending' = {} OBVIOUS
    <3>1. OpenIntents = {} /\ OpenGitHub = {} BY PendingMeans
    <3>2. OpenIntents' = {} BY <1>1, <2>4, <3>1 DEF OpenIntents
    <3>3. OpenGitHub' = {} BY <1>1, <3>1 DEF OpenGitHub
    <3> QED BY <3>2, <3>3 DEF Pending
  <2>8. ASSUME NEW p \in 1 .. Stages, ~overtaken'[p] PROVE Once(p)'
    <3>1. Once(p) /\ applied[p] \in Nat BY <2>5, <2>8, Types DEF Undisturbed, WorldTyped
    <3>2. MayLand(p) => Unresolved(p)'
      <4> SUFFICES ASSUME MayLand(p) PROVE Unresolved(p)' OBVIOUS
      <4>1. Unresolved(p) /\ ~(applied[p] > 0) BY <3>1, AppliedIsOver DEF Once
      <4>2. CASE p \in GitHub BY <1>1, <4>1, <4>2 DEF Unresolved
      <4>3. CASE p \notin GitHub
        <5>1. PICK k \in OpenIntents : k[1] = p BY <4>1, <4>3 DEF Unresolved, OpenIntents
        <5>2. o[k] = "ambiguous" BY <2>3, <2>5, <2>8, <4>1, <5>1
        <5>3. k \in intents' /\ outcome'[k] = "pending" BY <1>1, <2>4, <5>2 DEF OpenIntents
        <5> QED BY <4>3, <5>1, <5>3 DEF Unresolved
      <4> QED BY <4>2, <4>3
    <3>3. p \notin GitHub /\ (\A k \in intents' : k[1] = p => outcome'[k] = "not_applied") =>
            applied[p] = 0
      <4> SUFFICES ASSUME p \notin GitHub, \A k \in intents : k[1] = p => outcome'[k] = "not_applied"
                   PROVE  applied[p] = 0
        BY <1>1
      <4>1. CASE \E k \in OpenIntents : k[1] = p
        <5>1. PICK k \in OpenIntents : k[1] = p BY <4>1
        <5>2. k \in intents /\ outcome[k] = "pending" /\ outcome'[k] = "not_applied"
          BY <5>1 DEF OpenIntents
        <5>3. o[k] = "not_applied" BY <2>4, <5>2
        <5> QED BY <2>3, <3>1, <5>1, <5>3
      <4>2. CASE ~\E k \in OpenIntents : k[1] = p
        <5>1. \A k \in intents : k[1] = p => outcome[k] = "not_applied" BY <2>4, <4>2
        <5> QED BY <3>1, <5>1 DEF Once
      <4> QED BY <4>1, <4>2
    <3> QED BY <1>1, <3>1, <3>2, <3>3, OnceResolved DEF runVars
  <2> QED BY <1>1, <1>2, <2>2, <2>6, <2>7, <2>8, ReconResolves DEF runVars
<1> QED BY <1>3, <1>4 DEF ReconIntents
-----------------------------------------------------------------------------
(* The outside world. *)

\* A request lands or is lost: the stage has no other on its way.
LEMMA WorldStep ==
  ASSUME EffectsInv, NEW p \in 1 .. Stages, Land(p) \/ Lose(p)
  PROVE  EffectsInv'
<1> USE DEF EffectsInv
<1>1. /\ UNCHANGED <<runVars, ledger, plan, op, procs, overtaken>>
      /\ applied \in [1 .. Stages -> Nat] /\ inflight \in [1 .. Stages -> Nat] /\ inflight[p] > 0
      /\ inflight' = [inflight EXCEPT ![p] = @ - 1]
  BY Types DEF Land, Lose, WorldTyped
<1>2. /\ inflight' \in [1 .. Stages -> Nat] /\ inflight'[p] = inflight[p] - 1
      /\ \A q \in 1 .. Stages : q # p => inflight'[q] = inflight[q]
  BY <1>1
<1>3. /\ applied' \in [1 .. Stages -> Nat]
      /\ \A q \in 1 .. Stages : q # p => applied'[q] = applied[q]
      /\ applied'[p] \in {applied[p], 1, applied[p] + 1}
  <2>1. CASE Lose(p) BY <1>1, <2>1 DEF Lose
  <2>2. CASE Land(p)
    <3>1. applied' = [applied EXCEPT ![p] = IF p \in GitHub THEN 1 ELSE @ + 1] BY <2>2 DEF Land
    <3> QED BY <1>1, <3>1
  <2> QED BY <2>1, <2>2
<1>4. \A q \in 1 .. Stages : applied[q] > 0 => applied'[q] > 0
  BY <1>1, <1>3
<1>5. TypeOK'
  <2>1. RunTyped' /\ LedgerTyped' /\ ProcsTyped' /\ WorldTyped'
    BY <1>1, <1>2, <1>3, Types
       DEF RunTyped, LedgerTyped, ProcsTyped, WorldTyped, runVars, ledger, procs
  <2> QED BY <2>1, TypesNext
<1>6. Owners' /\ Intents' /\ Control'
  BY <1>1 DEF Owners, Intents, Control, Pending, OpenIntents, OpenGitHub, Active,
              runVars, ledger, procs
<1>7. InHand'
  <2> SUFFICES ASSUME NEW k \in Hosts PROVE Hand(k)' BY DEF InHand
  <2>1. Hand(k) /\ (worker[k].pc \in InStage => worker[k].key[1] \in 1 .. Stages)
    BY Types DEF InHand, Hand, LedgerTyped, Keys
  <2> QED BY <1>1, <1>4, <2>1 DEF Hand, InStage, ledger, procs
<1>8. Current' /\ AdvancedMeansApplied'
  <2>1. pos \in 1 .. Stages + 1 BY Types DEF RunTyped
  <2> QED BY <1>1, <1>4, <2>1 DEF Current, Knows, AdvancedMeansApplied, runVars, procs
<1>9. Undisturbed'
  <2> SUFFICES ASSUME NEW q \in 1 .. Stages, ~overtaken[q] PROVE Once(q)'
    BY <1>1 DEF Undisturbed
  <2>1. Once(q) BY DEF Undisturbed
  <2>2. \A k \in Hosts : Authority(k, q)' <=> Authority(k, q) BY <1>1 DEF Authority, procs
  <2>3. MayLand(q)' => MayLand(q) BY <1>1, <1>2, <2>2 DEF MayLand, Authority
  <2>4. Unresolved(q)' <=> Unresolved(q) BY <1>1 DEF Unresolved, ledger
  <2>5. CASE q = p
    <3>1. inflight[q] = 1 /\ applied[q] = 0 BY <1>1, <2>1, <2>5 DEF Once
    <3>2. /\ MayLand(q) /\ Unresolved(q) /\ \A k \in Hosts : ~Authority(k, q)
      BY <2>1, <3>1 DEF Once, MayLand
    <3>3. applied'[q] + inflight'[q] <= 1 BY <1>2, <1>3, <2>5, <3>1
    <3>4. q \notin GitHub => ~\A k \in intents' : k[1] = q => outcome'[k] = "not_applied"
      BY <1>1, <3>2 DEF Unresolved, ledger
    <3>5. \A k \in Hosts :
            ~(worker'[k].pc = "begin" /\ worker'[k].gen = gen' /\ worker'[k].key[1] = q)
      BY <1>1, <2>1, <3>2 DEF Once, procs, runVars
    <3> QED BY <2>2, <2>4, <3>2, <3>3, <3>4, <3>5 DEF Once
  <2>6. CASE q # p
    <3>1. applied'[q] = applied[q] /\ inflight'[q] = inflight[q] BY <1>2, <1>3, <2>6
    <3> QED BY <1>1, <2>1, <2>2, <2>3, <2>4, <3>1 DEF Once, procs, runVars, ledger
  <2> QED BY <2>5, <2>6
<1> QED BY <1>5, <1>6, <1>7, <1>8, <1>9
-----------------------------------------------------------------------------
(* The whole specification. *)

\* The invariant holds at first.
LEMMA EffectsInit == Init => EffectsInv
<1> SUFFICES ASSUME Init PROVE EffectsInv OBVIOUS
<1> USE DEF EffectsInv
<1>1. Idle \in Workers /\ Asleep \in Recons /\ Idle.pc = "idle" /\ Asleep.pc = "idle"
  <2>1. <<0, 0>> \in (0 .. Stages) \X Nat BY AsfEffectsAssumption
  <2> QED BY <2>1 DEF Idle, Workers, Pcs, Asleep, Recons
<1>2. TypeOK
  <2>1. RunTyped
    <3>1. owned \in BOOLEAN /\ flag \in BOOLEAN /\ started \in BOOLEAN BY DEF Init
    <3>2. phase \in Phases /\ resume \in Resumes BY DEF Init, Phases, Resumes
    <3>3. pos \in 1 .. Stages + 1 /\ version \in Nat /\ gen \in Nat
      BY AsfEffectsAssumption DEF Init
    <3>4. cancel \in [mode : {"none", "graceful", "forced"},
                      origin : {"none", "preexisting", "durable-effects",
                                "forced-cancellation-cleanup"}]
      BY DEF Init
    <3>5. block \in Blocks /\ result \in [cursor : Nat, absent : SUBSET Keys] BY Plain DEF Init
    <3> QED BY <3>1, <3>2, <3>3, <3>4, <3>5 DEF RunTyped
  <2>2. LedgerTyped BY DEF Init, LedgerTyped, Keys
  <2>3. ProcsTyped BY <1>1 DEF Init, ProcsTyped, Ops
  <2>4. WorldTyped BY DEF Init, WorldTyped
  <2> QED BY <2>1, <2>2, <2>3, <2>4, Types
<1>3. \A h \in Hosts : worker[h].pc = "idle" /\ recon[h].pc = "idle" BY <1>1 DEF Init
<1>4. Owners /\ InHand /\ Current
  BY <1>3 DEF Owners, InHand, Hand, Current, Knows, InStage, Delivers
<1>5. Control /\ Intents /\ AdvancedMeansApplied
  BY Plain DEF Init, Control, Intents, AdvancedMeansApplied, Terminal
<1>6. Undisturbed
  BY <1>3 DEF Init, Undisturbed, Once, Authority, MayLand
<1> QED BY <1>2, <1>4, <1>5, <1>6

\* Every step of the specification preserves the invariant.
LEMMA EffectsStep == EffectsInv /\ [Next]_vars => EffectsInv'
<1> SUFFICES ASSUME EffectsInv, [Next]_vars PROVE EffectsInv' OBVIOUS
<1>1. ASSUME NEW h \in Hosts, WorkerStep(h) PROVE EffectsInv'
  BY <1>1, ClaimStep, ReleaseStep, SimpleSteps, RecordIntentStep, InvokeSteps, IntendStep,
     ObserveStep, BeginStep, SendStep, ConfirmStep, AdvanceStep, StopSteps, BlockStep, PlanSteps
     DEF WorkerStep
<1>2. ASSUME NEW h \in Hosts, ReconStep(h) PROVE EffectsInv'
  BY <1>2, HostRequestSteps, ReconClaimStep, ReconQuietSteps, ReconGitHubStep, ReconIntentsStep,
     ReconFinishStep DEF ReconStep
<1>3. ASSUME UNCHANGED vars PROVE EffectsInv'
  <2>1. TypeOK'
    <3>1. RunTyped' /\ LedgerTyped' /\ ProcsTyped' /\ WorldTyped'
      BY <1>3, Types DEF EffectsInv, vars, runVars, ledger, procs, world,
                         RunTyped, LedgerTyped, ProcsTyped, WorldTyped
    <3> QED BY <3>1, TypesNext
  <2>2. Owners' /\ InHand' /\ Current'
    BY <1>3 DEF EffectsInv, vars, runVars, ledger, procs, world, Owners, InHand, Hand, Current, Knows
  <2>3. Control' /\ Intents' /\ AdvancedMeansApplied'
    BY <1>3 DEF EffectsInv, vars, runVars, ledger, procs, world, Control, Pending, OpenIntents,
                OpenGitHub, Active, Intents, AdvancedMeansApplied
  <2>4. Undisturbed'
    BY <1>3 DEF EffectsInv, vars, runVars, ledger, procs, world, Undisturbed, Once, Authority,
                MayLand, Unresolved
  <2> QED BY <2>1, <2>2, <2>3, <2>4 DEF EffectsInv
<1> QED BY <1>1, <1>2, <1>3, HostRequestSteps, CancelRequestStep, WorldStep DEF Next

\* The inductive invariant of the run, for any hosts, stages and bounds.
THEOREM EffectsInvariant == Spec => []EffectsInv
BY EffectsInit, EffectsStep, PTL DEF Spec

\* Every variable of the store, the workers and the world keeps its type.
THEOREM TypeCorrect == Spec => []TypeOK
<1>1. EffectsInv => TypeOK BY DEF EffectsInv
<1> QED BY <1>1, EffectsInvariant, PTL

\* However workers, takeovers, replays and reconciliations interleave, a stage
\* that no observation overtook is applied once (#recordAsfDeliveryIntent hands
\* out authority, #confirmAsfDeliveryIntent and the reconciliation resolve it).
THEOREM AppliedOnceHolds == Spec => []AppliedOnce
<1>1. EffectsInv => AppliedOnce
  BY Types DEF EffectsInv, Undisturbed, Once, AppliedOnce, WorldTyped
<1> QED BY <1>1, EffectsInvariant, PTL

\* #transitionWithCheckpoint never moves the run past a stage that the outside
\* world has not applied.
THEOREM AdvancedMeansAppliedHolds == Spec => []AdvancedMeansApplied
<1>1. EffectsInv => AdvancedMeansApplied BY DEF EffectsInv
<1> QED BY <1>1, EffectsInvariant, PTL

\* A run reaches a terminal phase only with its ledgers resolved, no active
\* request, its flag consumed and its cleanup sealed.
THEOREM TerminalIsSettledHolds == Spec => []TerminalIsSettled
<1>1. EffectsInv => TerminalIsSettled
  BY DEF EffectsInv, Control, TerminalIsSettled
<1> QED BY <1>1, EffectsInvariant, PTL

\* After the terminal transition no request of any owner, earlier or last, is
\* still to land, unless an observation overtook it.
THEOREM NothingLandsAfterTheEndHolds == Spec => []NothingLandsAfterTheEnd
<1>1. EffectsInv => NothingLandsAfterTheEnd
  <2> SUFFICES ASSUME EffectsInv, phase \in Terminal, NEW p \in 1 .. Stages, ~overtaken[p]
               PROVE  ~MayLand(p)
    BY DEF NothingLandsAfterTheEnd
  <2>1. Pending = {} BY DEF EffectsInv, Control
  <2>2. ~Unresolved(p) BY <2>1, PendingMeans DEF OpenIntents, OpenGitHub, Unresolved
  <2> QED BY <2>2 DEF EffectsInv, Undisturbed, Once
<1> QED BY <1>1, EffectsInvariant, PTL
-----------------------------------------------------------------------------
(* A cancelled run stays cancelled. *)

\* CancellationSticks is not inductive: a reconciliation puts the run in the
\* phase that the continuation of its block names, and the terminal transition
\* in the one its plan names.
CancelInv ==
  /\ plan.to # "DELIVERING"
  /\ cancel.mode # "none" => phase # "DELIVERING" /\ block.resume # "DELIVERING"

\* A continuation names a phase the run is in, or CANCELLING.
LEMMA ContinuationPhase ==
  Continuation.resume \in {"none", "CANCELLING", phase}
BY DEF Continuation, NoBlock

\* The steps that write neither the phase, the block, the cancellation nor the
\* plan leave the invariant alone.
LEMMA QuietSteps ==
  ASSUME CancelInv, UNCHANGED <<phase, block, cancel, plan>>
  PROVE  CancelInv'
BY DEF CancelInv

\* The host and the worker service.
LEMMA HostSteps ==
  ASSUME NEW h \in Hosts, CancelInv, Start(h) \/ Crash(h) \/ Claim(h) \/ Release(h)
  PROVE  CancelInv'
BY QuietSteps DEF Start, Crash, Claim, Release, runVars

\* The stages: the run is in DELIVERING before every step that leaves it there.
LEMMA StageSteps ==
  ASSUME NEW h \in Hosts, CancelInv,
         \/ Resume(h) \/ RecordIntent(h) \/ Invoke(h) \/ Intend(h) \/ Observe(h) \/ Begin(h)
         \/ Send(h) \/ Reply(h) \/ Confirm(h) \/ Advance(h) \/ Pause(h) \/ Fail(h)
  PROVE  CancelInv'
<1>1. CASE Resume(h) \/ RecordIntent(h) \/ Invoke(h) \/ Intend(h)
  BY <1>1, QuietSteps DEF Resume, FinishPlan, RecordIntent, IntentRow, Invoke, Intend, runVars
<1>2. CASE Observe(h) \/ Begin(h) \/ Send(h) \/ Reply(h)
  BY <1>2, QuietSteps DEF Observe, RecordObservations, Begin, Send, Reply, runVars
<1>3. CASE Confirm(h) \/ Fail(h)
  BY <1>3, QuietSteps DEF Confirm, Fail, runVars
<1>4. CASE Advance(h)
  BY <1>4 DEF Advance, Event, CancelInv
<1>5. CASE Pause(h)
  BY <1>5 DEF Pause, Event, NoBlock, CancelInv
<1> QED BY <1>1, <1>2, <1>3, <1>4, <1>5

\* Stops, the terminal plan and the start of a cancellation.
LEMMA EndSteps ==
  ASSUME NEW h \in Hosts, CancelInv,
         \/ RecordPlan(h) \/ Seal(h) \/ RetryPlan(h) \/ Terminate(h)
         \/ CancelStart(h) \/ Block(h)
  PROVE  CancelInv'
<1>1. CASE RecordPlan(h)
  <2>1. plan'.to \in Terminal
    BY <1>1 DEF RecordPlan, OpenPlan
  <2> QED BY <1>1, <2>1 DEF RecordPlan, runVars, Terminal, CancelInv
<1>2. CASE Seal(h)
  <2>1. plan'.to = plan.to \/ plan'.to # "DELIVERING"
    BY <1>2 DEF Seal, SealedPlan, CancelInv
  <2> QED BY <1>2, <2>1 DEF Seal, CancelInv
<1>3. CASE RetryPlan(h)
  BY <1>3, QuietSteps DEF RetryPlan
<1>4. CASE Terminate(h)
  BY <1>4 DEF Terminate, Event, NoBlock, CancelInv
<1>5. CASE CancelStart(h)
  BY <1>5 DEF CancelStart, Event, NoBlock, CancelInv
<1>6. CASE Block(h)
  BY <1>6, ContinuationPhase DEF Block, Event, CancelInv
<1> QED BY <1>1, <1>2, <1>3, <1>4, <1>5, <1>6

\* The cancellation itself replaces the continuation of a blocked run.
LEMMA CancelStep ==
  ASSUME NEW mode \in {"graceful", "forced"}, CancelInv, Cancel(mode)
  PROVE  CancelInv'
BY DEF Cancel, Cancellable, Event, NoBlock, CancelInv

\* The reconciliation resumes a run only in the phase of its continuation.
LEMMA ReconSteps ==
  ASSUME NEW h \in Hosts, CancelInv, ReconStep(h)
  PROVE  CancelInv'
<1>1. CASE Request(h) \/ ReconClaim(h) \/ ReconStart(h)
  BY <1>1, QuietSteps DEF Request, ReconClaim, ReconStart, runVars
<1>2. CASE ReconGitHub(h) \/ ReconIntents(h)
  BY <1>2, QuietSteps DEF ReconGitHub, ObservePending, RecordObservations, ReconIntents, runVars
<1>3. CASE ReconBlock(h) \/ ReconRelease(h)
  BY <1>3, QuietSteps DEF ReconBlock, ReconRelease
<1>4. CASE ReconFinish(h)
  BY <1>4 DEF ReconFinish, Resumption, Event, NoBlock, CancelInv
<1> QED BY <1>1, <1>2, <1>3, <1>4 DEF ReconStep

\* Every step of the specification preserves the invariant.
LEMMA CancelInvStep ==
  ASSUME CancelInv, [Next]_vars
  PROVE  CancelInv'
<1>1. CASE \E h \in Hosts : Start(h) \/ Crash(h) \/ WorkerStep(h) \/ ReconStep(h)
  BY <1>1, HostSteps, StageSteps, EndSteps, ReconSteps DEF WorkerStep
<1>2. CASE \E mode \in {"graceful", "forced"} : Cancel(mode)
  BY <1>2, CancelStep
<1>3. CASE \E p \in 1 .. Stages : Land(p) \/ Lose(p)
  BY <1>3, QuietSteps DEF Land, Lose, runVars
<1>4. CASE UNCHANGED vars
  BY <1>4, QuietSteps DEF vars, runVars
<1> QED BY <1>1, <1>2, <1>3, <1>4 DEF Next

\* Once requestAsfCancellation has been accepted, neither the worker nor a
\* reconciliation that resumes the blocked run takes it back to a stage.
THEOREM CancellationSticksHolds == Spec => []CancellationSticks
<1>1. Init => CancelInv
  BY DEF Init, NoBlock, CancelInv
<1>2. CancelInv /\ [Next]_vars => CancelInv'
  BY CancelInvStep
<1>3. CancelInv => CancellationSticks
  BY DEF CancelInv, CancellationSticks
<1> QED BY <1>1, <1>2, <1>3, PTL DEF Spec
=============================================================================
