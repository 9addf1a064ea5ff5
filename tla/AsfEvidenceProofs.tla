------------------------- MODULE AsfEvidenceProofs -------------------------
(***************************************************************************)
(* The evidence of delivered runs (AsfEvidence), for any number of hosts   *)
(* and runs, any artifacts and declarations, and any limits.               *)
(*                                                                         *)
(* The database.  A record is written once and each is bound to the one    *)
(* before it: the delivery bundle to the history and the intent, the       *)
(* terminal bundle to the delivery bundle, the seal and the next event.    *)
(* What a worker has in hand, even a stale one, is durable; what only the  *)
(* owner knows, the phase of its run, changes behind the fence alone.  A   *)
(* run is compacted when it is terminal, acknowledged and without owner,   *)
(* and a terminal run is not claimed again.                                *)
(*                                                                         *)
(* The directory.  An artifact is linked under a temporary name and under  *)
(* its address, and the temporary name is removed: a put that is alone on  *)
(* an address knows step by step which names there are.  Once a put has    *)
(* read its artifact back, no put in progress has a name there of its own, *)
(* so none takes it away.                                                  *)
(***************************************************************************)
EXTENDS AsfEvidence, SequenceTheorems, TLAPS

-----------------------------------------------------------------------------
(* The invariants                                                          *)

\* What the variables hold.
RunShape ==
  /\ phase \in [Runs -> Phases] /\ gen \in [Runs -> Nat]
  /\ owner \in [Runs -> Hosts \cup {None}]
  /\ history \in [Runs -> Seq(EventTypes)]
  /\ intent \in [Runs -> [seq : Nat, done : BOOLEAN]] /\ sealed \in [Runs -> Nat]
  /\ bundle \in [Runs -> [delivered : Nat, at : Nat]]
  /\ terminal \in [Runs -> [seq : Nat, delivery : [delivered : Nat, at : Nat], at : Nat]]
  /\ acked \in [Runs -> BOOLEAN] /\ compacted \in [Runs -> BOOLEAN]

CasShape ==
  /\ body \in [Digests -> 0 .. 2] /\ meta \in [Digests -> 0 .. 2]
  /\ expired \in [Digests -> BOOLEAN]
  /\ overlapped \in [Digests -> BOOLEAN] /\ torn \in [Digests -> BOOLEAN]

Worker == [pc : Pcs, run : Runs \cup {0}, gen : Nat, body : BOOLEAN, meta : BOOLEAN,
           pending : BOOLEAN]

WorkerShape ==
  /\ worker \in [Hosts -> Worker]
  /\ \A h \in Hosts : worker[h].pc # "idle" => worker[h].run \in Runs

Shape == RunShape /\ CasShape /\ WorkerShape

\* A run is delivered once, before anything else happens to it.
History(r) ==
  /\ Version(r) >= 2
  /\ \A n \in 1 .. Version(r) : history[r][n] = "pr.delivered" <=> n = 2
  /\ history[r][1] = "ci.revalidated"

\* The records of a run: what each of them says of the others.
Records(r) ==
  /\ bundle[r] # NoBundle =>
       bundle[r] = [delivered |-> 2, at |-> intent[r].seq] /\ intent[r].seq > 0
  /\ sealed[r] > 0 => phase[r] \in {"EVIDENCE_FINALIZED", "COMPLETED"}
  /\ phase[r] = "COMPLETED" \/ terminal[r] # NoTerminal => sealed[r] > 0
  /\ DeliveryView(r) /\ TerminalView(r)
  /\ acked[r] => phase[r] = "COMPLETED"
  /\ compacted[r] => acked[r] /\ owner[r] = None

\* What a worker has in hand, stale or not.
Attempting == {"facts", "verify", "record"} \cup InPut
Finalizing == Attempting \cup {"intent", "confirm", "advance"}
Hand(h) ==
  /\ worker[h].pc \in Attempting => intent[R(h)].seq > 0
  /\ worker[h].pc \in {"confirm", "advance"} => bundle[R(h)] # NoBundle
  /\ worker[h].pc \in {"pending", "sign terminal", "terminate", "finish", "ensure"}
    => sealed[R(h)] > 0

\* What the owner knows of its run.
Knows(h) ==
  /\ worker[h].pc \in Finalizing => phase[R(h)] = "PR_DELIVERED"
  /\ worker[h].pc = "seal" => phase[R(h)] = "EVIDENCE_FINALIZED"

\* The records, the workers and what the owners know, all of it together.
EvidenceInv ==
  /\ Shape
  /\ \A r \in Runs : History(r) /\ Records(r)
  /\ \A h \in Hosts : Hand(h) /\ (worker[h].pc # "idle" /\ Fence(h) => Knows(h))

\* The host that puts the bytes d, and the names it has installed so far.
Putting(h, d) == worker[h].pc \in InPut /\ D(h) = d
Installed(h) ==
  /\ worker[h].pc \in {"intent", "facts", "link body"} => ~worker[h].body
  /\ worker[h].pc \in {"intent", "facts", "link body", "drop body", "check body",
                       "link meta"} => ~worker[h].meta

\* Between two of its steps a put has left these names.
Names(h, d) ==
  CASE worker[h].pc = "link body" -> body[d] \in {0, 1} /\ meta[d] \in {0, 1}
    [] worker[h].pc = "drop body" ->
         body[d] = (IF worker[h].body THEN 2 ELSE 1) /\ meta[d] \in {0, 1}
    [] worker[h].pc = "drop meta" -> body[d] = 1 /\ meta[d] = (IF worker[h].meta THEN 2 ELSE 1)
    [] worker[h].pc \in {"check body", "link meta"} -> body[d] = 1 /\ meta[d] \in {0, 1}
    [] OTHER -> body[d] = 1 /\ meta[d] = 1

\* Complete, and no put would take it back.
Kept(d) ==
  /\ body[d] = 1 /\ meta[d] = 1
  /\ \A h \in Hosts : Putting(h, d) => ~worker[h].body /\ ~worker[h].meta

\* Puts of the same bytes that neither overlap nor are torn.
Stored(d) ==
  /\ \A h, k \in Hosts : Putting(h, d) /\ Putting(k, d) => h = k
  /\ \A h \in Hosts : Putting(h, d) => Names(h, d)
  /\ (\A h \in Hosts : ~Putting(h, d)) => body[d] \in {0, 1} /\ meta[d] \in {0, 1}
  /\ \A h \in Hosts : worker[h].pc \in {"verify", "record"} /\ D(h) = d => Kept(d)
  /\ \A r \in Runs : bundle[r] # NoBundle /\ Digest(r) = d => Kept(d)

\* The names a worker has installed, and the files nobody disturbed.
StoreInv ==
  /\ \A h \in Hosts : Installed(h)
  /\ \A d \in Digests : ~overlapped[d] /\ ~torn[d] => Stored(d)
-----------------------------------------------------------------------------
(* The records *)

\* The invariant holds of runs that were just delivered, with no records.
LEMMA EvidenceInit == Init => EvidenceInv
<1> SUFFICES ASSUME Init PROVE EvidenceInv  OBVIOUS
<1>1. history \in [Runs -> Seq(EventTypes)] /\ \A r \in Runs : Len(history[r]) = 2
  BY DEF Init, EventTypes
<1>2. Shape
  BY <1>1 DEF Init, Shape, RunShape, CasShape, WorkerShape, Worker, Phases, NoIntent, NoBundle,
     NoTerminal, Idle, Pcs, None
<1>3. ASSUME NEW r \in Runs PROVE History(r) /\ Records(r)
  <2>1. History(r)  BY <1>1 DEF Init, History, Version
  <2>2. Records(r)
    BY DEF Init, Records, DeliveryView, TerminalView, NoIntent, NoBundle, NoTerminal
  <2> QED BY <2>1, <2>2
<1>4. \A h \in Hosts : worker[h].pc = "idle"  BY DEF Init, Idle
<1> QED BY <1>2, <1>3, <1>4 DEF EvidenceInv, Hand, Attempting, InPut

\* An event (transitionAsfRun): it changes the phase and the history of one run,
\* and leaves every earlier event where it was.
LEMMA Events ==
  ASSUME RunShape, NEW r \in Runs, NEW type \in EventTypes, NEW to \in Phases,
         Event(r, type, to)
  PROVE  /\ phase' \in [Runs -> Phases] /\ history' \in [Runs -> Seq(EventTypes)]
         /\ phase'[r] = to /\ Version(r)' = Version(r) + 1
         /\ \A k \in Runs \ {r} : phase'[k] = phase[k] /\ history'[k] = history[k]
         /\ type # "pr.delivered" => (History(r) => History(r)')
<1>1. history[r] \in Seq(EventTypes)  BY DEF RunShape
<1>2. history'[r] = Append(history[r], type)  BY DEF RunShape, Event
<1>3. /\ Len(history'[r]) = Len(history[r]) + 1 /\ history'[r] \in Seq(EventTypes)
      /\ \A n \in 1 .. Len(history[r]) : history'[r][n] = history[r][n]
      /\ history'[r][Len(history[r]) + 1] = type
  BY <1>1, <1>2
<1>4. history' \in [Runs -> Seq(EventTypes)]  BY <1>3 DEF RunShape, Event
<1>5. ASSUME type # "pr.delivered", History(r) PROVE History(r)'
  <2>1. Len(history[r]) \in Nat  BY <1>1
  <2>2. Version(r)' = Version(r) + 1 /\ Version(r) \in Nat /\ Version(r) >= 2
    BY <2>1, <1>3, <1>5 DEF History, Version
  <2>3. ASSUME NEW n \in 1 .. Version(r)' PROVE history'[r][n] = "pr.delivered" <=> n = 2
    <3>1. CASE n \in 1 .. Version(r)  BY <3>1, <1>3, <1>5 DEF History, Version
    <3>2. CASE n = Version(r) + 1  BY <3>2, <2>2, <1>3, <1>5 DEF Version
    <3> QED BY <2>2, <3>1, <3>2
  <2>4. history'[r][1] = "ci.revalidated"  BY <1>3, <1>5, <2>2 DEF History, Version
  <2> QED BY <2>2, <2>3, <2>4 DEF History
<1> QED BY <1>3, <1>4, <1>5 DEF RunShape, Event, Version

\* Every step of a worker is of a run it has in hand.
LEMMA InHand ==
  ASSUME Shape, NEW h \in Hosts, Step(h)
  PROVE  worker[h].pc # "idle" /\ R(h) \in Runs /\ D(h) \in Digests
<1>1. worker[h].pc # "idle"
  BY DEF Step, Put, Intend, Facts, LinkBody, DropBody, CheckBody, LinkMeta, DropMeta,
     CheckMeta, Undo, ReadBack, Verify, Record, Confirm, Advance, Seal, Pending, SignTerminal,
     Terminate, FinishPending, Ensure, Release, Fail
<1> QED BY <1>1 DEF Shape, WorkerShape, R, D, Digests

\* The delivery event is the second of any history.
LEMMA DeliveredSecond ==
  ASSUME NEW r \in Runs, RunShape, History(r)
  PROVE  Delivered(r) = 2
<1>1. Version(r) \in Nat /\ Version(r) >= 2  BY DEF RunShape, History, Version
<1>2. 2 \in 2 .. Version(r) /\ history[r][2] = "pr.delivered"
        /\ history[r][2 - 1] = "ci.revalidated"
  BY <1>1 DEF History
<1>3. \A n \in 2 .. Version(r) : history[r][n] = "pr.delivered" => n = 2
  BY <1>1 DEF History
<1> QED BY <1>2, <1>3 DEF Delivered

\* What a run has on record.
LEMMA Fields ==
  ASSUME RunShape, NEW r \in Runs
  PROVE  /\ Version(r) \in Nat /\ gen[r] \in Nat /\ sealed[r] \in Nat
         /\ intent[r] \in [seq : Nat, done : BOOLEAN]
         /\ bundle[r] \in [delivered : Nat, at : Nat]
         /\ terminal[r] \in [seq : Nat, delivery : [delivered : Nat, at : Nat], at : Nat]
BY DEF RunShape, Version

\* The types of the variables.
LEMMA RunShapeStep == Shape /\ (\A r \in Runs : History(r)) /\ Next => RunShape'
<1> SUFFICES ASSUME Shape, \A r \in Runs : History(r), Next PROVE RunShape'  OBVIOUS
<1>0. /\ {"run.blocked_external", "run.resumed", "evidence.finalized",
          "run.completed"} \subseteq EventTypes
      /\ {"PR_DELIVERED", "BLOCKED_EXTERNAL", "EVIDENCE_FINALIZED", "COMPLETED"}
           \subseteq Phases
  BY DEF EventTypes, Phases
<1>a. RunShape  BY DEF Shape
<1>1. ASSUME NEW h \in Hosts, Start(h) \/ Crash(h) \/ Error(h) PROVE RunShape'
  BY <1>1, <1>a DEF Start, Crash, Error, runVars, outcomeVars, RunShape
<1>2. ASSUME NEW h \in Hosts, NEW r \in Runs, Claim(h, r) PROVE RunShape'
  <2>1. gen' \in [Runs -> Nat] /\ owner' \in [Runs -> Hosts \cup {None}]
    <3>1. gen' = [gen EXCEPT ![r] = @ + 1] /\ owner' = [owner EXCEPT ![r] = h]
      BY <1>2 DEF Claim
    <3>2. gen[r] + 1 \in Nat  BY <1>a, Fields
    <3> QED BY <1>a, <3>1, <3>2 DEF RunShape
  <2> QED BY <1>2, <1>a, <2>1 DEF Claim, outcomeVars, RunShape
<1>3. ASSUME NEW h \in Hosts, NEW r \in Runs, Acknowledge(h, r) \/ Fire(h, r) PROVE RunShape'
  <2>1. acked' \in [Runs -> BOOLEAN] /\ compacted' \in [Runs -> BOOLEAN]
    BY <1>3, <1>a DEF Acknowledge, Fire, RunShape
  <2> QED BY <1>3, <1>a, <2>1 DEF Acknowledge, Fire, runVars, RunShape
<1>4. ASSUME NEW r \in Runs, Reconcile(r) PROVE RunShape'
  <2>1. phase' \in [Runs -> Phases] /\ history' \in [Runs -> Seq(EventTypes)]
    BY <1>0, <1>a, <1>4, Events DEF Reconcile
  <2>2. intent' \in [Runs -> [seq : Nat, done : BOOLEAN]]
    <3> DEFINE done == bundle[r] # NoBundle
    <3>1. intent' = [intent EXCEPT ![r].done = done]  BY <1>4 DEF Reconcile
    <3>2. intent[r] \in [seq : Nat, done : BOOLEAN] /\ done \in BOOLEAN  BY <1>a, Fields
    <3> HIDE DEF done
    <3>3. [intent[r] EXCEPT !.done = done] \in [seq : Nat, done : BOOLEAN]  BY <3>2
    <3>4. intent' = [intent EXCEPT ![r] = [intent[r] EXCEPT !.done = done]]  BY <3>1
    <3> QED BY <1>a, <3>3, <3>4 DEF RunShape
  <2> QED BY <1>4, <1>a, <2>1, <2>2 DEF Reconcile, outcomeVars, RunShape
<1>5. ASSUME NEW r \in Runs, Age(r) PROVE RunShape'
  BY <1>5, <1>a DEF Age, runVars, RunShape
<1>6. ASSUME NEW d \in Digests, Expire(d) PROVE RunShape'
  BY <1>6, <1>a DEF Expire, runVars, outcomeVars, RunShape
<1>7. ASSUME NEW h \in Hosts, Step(h) PROVE RunShape'
  <2>1. R(h) \in Runs  BY <1>7, InHand
  <2>a. Version(R(h)) \in Nat /\ gen[R(h)] \in Nat /\ sealed[R(h)] \in Nat
    BY <2>1, <1>a, Fields
  <2>2. CASE Put(h) \/ Facts(h) \/ Verify(h) \/ Pending(h) \/ Ensure(h)
    BY <1>a, <2>2 DEF Put, LinkBody, DropBody, CheckBody, LinkMeta, DropMeta, CheckMeta, Undo,
       ReadBack, Facts, Verify, Pending, Ensure, runVars, outcomeVars, RunShape
  <2>3. CASE Intend(h) \/ Confirm(h)
    <3>1. \/ intent' = intent \/ intent' = [intent EXCEPT ![R(h)].done = TRUE]
          \/ intent' = [intent EXCEPT ![R(h)] = [seq |-> Version(R(h)), done |-> FALSE]]
      BY <2>3 DEF Intend, Confirm
    <3>2. intent[R(h)] \in [seq : Nat, done : BOOLEAN]  BY <1>a, <2>1, Fields
    <3>3. /\ [intent[R(h)] EXCEPT !.done = TRUE] \in [seq : Nat, done : BOOLEAN]
          /\ [seq |-> Version(R(h)), done |-> FALSE] \in [seq : Nat, done : BOOLEAN]
      BY <2>a, <3>2
    <3>4. intent' \in [Runs -> [seq : Nat, done : BOOLEAN]]
      BY <1>a, <2>1, <3>1, <3>3 DEF RunShape
    <3> QED BY <1>a, <2>3, <3>4 DEF Intend, Confirm, outcomeVars, RunShape
  <2>4. CASE Seal(h)
    <3>1. Version(R(h)) + gen[R(h)] \in Nat  BY <2>a
    <3>2. sealed' \in [Runs -> Nat]  BY <1>a, <2>1, <2>4, <3>1 DEF Seal, RunShape
    <3> QED BY <1>a, <2>4, <3>2 DEF Seal, outcomeVars, RunShape
  <2>5. CASE Record(h)
    <3>1. Delivered(R(h)) = 2  BY <1>a, <2>1, DeliveredSecond
    <3>2. intent[R(h)].seq \in Nat  BY <1>a, <2>1, Fields
    <3>3. Signed(h) \in [delivered : Nat, at : Nat]  BY <3>1, <3>2 DEF Signed, Statement
    <3>4. bundle' = bundle \/ bundle' = [bundle EXCEPT ![R(h)] = Signed(h)]
      BY <2>5 DEF Record
    <3>5. bundle' \in [Runs -> [delivered : Nat, at : Nat]]
      BY <1>a, <2>1, <3>3, <3>4 DEF RunShape
    <3> QED BY <1>a, <2>5, <3>5 DEF Record, outcomeVars, RunShape
  <2>6. CASE SignTerminal(h)
    <3>1. /\ terminal[R(h)] \in [seq : Nat, delivery : [delivered : Nat, at : Nat], at : Nat]
          /\ bundle[R(h)] \in [delivered : Nat, at : Nat]
      BY <1>a, <2>1, Fields
    <3>2. RecordedTerminal(R(h)) \in [seq : Nat, delivery : [delivered : Nat, at : Nat],
          at : Nat]
      BY <3>1, <2>a DEF RecordedTerminal, TerminalStatement
    <3>3. terminal' \in [Runs -> [seq : Nat, delivery : [delivered : Nat, at : Nat], at : Nat]]
      BY <1>a, <2>1, <2>6, <3>2 DEF SignTerminal, RunShape
    <3> QED BY <1>a, <2>6, <3>3 DEF SignTerminal, outcomeVars, RunShape
  <2>7. CASE Advance(h) \/ Terminate(h) \/ FinishPending(h)
    <3>1. phase' \in [Runs -> Phases] /\ history' \in [Runs -> Seq(EventTypes)]
      BY <1>0, <1>a, <2>1, <2>7, Events DEF Advance, Terminate, FinishPending, RunShape
    <3> QED BY <1>a, <2>7, <3>1 DEF Advance, Terminate, FinishPending, outcomeVars, RunShape
  <2>8. CASE Release(h) \/ Fail(h)
    <3>1. phase' \in [Runs -> Phases] /\ history' \in [Runs -> Seq(EventTypes)]
      BY <1>0, <1>a, <2>1, <2>8, Events DEF Release, Fail, RunShape
    <3>2. owner' \in [Runs -> Hosts \cup {None}]
      BY <1>a, <2>1, <2>8 DEF Release, Fail, RunShape
    <3> QED BY <1>a, <2>8, <3>1, <3>2 DEF Release, Fail, outcomeVars, RunShape
  <2> QED BY <1>7, <2>2, <2>3, <2>4, <2>5, <2>6, <2>7, <2>8 DEF Step
<1> QED BY <1>1, <1>2, <1>3, <1>4, <1>5, <1>6, <1>7 DEF Next

\* A worker moves on, with what it has installed, or is done.
LEMMA WorkerMoves ==
  ASSUME WorkerShape, NEW h \in Hosts, NEW pc \in Pcs, NEW b \in BOOLEAN,
         worker[h].pc # "idle" \/ pc = "idle",
         \/ worker' = [worker EXCEPT ![h] = Idle] \/ Go(h, pc)
         \/ worker' = [worker EXCEPT ![h].pc = pc, ![h].body = b]
         \/ worker' = [worker EXCEPT ![h].pc = pc, ![h].meta = b]
  PROVE  WorkerShape'
<1>1. Idle \in Worker  BY DEF Idle, Pcs, Worker
<1>2. worker \in [Hosts -> Worker] /\ worker[h] \in Worker  BY DEF WorkerShape
<1>3. PICK w \in Worker : worker' = [worker EXCEPT ![h] = w]
        /\ (w = Idle \/ (w.pc = pc /\ w.run = worker[h].run))
  <2>1. CASE worker' = [worker EXCEPT ![h] = Idle]  BY <1>1, <2>1
  <2>2. CASE Go(h, pc)
    <3>1. [worker[h] EXCEPT !.pc = pc] \in Worker  BY <1>2 DEF Worker
    <3>2. [worker[h] EXCEPT !.pc = pc].pc = pc
            /\ [worker[h] EXCEPT !.pc = pc].run = worker[h].run
      BY <1>2 DEF Worker
    <3> QED BY <2>2, <3>1, <3>2 DEF Go
  <2>3. CASE worker' = [worker EXCEPT ![h].pc = pc, ![h].body = b]
    <3> DEFINE w == [worker[h] EXCEPT !.pc = pc, !.body = b]
    <3>1. w \in Worker /\ w.pc = pc /\ w.run = worker[h].run  BY <1>2 DEF Worker
    <3>2. worker' = [worker EXCEPT ![h] = w]  BY <1>2, <2>3
    <3> QED BY <3>1, <3>2
  <2>4. CASE worker' = [worker EXCEPT ![h].pc = pc, ![h].meta = b]
    <3> DEFINE w == [worker[h] EXCEPT !.pc = pc, !.meta = b]
    <3>1. w \in Worker /\ w.pc = pc /\ w.run = worker[h].run  BY <1>2 DEF Worker
    <3>2. worker' = [worker EXCEPT ![h] = w]  BY <1>2, <2>4
    <3> QED BY <3>1, <3>2
  <2> QED BY <2>1, <2>2, <2>3, <2>4
<1> QED BY <1>2, <1>3 DEF WorkerShape, Idle

\* A claim, and what it leaves in the hand of the host.
LEMMA Claims ==
  ASSUME Shape, NEW h \in Hosts, NEW r \in Runs, Claim(h, r)
  PROVE  \E w \in Worker :
           /\ worker' = [worker EXCEPT ![h] = w]
           /\ w.run = r /\ w.gen = gen[r] + 1 /\ ~w.body /\ ~w.meta
           /\ w.pc = IF sealed[r] > 0 THEN "pending"
                     ELSE IF phase[r] = "PR_DELIVERED" THEN "intent" ELSE "seal"
<1> DEFINE pc == IF sealed[r] > 0 THEN "pending"
      ELSE IF phase[r] = "PR_DELIVERED" THEN "intent" ELSE "seal"
           p == sealed[r] > 0
           g == gen[r] + 1
           w == [Idle EXCEPT !.pc = pc, !.run = r, !.gen = g, !.pending = p]
<1>1. g \in Nat  BY DEF Shape, RunShape
<1>2. pc \in Pcs /\ p \in BOOLEAN  BY DEF Pcs
<1>3. worker' = [worker EXCEPT ![h] = w]  BY DEF Claim
<1>4. w \in Worker /\ ~w.body /\ ~w.meta /\ w.pc = pc /\ w.run = r /\ w.gen = g
  <2> HIDE DEF pc, p, g
  <2>1. Idle \in Worker  BY DEF Idle, Worker, Pcs
  <2>2. ~Idle.body /\ ~Idle.meta  BY DEF Idle
  <2>3. PICK i \in Worker : i = Idle  BY <2>1
  <2>4. w = [i EXCEPT !.pc = pc, !.run = r, !.gen = g, !.pending = p] /\ ~i.body /\ ~i.meta
    BY <2>2, <2>3
  <2> HIDE DEF w
  <2> QED BY <1>1, <1>2, <2>4 DEF Worker
<1> HIDE DEF w
<1> QED BY <1>3, <1>4

\* The types of the store of artifacts and of the workers.
LEMMA OtherShapesStep == Shape /\ Next => CasShape' /\ WorkerShape'
<1> SUFFICES ASSUME Shape, Next PROVE CasShape' /\ WorkerShape'  OBVIOUS
<1>a. CasShape /\ WorkerShape  BY DEF Shape
<1>1. ASSUME NEW h \in Hosts, Start(h) \/ Crash(h) \/ Error(h) PROVE CasShape' /\ WorkerShape'
  <2>b. WorkerShape'
    <3>1. CASE UNCHANGED worker  BY <1>a, <3>1 DEF WorkerShape
    <3>2. CASE worker' = [worker EXCEPT ![h] = Idle]
      <4>1. "idle" \in Pcs /\ TRUE \in BOOLEAN  BY DEF Pcs
      <4> QED BY <1>a, <3>2, <4>1, WorkerMoves
    <3>3. CASE Error(h)
      <4>1. "failing" \in Pcs /\ TRUE \in BOOLEAN /\ worker[h].pc # "idle" /\ Go(h, "failing")
        BY <3>3 DEF Pcs, Error
      <4> QED BY <1>a, <4>1, WorkerMoves
    <3> QED BY <1>1, <3>1, <3>2, <3>3 DEF Start, Crash
  <2>2. torn' \in [Digests -> BOOLEAN]  BY <1>1, <1>a DEF Start, Crash, Error, ghosts, CasShape
  <2> QED BY <1>1, <1>a, <2>b, <2>2 DEF Start, Crash, Error, casVars, ghosts, CasShape
<1>2. ASSUME NEW h \in Hosts, NEW r \in Runs, Claim(h, r) PROVE CasShape' /\ WorkerShape'
  <2>1. PICK w \in Worker : worker' = [worker EXCEPT ![h] = w] /\ w.run = r
    BY <1>2, Claims
  <2>2. WorkerShape'  BY <1>a, <2>1 DEF WorkerShape
  <2> QED BY <1>2, <1>a, <2>2 DEF Claim, casVars, ghosts, CasShape
<1>3. ASSUME NEW h \in Hosts, NEW r \in Runs, Acknowledge(h, r) \/ Fire(h, r)
      PROVE  CasShape' /\ WorkerShape'
  BY <1>3, <1>a DEF Acknowledge, Fire, casVars, ghosts, CasShape, WorkerShape
<1>4. ASSUME NEW r \in Runs, Reconcile(r) \/ Age(r) PROVE CasShape' /\ WorkerShape'
  BY <1>4, <1>a DEF Reconcile, Age, casVars, ghosts, CasShape, WorkerShape
<1>5. ASSUME NEW d \in Digests, Expire(d) PROVE CasShape' /\ WorkerShape'
  BY <1>5, <1>a DEF Expire, ghosts, CasShape, WorkerShape
<1>6. ASSUME NEW h \in Hosts, Step(h) PROVE CasShape'
  <2>1. D(h) \in Digests  BY <1>6, InHand
  <2>2. CASE Put(h)
    <3>1. UNCHANGED body \/ body' = [body EXCEPT ![D(h)] = 0]
            \/ body' = [body EXCEPT ![D(h)] = 1]
          \/ body' = [body EXCEPT ![D(h)] = 2]
      BY <2>2, Zenon DEF Put, LinkBody, DropBody, CheckBody, LinkMeta, DropMeta, CheckMeta,
         Undo, ReadBack, casVars
    <3>2. UNCHANGED meta \/ meta' = [meta EXCEPT ![D(h)] = 1]
            \/ meta' = [meta EXCEPT ![D(h)] = 2]
      BY <2>2, Zenon DEF Put, LinkBody, DropBody, CheckBody, LinkMeta, DropMeta, CheckMeta,
         Undo, ReadBack, casVars
    <3>3. UNCHANGED <<expired, overlapped, torn>>
      BY <2>2 DEF Put, LinkBody, DropBody, CheckBody, LinkMeta, DropMeta, CheckMeta, Undo,
         ReadBack, casVars, ghosts
    <3> QED BY <1>a, <2>1, <3>1, <3>2, <3>3 DEF CasShape
  <2>3. CASE Facts(h)  BY <1>a, <2>1, <2>3 DEF Facts, casVars, CasShape
  <2>4. CASE ~Put(h) /\ ~Facts(h)
    BY <1>a, <1>6, <2>4 DEF Step, Intend, Verify, Record, Confirm, Advance, Seal, Pending,
       SignTerminal, Terminate, FinishPending, Ensure, Release, Fail, casVars, ghosts, CasShape
  <2> QED BY <2>2, <2>3, <2>4
<1>7. ASSUME NEW h \in Hosts, Step(h) PROVE WorkerShape'
  <2>1. worker[h].pc # "idle"  BY <1>7, InHand
  <2>2. PICK pc \in Pcs, b \in BOOLEAN :
          \/ worker' = [worker EXCEPT ![h] = Idle] \/ Go(h, pc)
          \/ worker' = [worker EXCEPT ![h].pc = pc, ![h].body = b]
          \/ worker' = [worker EXCEPT ![h].pc = pc, ![h].meta = b]
    BY <1>7 DEF Step, Put, Intend, Facts, LinkBody, DropBody, CheckBody, LinkMeta, DropMeta,
       CheckMeta, Undo, ReadBack, Verify, Record, Confirm, Advance, Seal, Pending,
       SignTerminal, Terminate, FinishPending, Ensure, Release, Fail, Pcs, InPut
  <2> QED BY <1>a, <2>1, <2>2, WorkerMoves
<1> QED BY <1>1, <1>2, <1>3, <1>4, <1>5, <1>6, <1>7 DEF Next

\* What is durable of a run stays: its bundle, its seal, the number of its
\* intent, and its terminal bundle (the store records each of them once).
LEMMA Durable ==
  ASSUME EvidenceInv, Next, NEW r \in Runs
  PROVE  /\ intent[r].seq > 0 => intent'[r].seq = intent[r].seq
         /\ bundle[r] # NoBundle => bundle'[r] = bundle[r]
         /\ sealed[r] > 0 => sealed'[r] = sealed[r]
<1>a. Shape /\ RunShape  BY DEF EvidenceInv, Shape
<1>1. ASSUME NEW h \in Hosts, Start(h) \/ Crash(h) \/ Error(h)
      PROVE  UNCHANGED <<intent, bundle, sealed>>
  BY <1>1 DEF Start, Crash, Error, runVars
<1>2. ASSUME NEW h \in Hosts, NEW k \in Runs, Claim(h, k) \/ Acknowledge(h, k) \/ Fire(h, k)
      PROVE  UNCHANGED <<intent, bundle, sealed>>
  BY <1>2 DEF Claim, Acknowledge, Fire, runVars
<1>3. ASSUME NEW k \in Runs, Reconcile(k)
      PROVE  UNCHANGED <<bundle, sealed>>
               /\ intent' = [intent EXCEPT ![k].done = bundle[k] # NoBundle]
  BY <1>3 DEF Reconcile
<1>4. ASSUME NEW k \in Runs, Age(k) PROVE UNCHANGED <<intent, bundle, sealed>>
  BY <1>4 DEF Age, runVars
<1>5. ASSUME NEW d \in Digests, Expire(d) PROVE UNCHANGED <<intent, bundle, sealed>>
  BY <1>5 DEF Expire, runVars
<1>6. ASSUME NEW h \in Hosts, Step(h), ~Intend(h), ~Confirm(h), ~Seal(h), ~Record(h)
      PROVE  UNCHANGED <<intent, bundle, sealed>>
  BY <1>6 DEF Step, Put, Facts, LinkBody, DropBody, CheckBody, LinkMeta, DropMeta, CheckMeta,
     Undo, ReadBack, Verify, Advance, Pending, SignTerminal, Terminate, FinishPending, Ensure,
     Release, Fail, runVars
<1>7. ASSUME NEW h \in Hosts, Intend(h) \/ Confirm(h)
      PROVE  /\ UNCHANGED <<bundle, sealed>>
             /\ \/ UNCHANGED intent
                \/ intent' = [intent EXCEPT ![R(h)].done = TRUE]
                \/ /\ intent[R(h)].seq = 0
                   /\ intent' = [intent EXCEPT ![R(h)] =
                                      [seq |-> Version(R(h)), done |-> FALSE]]
  <2>1. R(h) \in Runs  BY <1>a, <1>7, InHand DEF Step
  <2>2. intent[R(h)].seq \in Nat  BY <1>a, <2>1, Fields
  <2> QED BY <1>7, <2>2 DEF Intend, Confirm
<1>8. ASSUME NEW h \in Hosts, Seal(h)
      PROVE  UNCHANGED <<intent, bundle>> /\ (sealed[r] > 0 => sealed'[r] = sealed[r])
  BY <1>8, <1>a DEF Seal, RunShape
<1>9. ASSUME NEW h \in Hosts, Record(h)
      PROVE  UNCHANGED <<intent, sealed>> /\ (bundle[r] # NoBundle => bundle'[r] = bundle[r])
  BY <1>9, <1>a DEF Record, RunShape
<1>b. intent[r] \in [seq : Nat, done : BOOLEAN]  BY <1>a, Fields
<1>c. intent[r].seq > 0 => intent'[r].seq = intent[r].seq
  <2>1. CASE UNCHANGED intent  BY <2>1
  <2>2. ASSUME NEW k \in Runs, NEW b, intent' = [intent EXCEPT ![k].done = b]
        PROVE  intent'[r].seq = intent[r].seq
    BY <1>a, <1>b, <2>2 DEF RunShape
  <2>3. ASSUME NEW k \in Runs, NEW w, intent[k].seq = 0, intent' = [intent EXCEPT ![k] = w]
        PROVE  intent[r].seq > 0 => intent'[r].seq = intent[r].seq
    BY <1>a, <1>b, <2>3 DEF RunShape
  <2>4. ASSUME NEW h \in Hosts, Intend(h) \/ Confirm(h) PROVE R(h) \in Runs
    BY <1>a, <2>4, InHand DEF Step
  <2> QED
    BY <1>1, <1>2, <1>3, <1>4, <1>5, <1>6, <1>7, <1>8, <1>9, <2>1, <2>2, <2>3, <2>4 DEF Next
<1> QED BY <1>1, <1>2, <1>3, <1>4, <1>5, <1>6, <1>7, <1>8, <1>9, <1>c DEF Next

\* The steps of the others leave to the owner of a run what it knows of it: the
\* phase moves and a seal appears only behind the fence, and a claim ends the
\* ownership (assertFence, claimAsfRun).
LEMMA Undisturbed ==
  ASSUME EvidenceInv, Next, NEW k \in Hosts, worker[k].pc # "idle", worker'[k] = worker[k],
         Fence(k)'
  PROVE  /\ Fence(k)
         /\ phase[R(k)] \in {"PR_DELIVERED", "EVIDENCE_FINALIZED"} => phase'[R(k)] = phase[R(k)]
<1>a. Shape /\ RunShape /\ WorkerShape  BY DEF EvidenceInv, Shape
<1>b. R(k) \in Runs /\ R(k)' = R(k) /\ worker[k] \in Worker  BY <1>a DEF WorkerShape, R
<1>1. ASSUME NEW h \in Hosts, Start(h) \/ Crash(h) \/ Error(h)
      PROVE  UNCHANGED <<phase, gen, owner>>
  BY <1>1 DEF Start, Crash, Error, runVars
<1>2. ASSUME NEW h \in Hosts, NEW r \in Runs, Acknowledge(h, r) \/ Fire(h, r)
      PROVE  UNCHANGED <<phase, gen, owner>>
  BY <1>2 DEF Acknowledge, Fire, runVars
<1>3. ASSUME NEW h \in Hosts, NEW r \in Runs, Claim(h, r)
      PROVE  UNCHANGED phase /\ Fence(k)
  <2>1. h # k  BY <1>3, <1>a DEF Claim, WorkerShape, Idle
  <2>2. UNCHANGED phase /\ owner' = [owner EXCEPT ![r] = h] /\ gen' = [gen EXCEPT ![r] = @ + 1]
    BY <1>3 DEF Claim
  <2> QED BY <2>1, <2>2, <1>a, <1>b DEF Fence, RunShape
<1>4. ASSUME NEW r \in Runs, Reconcile(r)
      PROVE  UNCHANGED <<gen, owner>> /\ phase[r] = "BLOCKED_EXTERNAL"
               /\ (r # R(k) => phase'[R(k)] = phase[R(k)])
  BY <1>4, <1>a, <1>b DEF Reconcile, Event, RunShape
<1>5. ASSUME NEW r \in Runs, Age(r) PROVE UNCHANGED <<phase, gen, owner>>
  BY <1>5 DEF Age, runVars
<1>6. ASSUME NEW d \in Digests, Expire(d) PROVE UNCHANGED <<phase, gen, owner>>
  BY <1>6 DEF Expire, runVars
<1>7. ASSUME NEW h \in Hosts, Step(h), ~Advance(h), ~Terminate(h), ~FinishPending(h),
             ~Release(h), ~Fail(h)
      PROVE  UNCHANGED <<phase, gen, owner>>
  BY <1>7 DEF Step, Put, Facts, LinkBody, DropBody, CheckBody, LinkMeta, DropMeta, CheckMeta,
     Undo, ReadBack, Verify, Intend, Confirm, Seal, Record, Pending, SignTerminal, Ensure,
     runVars
<1>8. ASSUME NEW h \in Hosts, Advance(h) \/ Terminate(h) \/ FinishPending(h) \/ Release(h)
        \/ Fail(h)
      PROVE  Fence(k) /\ phase'[R(k)] = phase[R(k)]
  <2>1. R(h) \in Runs  BY <1>8, <1>a, InHand DEF Step
  <2>2. worker' = [worker EXCEPT ![h] = Idle] \/ \E pc \in Pcs \ {worker[h].pc} : Go(h, pc)
    BY <1>8 DEF Advance, Terminate, FinishPending, Release, Fail, Pcs, InPut
  <2>3. worker'[h] # worker[h]
    <3>1. worker[h] \in Worker /\ worker[h].pc # "idle"
      BY <1>8, <1>a, InHand DEF Step, WorkerShape
    <3> QED BY <2>2, <3>1, <1>a DEF Go, Idle, WorkerShape, Worker
  <2>4. h # k  BY <2>3
  <2>5. UNCHANGED gen /\ (UNCHANGED owner \/ owner' = [owner EXCEPT ![R(h)] = None])
    BY <1>8 DEF Advance, Terminate, FinishPending, Release, Fail
  <2>6. None \notin Hosts  BY AsfEvidenceAssumption
  <2>7. (UNCHANGED phase \/ Fence(h)) /\ \A r \in Runs \ {R(h)} : phase'[r] = phase[r]
    BY <1>8, <1>a, <2>1 DEF Advance, Terminate, FinishPending, Release, Fail, Event, RunShape,
       runVars
  <2>8. owner'[R(k)] = k  BY <1>b DEF Fence
  <2> QED BY <2>1, <2>4, <2>5, <2>6, <2>7, <2>8, <1>a, <1>b DEF Fence, RunShape
<1> QED BY <1>b, <1>1, <1>2, <1>3, <1>4, <1>5, <1>6, <1>7, <1>8 DEF Next, Fence

\* The steps of a worker: it goes on, with the names it has installed, or is done.
LEMMA Goes ==
  ASSUME WorkerShape, NEW h \in Hosts, NEW pc \in Pcs, Go(h, pc)
  PROVE  /\ worker'[h].pc = pc /\ worker'[h].run = worker[h].run
           /\ worker'[h].gen = worker[h].gen
         /\ worker'[h].body = worker[h].body /\ worker'[h].meta = worker[h].meta
         /\ \A k \in Hosts \ {h} : worker'[k] = worker[k]
<1>1. worker[h] \in Worker  BY DEF WorkerShape
<1>2. worker'[h] = [worker[h] EXCEPT !.pc = pc] /\ \A k \in Hosts \ {h} : worker'[k] = worker[k]
  BY DEF WorkerShape, Go
<1> QED BY <1>1, <1>2 DEF Worker

\* A step that links a file: the worker goes on, and notes whether the name is
\* its own (#installNoOverwrite).
LEMMA Links ==
  ASSUME WorkerShape, NEW h \in Hosts, LinkBody(h) \/ LinkMeta(h)
  PROVE  /\ worker'[h].run = worker[h].run /\ worker'[h].gen = worker[h].gen
         /\ LinkBody(h) => /\ worker'[h].pc = "drop body" /\ worker'[h].meta = worker[h].meta
                           /\ worker'[h].body <=> body[D(h)] = 0
         /\ LinkMeta(h) => /\ worker'[h].pc = "drop meta" /\ worker'[h].body = worker[h].body
                           /\ worker'[h].meta <=> meta[D(h)] = 0
         /\ \A k \in Hosts \ {h} : worker'[k] = worker[k]
<1>1. worker[h] \in Worker  BY DEF WorkerShape
<1>2. ASSUME LinkBody(h)
      PROVE  /\ worker'[h] = [worker[h] EXCEPT !.pc = "drop body", !.body = body[D(h)] = 0]
             /\ \A k \in Hosts \ {h} : worker'[k] = worker[k]
  BY <1>2 DEF WorkerShape, LinkBody
<1>3. ASSUME LinkMeta(h)
      PROVE  /\ worker'[h] = [worker[h] EXCEPT !.pc = "drop meta", !.meta = meta[D(h)] = 0]
             /\ \A k \in Hosts \ {h} : worker'[k] = worker[k]
  BY <1>3 DEF WorkerShape, LinkMeta
<1>4. LinkBody(h) => ~LinkMeta(h)  BY DEF LinkBody, LinkMeta
<1> QED BY <1>1, <1>2, <1>3, <1>4 DEF Worker

\* Only the host that takes a step has a worker that moves.
LEMMA Movers ==
  ASSUME Shape, Next, NEW k \in Hosts, worker'[k] # worker[k]
  PROVE  Crash(k) \/ Error(k) \/ Step(k) \/ \E r \in Runs : Claim(k, r)
<1>a. WorkerShape  BY DEF Shape
<1>1. ASSUME NEW h \in Hosts, Start(h) \/ Crash(h) \/ Error(h)
      PROVE  k = h /\ (Crash(h) \/ Error(h))
  BY <1>1, <1>a DEF Start, Crash, Error, Go, WorkerShape
<1>2. ASSUME NEW h \in Hosts, Step(h) PROVE k = h
  <2>1. \/ worker' = [worker EXCEPT ![h] = Idle] \/ \E pc \in Pcs : Go(h, pc)
        \/ \E b : worker' = [worker EXCEPT ![h].pc = "drop body", ![h].body = b]
        \/ \E b : worker' = [worker EXCEPT ![h].pc = "drop meta", ![h].meta = b]
    BY <1>2 DEF Step, Put, Intend, Facts, LinkBody, DropBody, CheckBody, LinkMeta, DropMeta,
       CheckMeta, Undo, ReadBack, Verify, Record, Confirm, Advance, Seal, Pending,
       SignTerminal, Terminate, FinishPending, Ensure, Release, Fail, Pcs, InPut
  <2> QED BY <2>1, <1>a DEF Go, WorkerShape
<1>3. ASSUME NEW h \in Hosts, NEW r \in Runs, Claim(h, r) PROVE k = h
  BY <1>3, <1>a DEF Claim, WorkerShape
<1>4. ASSUME NEW h \in Hosts, NEW r \in Runs, Acknowledge(h, r) \/ Fire(h, r) PROVE FALSE
  BY <1>4 DEF Acknowledge, Fire
<1>5. ASSUME NEW r \in Runs, Reconcile(r) \/ Age(r) PROVE FALSE
  BY <1>5 DEF Reconcile, Age
<1>6. ASSUME NEW d \in Digests, Expire(d) PROVE FALSE
  BY <1>6 DEF Expire
<1> QED BY <1>1, <1>2, <1>3, <1>4, <1>5, <1>6 DEF Next

\* What the workers have in hand.
LEMMA HandsStep ==
  ASSUME EvidenceInv, Next, NEW k \in Hosts
  PROVE  Hand(k)' /\ (worker'[k].pc # "idle" /\ Fence(k)' => Knows(k)')
<1> DEFINE Goal == Hand(k)' /\ (worker'[k].pc # "idle" /\ Fence(k)' => Knows(k)')
<1>a. Shape /\ RunShape /\ WorkerShape /\ RunShape' /\ WorkerShape'
  BY RunShapeStep, OtherShapesStep DEF EvidenceInv, Shape
<1>b. Hand(k) /\ (worker[k].pc # "idle" /\ Fence(k) => Knows(k))  BY DEF EvidenceInv
<1>c. \A h \in Hosts : worker[h] \in Worker  BY <1>a DEF WorkerShape
<1>1. CASE worker'[k].pc = "idle"
  BY <1>1 DEF Hand, Attempting, InPut
<1>2. CASE worker'[k].pc # "idle" /\ worker'[k] = worker[k]
  <2>1. R(k) \in Runs /\ R(k)' = R(k)  BY <1>2, <1>a DEF WorkerShape, R
  <2>2. Hand(k)'
    <3>1. /\ intent[R(k)].seq > 0 => intent'[R(k)].seq = intent[R(k)].seq
          /\ bundle[R(k)] # NoBundle => bundle'[R(k)] = bundle[R(k)]
          /\ sealed[R(k)] > 0 => sealed'[R(k)] = sealed[R(k)]
      BY <2>1, Durable
    <3> QED BY <1>2, <1>b, <2>1, <3>1 DEF Hand
  <2>3. ASSUME Fence(k)' PROVE Knows(k)'
    <3>1. Fence(k) /\ (phase[R(k)] \in {"PR_DELIVERED", "EVIDENCE_FINALIZED"}
                          => phase'[R(k)] = phase[R(k)])
      BY <1>2, <2>3, Undisturbed
    <3> QED BY <1>2, <1>b, <2>1, <3>1 DEF Knows
  <2> QED BY <2>2, <2>3
<1>3. ASSUME worker'[k].pc # "idle", worker'[k] # worker[k]
      PROVE  Goal
  <2>1. ASSUME NEW r \in Runs, Claim(k, r) PROVE Goal
    <3>1. PICK w \in Worker :
            /\ worker' = [worker EXCEPT ![k] = w] /\ w.run = r
            /\ w.pc = IF sealed[r] > 0 THEN "pending"
                      ELSE IF phase[r] = "PR_DELIVERED" THEN "intent" ELSE "seal"
      BY <1>a, <2>1, Claims
    <3>2. worker'[k] = w /\ R(k)' = r  BY <1>a, <3>1 DEF WorkerShape, R
    <3>3. UNCHANGED <<phase, intent, bundle, sealed>>
            /\ phase[r] \in {"PR_DELIVERED", "EVIDENCE_FINALIZED"}
      BY <2>1 DEF Claim
    <3> QED BY <3>1, <3>2, <3>3 DEF Hand, Knows, Attempting, Finalizing, InPut
  <2>2. ASSUME Error(k) PROVE Goal
    <3>1. worker'[k].pc = "failing"  BY <1>a, <2>2 DEF Error, Go, WorkerShape, Worker
    <3> QED BY <3>1 DEF Hand, Knows, Attempting, Finalizing, InPut
  <2>3. ASSUME Step(k) PROVE Goal
    <3>1. worker[k].pc # "idle" /\ R(k) \in Runs  BY <1>a, <2>3, InHand
    <3>a. ASSUME Go(k, "failing") PROVE Goal
      <4>1. worker'[k].pc = "failing"
        <5>1. "failing" \in Pcs  BY DEF Pcs
        <5> QED BY <1>a, <3>a, <5>1, Goes
      <4> QED BY <4>1 DEF Hand, Knows, Attempting, Finalizing, InPut
    <3> USE <1>a, <1>b, <3>1 DEF Attempting, Finalizing, InPut, Pcs
    <3>2. CASE worker'[k] = Idle  BY <1>3, <3>2 DEF Idle
    <3>3. CASE Intend(k)
      <4>1. CASE Go(k, "failing")  BY <3>a, <4>1
      <4>2. CASE Fence(k) /\ Go(k, "facts") /\ intent' = IF intent[R(k)].seq > 0 THEN intent
                       ELSE [intent EXCEPT ![R(k)] = [seq |-> Version(R(k)), done |-> FALSE]]
        <5>1. worker'[k].pc = "facts" /\ R(k)' = R(k)  BY <4>2, Goes DEF R
        <5>2. intent'[R(k)].seq > 0
          <6>1. Version(R(k)) \in Nat /\ Version(R(k)) >= 2 /\ intent[R(k)].seq \in Nat
            BY Fields DEF EvidenceInv, History
          <6> QED BY <4>2, <6>1 DEF RunShape
        <5>3. UNCHANGED phase  BY <3>3 DEF Intend
        <5>4. worker[k].pc = "intent"  BY <3>3 DEF Intend
        <5> QED BY <4>2, <5>1, <5>2, <5>3, <5>4 DEF Hand, Knows
      <4> QED BY <3>3, <4>1, <4>2 DEF Intend
    <3>4. CASE Put(k) \/ Facts(k) \/ Verify(k)
      <4>1. UNCHANGED <<phase, intent, owner, gen>>
        BY <3>4 DEF Put, LinkBody, DropBody, CheckBody, LinkMeta, DropMeta, CheckMeta, Undo,
           ReadBack, Facts, Verify, runVars
      <4>2. worker[k].pc \in Attempting
        BY <3>4 DEF Put, LinkBody, DropBody, CheckBody, LinkMeta, DropMeta, CheckMeta, Undo,
           ReadBack, Facts, Verify
      <4>3. LinkBody(k) \/ LinkMeta(k) \/ \E pc \in Attempting \cup {"failing"} : Go(k, pc)
        BY <3>4 DEF Put, LinkBody, DropBody, CheckBody, LinkMeta, DropMeta, CheckMeta, Undo,
           ReadBack, Facts, Verify
      <4>4. worker'[k].pc \in Attempting \cup {"failing"} /\ R(k)' = R(k)
              /\ worker'[k].gen = worker[k].gen
        BY <4>3, Goes, Links DEF R
      <4> QED BY <4>1, <4>2, <4>4 DEF Hand, Knows, Fence
    <3>5. CASE Record(k)
      <4>1. CASE Go(k, "failing")  BY <3>a, <4>1
      <4>2. CASE phase[R(k)] = "PR_DELIVERED" /\ Go(k, "confirm")
                   /\ bundle' = [bundle EXCEPT ![R(k)] = Signed(k)]
        <5>1. worker'[k].pc = "confirm" /\ R(k)' = R(k)  BY <4>2, Goes DEF R
        <5>2. worker[k].pc = "record" /\ UNCHANGED phase  BY <3>5 DEF Record
        <5>3. intent[R(k)].seq > 0  BY <5>2 DEF Hand
        <5>4. Signed(k).at > 0  BY <5>3 DEF Signed
        <5>5. Signed(k) # NoBundle  BY <5>4 DEF NoBundle
        <5>6. bundle'[R(k)] # NoBundle  BY <4>2, <5>5 DEF RunShape
        <5> QED BY <4>2, <5>1, <5>2, <5>6 DEF Hand, Knows
      <4> QED BY <3>5, <4>1, <4>2 DEF Record
    <3>6. CASE Confirm(k)
      <4>1. CASE Go(k, "failing")  BY <3>a, <4>1
      <4>2. CASE Fence(k) /\ Go(k, "advance")
        <5>1. worker'[k].pc = "advance" /\ R(k)' = R(k)  BY <4>2, Goes DEF R
        <5>2. worker[k].pc = "confirm" /\ UNCHANGED <<phase, bundle>>  BY <3>6 DEF Confirm
        <5> QED BY <4>2, <5>1, <5>2 DEF Hand, Knows
      <4> QED BY <3>6, <4>1, <4>2 DEF Confirm
    <3>7. CASE Advance(k)
      <4>1. CASE Go(k, "failing")  BY <3>a, <4>1
      <4>2. CASE Go(k, "seal") /\ Event(R(k), "evidence.finalized", "EVIDENCE_FINALIZED")
        <5>1. worker'[k].pc = "seal" /\ R(k)' = R(k)  BY <4>2, Goes DEF R
        <5>2. phase'[R(k)] = "EVIDENCE_FINALIZED"  BY <4>2 DEF Event, RunShape
        <5> QED BY <5>1, <5>2 DEF Hand, Knows
      <4> QED BY <3>7, <4>1, <4>2 DEF Advance
    <3>8. CASE Seal(k)
      <4>1. CASE Go(k, "failing")  BY <3>a, <4>1
      <4>2. CASE /\ Go(k, "sign terminal")
                 /\ sealed' = IF sealed[R(k)] > 0 THEN sealed
                              ELSE [sealed EXCEPT ![R(k)] = Version(R(k)) + gen[R(k)]]
        <5>1. worker'[k].pc = "sign terminal" /\ R(k)' = R(k)  BY <4>2, Goes DEF R
        <5>2. Version(R(k)) + gen[R(k)] > 0
          <6>1. Version(R(k)) \in Nat /\ Version(R(k)) >= 2 /\ gen[R(k)] \in Nat
            BY Fields DEF EvidenceInv, History
          <6> QED BY <6>1
        <5>3. sealed'[R(k)] > 0  BY <4>2, <5>2 DEF RunShape
        <5> QED BY <5>1, <5>3 DEF Hand, Knows
      <4> QED BY <3>8, <4>1, <4>2 DEF Seal
    <3>9. CASE Pending(k) \/ SignTerminal(k) \/ Terminate(k) \/ FinishPending(k) \/ Ensure(k)
      <4>1. UNCHANGED sealed /\ sealed[R(k)] > 0
        BY <3>9 DEF Pending, SignTerminal, Terminate, FinishPending, Ensure, runVars, Hand
      <4>2. \E pc \in {"sign terminal", "finish", "failing", "terminate", "ensure",
                       "release"} : Go(k, pc)
        BY <3>9 DEF Pending, SignTerminal, Terminate, FinishPending, Ensure
      <4>3. /\ worker'[k].pc \in {"sign terminal", "finish", "failing", "terminate", "ensure",
                                  "release"}
            /\ R(k)' = R(k)
        BY <4>2, Goes DEF R
      <4> QED BY <4>1, <4>3 DEF Hand, Knows
    <3>10. CASE Release(k) \/ Fail(k)
      BY <3>2, <3>10 DEF Release, Fail, WorkerShape
    <3> QED BY <2>3, <3>3, <3>4, <3>5, <3>6, <3>7, <3>8, <3>9, <3>10 DEF Step
  <2>4. ASSUME Crash(k) PROVE FALSE
    BY <1>3, <2>4, <1>a DEF Crash, WorkerShape, Idle
  <2> QED BY <1>a, <1>3, <2>1, <2>2, <2>3, <2>4, Movers DEF EvidenceInv
<1> QED BY <1>1, <1>2, <1>3

\* An event that neither delivers nor contradicts the records of the run.
LEMMA HistoryStep == EvidenceInv /\ Next => \A r \in Runs : History(r)'
<1> SUFFICES ASSUME EvidenceInv, Next, NEW r \in Runs PROVE History(r)'  OBVIOUS
<1>a. Shape /\ RunShape /\ History(r)  BY DEF EvidenceInv, Shape
<1>0. /\ {"run.blocked_external", "run.resumed", "evidence.finalized",
          "run.completed"} \subseteq EventTypes \ {"pr.delivered"}
      /\ {"PR_DELIVERED", "BLOCKED_EXTERNAL", "EVIDENCE_FINALIZED", "COMPLETED"}
           \subseteq Phases
  BY DEF EventTypes, Phases
<1>1. CASE UNCHANGED history  BY <1>1, <1>a DEF History, Version
<1>2. ASSUME NEW k \in Runs, NEW type \in EventTypes \ {"pr.delivered"}, NEW to \in Phases,
             Event(k, type, to)
      PROVE  History(r)'
  BY <1>2, <1>a, Events DEF History, Version
<1>3. ASSUME NEW h \in Hosts, Step(h), ~UNCHANGED history PROVE History(r)'
  <2>1. R(h) \in Runs  BY <1>3, <1>a, InHand
  <2>2. \/ Event(R(h), "evidence.finalized", "EVIDENCE_FINALIZED")
          \/ Event(R(h), "run.completed", "COMPLETED")
        \/ Event(R(h), "run.blocked_external", "BLOCKED_EXTERNAL")
    BY <1>3 DEF Step, Put, Facts, LinkBody, DropBody, CheckBody, LinkMeta, DropMeta, CheckMeta,
       Undo, ReadBack, Verify, Intend, Confirm, Seal, Record, Pending, SignTerminal, Ensure,
       runVars, Advance, Terminate, FinishPending, Release, Fail
  <2> QED BY <1>0, <1>2, <2>1, <2>2
<1>4. ASSUME NEW k \in Runs, Reconcile(k) PROVE History(r)'  BY <1>0, <1>2, <1>4 DEF Reconcile
<1>5. ASSUME NEW h \in Hosts, Start(h) \/ Crash(h) \/ Error(h) PROVE UNCHANGED history
  BY <1>5 DEF Start, Crash, Error, runVars
<1>6. ASSUME NEW h \in Hosts, NEW k \in Runs, Claim(h, k) \/ Acknowledge(h, k) \/ Fire(h, k)
      PROVE  UNCHANGED history
  BY <1>6 DEF Claim, Acknowledge, Fire, runVars
<1>7. ASSUME NEW k \in Runs, Age(k) PROVE UNCHANGED history  BY <1>7 DEF Age, runVars
<1>8. ASSUME NEW d \in Digests, Expire(d) PROVE UNCHANGED history  BY <1>8 DEF Expire, runVars
<1> QED BY <1>1, <1>3, <1>4, <1>5, <1>6, <1>7, <1>8 DEF Next

\* The records of a run go on agreeing with each other and with its history.
LEMMA RecordsStep == EvidenceInv /\ Next => \A r \in Runs : Records(r)'
<1> SUFFICES ASSUME EvidenceInv, Next, NEW r \in Runs PROVE Records(r)'  OBVIOUS
<1>a. Shape /\ RunShape /\ Records(r) /\ History(r)  BY DEF EvidenceInv, Shape
<1>b. /\ Version(r) \in Nat /\ sealed[r] \in Nat /\ intent[r] \in [seq : Nat, done : BOOLEAN]
      /\ terminal[r] \in [seq : Nat, delivery : [delivered : Nat, at : Nat], at : Nat]
  BY <1>a, Fields
<1>c. bundle[r] # NoBundle => bundle'[r] = bundle[r] /\ intent'[r].seq = intent[r].seq
  BY <1>a, Durable DEF Records
<1> USE <1>a, <1>b DEF Records, DeliveryView, TerminalView
<1>1. CASE UNCHANGED <<phase, owner, history, intent, bundle, sealed, terminal, acked,
           compacted>>
  BY <1>1 DEF Version
<1>2. ASSUME NEW h \in Hosts, NEW k \in Runs, Claim(h, k) PROVE Records(r)'
  <2>1. UNCHANGED <<phase, history, intent, bundle, sealed, terminal, acked, compacted>>
    BY <1>2 DEF Claim, outcomeVars
  <2>2. owner'[r] = owner[r] \/ phase[r] # "COMPLETED"
    BY <1>2 DEF Claim, RunShape
  <2> QED BY <2>1, <2>2 DEF Version
<1>3. ASSUME NEW h \in Hosts, NEW k \in Runs, Acknowledge(h, k) PROVE Records(r)'
  <2>1. UNCHANGED <<phase, owner, history, intent, bundle, sealed, terminal, compacted>>
    BY <1>3 DEF Acknowledge, runVars
  <2>2. acked'[r] = acked[r] \/ (acked'[r] /\ phase[r] = "COMPLETED")
    BY <1>3 DEF Acknowledge, Acknowledgeable, RunShape
  <2> QED BY <2>1, <2>2 DEF Version
<1>4. ASSUME NEW h \in Hosts, NEW k \in Runs, Fire(h, k) PROVE Records(r)'
  <2>1. UNCHANGED <<phase, owner, history, intent, bundle, sealed, terminal, acked>>
    BY <1>4 DEF Fire, runVars
  <2>2. compacted'[r] = compacted[r] \/ (acked[r] /\ owner[r] = None)
    BY <1>4 DEF Fire, MayCompact, Candidate, RunShape
  <2> QED BY <2>1, <2>2 DEF Version
<1>5. ASSUME NEW k \in Runs, Reconcile(k) PROVE Records(r)'
  <2>1. UNCHANGED <<owner, bundle, sealed, terminal, acked, compacted>>
    BY <1>5 DEF Reconcile, outcomeVars
  <2>2. CASE k # r
    <3>1. phase'[r] = phase[r] /\ history'[r] = history[r] /\ intent'[r] = intent[r]
      BY <1>5, <2>2 DEF Reconcile, Event, RunShape
    <3> QED BY <2>1, <3>1 DEF Version
  <2>3. CASE k = r
    <3>1. phase[r] = "BLOCKED_EXTERNAL" /\ phase'[r] = "PR_DELIVERED"
      BY <1>5, <2>3 DEF Reconcile, Event, RunShape
    <3>2. sealed[r] = 0 /\ terminal[r] = NoTerminal  BY <3>1
    <3> QED BY <1>c, <2>1, <3>1, <3>2
  <2> QED BY <2>2, <2>3
<1>6. ASSUME NEW h \in Hosts, Step(h) PROVE Records(r)'
  <2>a. worker[h].pc # "idle" /\ R(h) \in Runs /\ Hand(h) /\ (Fence(h) => Knows(h))
    BY <1>6, InHand DEF EvidenceInv
  <2>1. CASE Put(h) \/ Facts(h) \/ Verify(h) \/ Pending(h) \/ Ensure(h)
    BY <1>1, <2>1 DEF Put, LinkBody, DropBody, CheckBody, LinkMeta, DropMeta, CheckMeta, Undo,
       ReadBack, Facts, Verify, Pending, Ensure, runVars, outcomeVars
  <2>2. CASE Intend(h) \/ Confirm(h)
    <3>1. UNCHANGED <<phase, owner, history, bundle, sealed, terminal, acked, compacted>>
      BY <2>2 DEF Intend, Confirm, outcomeVars
    <3> QED BY <1>c, <3>1 DEF Version
  <2>3. CASE Record(h)
    <3>1. UNCHANGED <<phase, owner, history, intent, sealed, terminal, acked, compacted>>
      BY <2>3 DEF Record, outcomeVars
    <3>2. CASE bundle'[r] = bundle[r]  BY <3>1, <3>2 DEF Version
    <3>3. CASE bundle'[r] # bundle[r]
      <4>1. R(h) = r /\ phase[r] = "PR_DELIVERED" /\ bundle'[r] = Signed(h)
        BY <2>3, <3>3, <2>a DEF Record, RunShape
      <4>2. intent[r].seq > 0  BY <2>3, <2>a, <4>1 DEF Record, Hand, Attempting
      <4>3. bundle'[r] = [delivered |-> 2, at |-> intent[r].seq]
        BY <4>1, DeliveredSecond DEF Signed, Statement
      <4>4. terminal[r] = NoTerminal  BY <4>1
      <4> QED BY <3>1, <4>1, <4>2, <4>3, <4>4
    <3> QED BY <3>2, <3>3
  <2>4. CASE Advance(h)
    <3>1. UNCHANGED <<owner, intent, bundle, sealed, terminal, acked, compacted>>
      BY <2>4 DEF Advance, outcomeVars
    <3>2. CASE phase'[r] = phase[r] /\ history'[r] = history[r]
      BY <3>1, <3>2 DEF Version
    <3>3. CASE ~(phase'[r] = phase[r] /\ history'[r] = history[r])
      <4>1. R(h) = r /\ Fence(h) /\ phase'[r] = "EVIDENCE_FINALIZED"
        BY <2>4, <2>a, <3>3 DEF Advance, Event, RunShape
      <4>2. phase[r] = "PR_DELIVERED" /\ bundle[r] # NoBundle
        BY <2>4, <2>a, <4>1 DEF Advance, Hand, Knows, Finalizing
      <4> QED BY <1>c, <3>1, <4>1, <4>2
    <3> QED BY <3>2, <3>3
  <2>5. CASE Seal(h)
    <3>1. UNCHANGED <<phase, owner, history, intent, bundle, terminal, acked, compacted>>
      BY <2>5 DEF Seal, outcomeVars
    <3>2. sealed'[r] = sealed[r] \/ (R(h) = r /\ Fence(h))
      BY <2>5, <2>a DEF Seal, RunShape
    <3>3. R(h) = r /\ Fence(h) => phase[r] = "EVIDENCE_FINALIZED"
      BY <2>5, <2>a DEF Seal, Knows
    <3>4. sealed[r] > 0 => sealed'[r] = sealed[r]  BY Durable
    <3> QED BY <3>1, <3>2, <3>3, <3>4 DEF Version
  <2>6. CASE SignTerminal(h)
    <3>1. UNCHANGED <<phase, owner, history, intent, bundle, sealed, acked, compacted>>
      BY <2>6 DEF SignTerminal, outcomeVars
    <3>2. CASE terminal'[r] = terminal[r]  BY <3>1, <3>2 DEF Version
    <3>3. CASE terminal'[r] # terminal[r]
      <4>1. R(h) = r /\ terminal'[r] = RecordedTerminal(r) /\ sealed[r] > 0
        <5>1. worker[h].pc = "sign terminal"  BY <2>6 DEF SignTerminal
        <5>2. terminal' = [terminal EXCEPT ![R(h)] = RecordedTerminal(R(h))]
          BY <2>6, <3>3 DEF SignTerminal
        <5>3. R(h) = r /\ terminal'[r] = RecordedTerminal(r)
          BY <2>a, <3>3, <5>2 DEF RunShape
        <5> QED BY <2>a, <5>1, <5>3 DEF Hand
      <4>2. terminal[r] = NoTerminal /\ terminal'[r] = TerminalStatement(r)
        BY <3>3, <4>1 DEF RecordedTerminal
      <4>3. phase[r] # "COMPLETED"  BY <4>2
      <4>4. terminal'[r].seq = Version(r) + 1 /\ terminal'[r].delivery = bundle[r]
        BY <4>2 DEF TerminalStatement
      <4> QED BY <3>1, <4>1, <4>3, <4>4 DEF Version
    <3> QED BY <3>2, <3>3
  <2>7. CASE Terminate(h) \/ FinishPending(h)
    <3>1. UNCHANGED <<owner, intent, bundle, sealed, terminal, acked, compacted>>
      BY <2>7 DEF Terminate, FinishPending
    <3>2. CASE phase'[r] = phase[r] /\ history'[r] = history[r]
      BY <3>1, <3>2 DEF Version
    <3>3. CASE ~(phase'[r] = phase[r] /\ history'[r] = history[r])
      <4>1. R(h) = r /\ Event(r, "run.completed", "COMPLETED")
              /\ terminal[r].seq = Version(r) + 1 /\ sealed[r] > 0
        BY <2>7, <2>a, <3>3 DEF Terminate, FinishPending, PendingBinds, Event, RunShape, Hand
      <4>2. phase'[r] = "COMPLETED" /\ Version(r)' = Version(r) + 1
        <5>1. "run.completed" \in EventTypes /\ "COMPLETED" \in Phases
          BY DEF EventTypes, Phases
        <5> QED BY <4>1, <5>1, Events
      <4>3. terminal[r] # NoTerminal  BY <4>1 DEF NoTerminal
      <4>4. bundle[r] # NoBundle  BY <4>1
      <4> QED BY <1>c, <3>1, <4>1, <4>2, <4>3, <4>4
    <3> QED BY <3>2, <3>3
  <2>8. CASE Release(h)
    <3>1. UNCHANGED <<phase, history, intent, bundle, sealed, terminal, acked, compacted>>
      BY <2>8 DEF Release, outcomeVars
    <3>2. owner'[r] = owner[r] \/ owner'[r] = None  BY <2>8 DEF Release, RunShape
    <3> QED BY <3>1, <3>2 DEF Version
  <2>9. CASE Fail(h)
    <3>1. UNCHANGED <<intent, bundle, sealed, terminal, acked, compacted>>
      BY <2>9 DEF Fail, outcomeVars
    <3>2. owner'[r] = owner[r] \/ owner'[r] = None  BY <2>9 DEF Fail, RunShape
    <3>3. CASE phase'[r] = phase[r] /\ history'[r] = history[r]
      BY <3>1, <3>2, <3>3 DEF Version
    <3>4. CASE ~(phase'[r] = phase[r] /\ history'[r] = history[r])
      <4>1. sealed[r] = 0 /\ phase'[r] = "BLOCKED_EXTERNAL"
        BY <2>9, <2>a, <3>4 DEF Fail, Event, RunShape
      <4>2. phase[r] # "COMPLETED" /\ terminal[r] = NoTerminal  BY <4>1
      <4> QED BY <1>c, <3>1, <3>2, <4>1, <4>2
    <3> QED BY <3>3, <3>4
  <2> QED BY <1>6, <2>1, <2>2, <2>3, <2>4, <2>5, <2>6, <2>7, <2>8, <2>9 DEF Step
<1>7. ASSUME NEW h \in Hosts, Start(h) \/ Crash(h) \/ Error(h) PROVE Records(r)'
  BY <1>1, <1>7 DEF Start, Crash, Error, runVars, outcomeVars
<1>8. ASSUME NEW k \in Runs, Age(k) PROVE Records(r)'  BY <1>1, <1>8 DEF Age, runVars
<1>9. ASSUME NEW d \in Digests, Expire(d) PROVE Records(r)'
  BY <1>1, <1>9 DEF Expire, runVars, outcomeVars
<1> QED BY <1>2, <1>3, <1>4, <1>5, <1>6, <1>7, <1>8, <1>9 DEF Next

\* The records of delivered runs, their histories and what the workers have in
\* hand agree, for any number of hosts and runs, whatever the order in which
\* finalizers, reconciliations, acknowledgements and retention tasks take turns.
THEOREM EvidenceInvariant == Spec => []EvidenceInv
<1>1. EvidenceInv /\ [Next]_vars => EvidenceInv'
  <2>1. ASSUME EvidenceInv, UNCHANGED vars PROVE EvidenceInv'
    <3>1. UNCHANGED <<runVars, outcomeVars, casVars, worker, ghosts>>  BY <2>1 DEF vars
    <3>2. Shape'
      BY <2>1, <3>1 DEF EvidenceInv, Shape, RunShape, CasShape, WorkerShape, runVars,
         outcomeVars, casVars, ghosts
    <3>3. ASSUME NEW r \in Runs PROVE History(r)' /\ Records(r)'
      <4>1. History(r) /\ Records(r)  BY <2>1 DEF EvidenceInv
      <4>2. UNCHANGED <<phase, owner, history, intent, bundle, sealed, terminal, acked,
            compacted>>
        BY <3>1 DEF runVars, outcomeVars
      <4>3. History(r)'  BY <4>1, <4>2 DEF History, Version
      <4>4. Records(r)'  BY <4>1, <4>2 DEF Records, DeliveryView, TerminalView, Version
      <4> QED BY <4>3, <4>4
    <3>4. \A h \in Hosts : Hand(h)' /\ (worker'[h].pc # "idle" /\ Fence(h)' => Knows(h)')
      BY <2>1, <3>1 DEF EvidenceInv, Hand, Knows, Fence, R, runVars
    <3> QED BY <3>2, <3>3, <3>4 DEF EvidenceInv
  <2>2. ASSUME EvidenceInv, Next PROVE EvidenceInv'
    <3>1. Shape'  BY <2>2, RunShapeStep, OtherShapesStep DEF EvidenceInv, Shape
    <3> QED BY <2>2, <3>1, HistoryStep, RecordsStep, HandsStep DEF EvidenceInv
  <2> QED BY <2>1, <2>2
<1> QED BY <1>1, EvidenceInit, PTL DEF Spec

\* compactAsfRunEvents never takes a history from a lifecycle owner: a run is
\* compacted once it is terminal and has no owner, and is not claimed again.
THEOREM OwnerKeepsHistoryHolds == Spec => []OwnerKeepsHistory
<1>1. EvidenceInv => OwnerKeepsHistory  BY DEF EvidenceInv, Records, OwnerKeepsHistory
<1> QED BY <1>1, EvidenceInvariant, PTL

\* getEvidence never finds evidence records that contradict the phase or the
\* history of their run.
THEOREM ViewIsConsistentHolds == Spec => []ViewIsConsistent
<1>1. EvidenceInv => ViewIsConsistent  BY DEF EvidenceInv, Records, ViewIsConsistent
<1> QED BY <1>1, EvidenceInvariant, PTL

\* A retry of the evidence stage signs the bytes its predecessor recorded: the
\* delivery event is the second of every history, and the intent keeps its
\* number.
THEOREM RetryFindsItsBundleHolds == Spec => []RetryFindsItsBundle
<1>1. ASSUME EvidenceInv, NEW h \in Hosts, worker[h].pc = "record", bundle[R(h)] # NoBundle
      PROVE  Signed(h) = bundle[R(h)]
  <2>1. R(h) \in Runs  BY <1>1 DEF EvidenceInv, Shape, WorkerShape, R
  <2>2. Delivered(R(h)) = 2  BY <1>1, <2>1, DeliveredSecond DEF EvidenceInv, Shape
  <2> QED BY <1>1, <2>1, <2>2 DEF EvidenceInv, Records, Signed, Statement
<1>2. EvidenceInv => RetryFindsItsBundle  BY <1>1 DEF RetryFindsItsBundle
<1> QED BY <1>2, EvidenceInvariant, PTL

-----------------------------------------------------------------------------
(* The store of artifacts. *)

\* The invariant of the store holds of an empty directory.
LEMMA StoreInit == Init => StoreInv
<1> SUFFICES ASSUME Init PROVE StoreInv  OBVIOUS
<1>1. \A h \in Hosts : worker[h].pc = "idle"  BY DEF Init, Idle
<1>2. \A d \in Digests : body[d] = 0 /\ meta[d] = 0  BY DEF Init
<1>3. \A r \in Runs : bundle[r] = NoBundle  BY DEF Init
<1> QED BY <1>1, <1>2, <1>3 DEF StoreInv, Installed, Stored, Putting, InPut

\* A worker's names are those of its own claim.
LEMMA InstalledStep == Shape /\ StoreInv /\ Next => \A h \in Hosts : Installed(h)'
<1> SUFFICES ASSUME Shape, StoreInv, Next, NEW k \in Hosts PROVE Installed(k)'  OBVIOUS
<1>a. WorkerShape /\ Installed(k) /\ worker[k] \in Worker  BY DEF Shape, StoreInv, WorkerShape
<1>1. CASE worker'[k] = worker[k]  BY <1>a, <1>1 DEF Installed
<1>2. CASE Crash(k)
  <2>1. worker'[k] = Idle  BY <1>a, <1>2 DEF Crash, WorkerShape
  <2> QED BY <2>1 DEF Idle, Installed
<1>3. ASSUME NEW r \in Runs, Claim(k, r) PROVE Installed(k)'
  <2>1. ~worker'[k].body /\ ~worker'[k].meta  BY <1>a, <1>3, Claims DEF WorkerShape
  <2> QED BY <2>1 DEF Installed
<1>4. CASE Error(k)
  <2>1. "failing" \in Pcs /\ Go(k, "failing")  BY <1>4 DEF Error, Pcs
  <2>2. worker'[k].pc = "failing"  BY <1>a, <2>1, Goes
  <2> QED BY <2>2 DEF Installed
<1>5. CASE Step(k)
  <2>1. CASE LinkBody(k)
    <3>1. worker'[k].pc = "drop body" /\ worker'[k].meta = worker[k].meta
            /\ worker[k].pc = "link body"
      BY <1>a, <2>1, Links DEF LinkBody
    <3> QED BY <1>a, <3>1 DEF Installed
  <2>2. CASE LinkMeta(k)
    <3>1. worker'[k].pc = "drop meta"  BY <1>a, <2>2, Links
    <3> QED BY <3>1 DEF Installed
  <2>3. CASE worker' = [worker EXCEPT ![k] = Idle]
    <3>1. worker'[k] = Idle  BY <1>a, <2>3 DEF WorkerShape
    <3> QED BY <3>1 DEF Idle, Installed
  <2>4. ASSUME NEW pc \in Pcs, Go(k, pc),
               pc \notin {"intent", "facts", "link body", "drop body", "check body", "link meta"}
        PROVE  Installed(k)'
    <3>1. worker'[k].pc = pc  BY <1>a, <2>4, Goes
    <3> QED BY <2>4, <3>1 DEF Installed
  <2>5. ASSUME NEW pc \in Pcs, Go(k, pc),
               worker[k].pc \in {"intent", "facts", "link body"}, pc \in {"facts", "link body"}
        PROVE  Installed(k)'
    <3>1. worker'[k].pc = pc /\ worker'[k].body = worker[k].body
            /\ worker'[k].meta = worker[k].meta
      BY <1>a, <2>5, Goes
    <3> QED BY <1>a, <2>5, <3>1 DEF Installed
  <2>6. ASSUME NEW pc \in Pcs, Go(k, pc),
               worker[k].pc \in {"drop body", "check body", "link meta"},
               pc \in {"check body", "link meta"}
        PROVE  Installed(k)'
    <3>1. worker'[k].pc = pc /\ worker'[k].body = worker[k].body
            /\ worker'[k].meta = worker[k].meta
      BY <1>a, <2>6, Goes
    <3> QED BY <1>a, <2>6, <3>1 DEF Installed
  <2> QED
    BY <1>5, <2>1, <2>2, <2>3, <2>4, <2>5, <2>6 DEF Step, Put, Intend, Facts, DropBody,
       CheckBody, DropMeta, CheckMeta, Undo, ReadBack, Verify, Record, Confirm, Advance, Seal,
       Pending, SignTerminal, Terminate, FinishPending, Ensure, Release, Fail, Pcs, InPut
<1> QED BY <1>1, <1>2, <1>3, <1>4, <1>5, Movers

\* A host that neither puts nor is about to record takes nothing from the store.
LEMMA StoredOutside ==
  ASSUME NEW d \in Digests, Stored(d), UNCHANGED <<body, meta, bundle>>,
         \A k \in Hosts : \/ worker'[k] = worker[k]
                          \/ worker'[k].pc \notin InPut \cup {"verify", "record"}
                            /\ ~Putting(k, d)
  PROVE  Stored(d)'
<1>1. \A k \in Hosts : Putting(k, d)' <=> Putting(k, d)  BY DEF Putting, D
<1>2. \A k \in Hosts : Putting(k, d) => worker'[k] = worker[k]  OBVIOUS
<1>3. Kept(d) => Kept(d)'  BY <1>1, <1>2 DEF Kept
<1>4. \A h \in Hosts : Putting(h, d)' => Names(h, d)'  BY <1>1, <1>2 DEF Stored, Names
<1>5. \A h \in Hosts : worker'[h].pc \in {"verify", "record"} /\ D(h)' = d => Kept(d)'
  BY <1>3 DEF Stored, D
<1>6. \A r \in Runs : bundle'[r] # NoBundle /\ Digest(r) = d => Kept(d)'  BY <1>3 DEF Stored
<1> QED BY <1>1, <1>4, <1>5, <1>6 DEF Stored

\* A step of a put of other bytes.
LEMMA StoredElsewhere ==
  ASSUME NEW d \in Digests, Stored(d), Shape, NEW h \in Hosts, Put(h), D(h) # d
  PROVE  Stored(d)'
<1>a. WorkerShape /\ CasShape /\ R(h) \in Runs /\ D(h) \in Digests  BY InHand DEF Shape, Step
<1>1. UNCHANGED bundle /\ body'[d] = body[d] /\ meta'[d] = meta[d]
  BY <1>a DEF Put, LinkBody, DropBody, CheckBody, LinkMeta, DropMeta, CheckMeta, Undo,
     ReadBack, CasShape, runVars, casVars
<1>2. LinkBody(h) \/ LinkMeta(h) \/ \E pc \in Pcs : Go(h, pc)
  BY DEF Put, DropBody, CheckBody, DropMeta, CheckMeta, Undo, ReadBack, Pcs, InPut
<1>3. R(h)' = R(h) /\ \A k \in Hosts \ {h} : worker'[k] = worker[k]
  BY <1>a, <1>2, Goes, Links DEF R
<1>4. D(h)' = D(h)  BY <1>3 DEF D, R
<1>5. \A k \in Hosts : Putting(k, d)' => k # h /\ Putting(k, d)  BY <1>3, <1>4 DEF Putting, D
<1>6. \A k \in Hosts : Putting(k, d) => k # h /\ Putting(k, d)'  BY <1>3, <1>4 DEF Putting, D
<1>7. Kept(d) => Kept(d)'  BY <1>1, <1>3, <1>5 DEF Kept
<1>8. \A k \in Hosts : Putting(k, d)' => Names(k, d)'  BY <1>1, <1>3, <1>5 DEF Stored, Names
<1>9. \A k \in Hosts : worker'[k].pc \in {"verify", "record"} /\ D(k)' = d => Kept(d)'
  BY <1>3, <1>4, <1>7 DEF Stored, D
<1>10. \A r \in Runs : bundle'[r] # NoBundle /\ Digest(r) = d => Kept(d)'
  BY <1>1, <1>7 DEF Stored
<1> QED BY <1>1, <1>5, <1>6, <1>8, <1>9, <1>10 DEF Stored

\* A step of the only put of these bytes.
LEMMA StoredPut ==
  ASSUME NEW d \in Digests, Stored(d), Shape, NEW h \in Hosts, Put(h), D(h) = d, Installed(h)
  PROVE  Stored(d)'
<1>a. WorkerShape /\ CasShape /\ R(h) \in Runs /\ worker[h] \in Worker
  BY InHand DEF Shape, Step, WorkerShape
<1>b. body[d] \in 0 .. 2 /\ meta[d] \in 0 .. 2  BY <1>a DEF CasShape
<1>c. Putting(h, d)
  BY DEF Putting, InPut, Put, LinkBody, DropBody, CheckBody, LinkMeta, DropMeta, CheckMeta,
     Undo, ReadBack
<1>d. Names(h, d) /\ \A k \in Hosts \ {h} : ~Putting(k, d)  BY <1>c DEF Stored
<1>e. Kept(d) => body[d] = 1 /\ meta[d] = 1 /\ ~worker[h].body /\ ~worker[h].meta
  BY <1>c DEF Kept
<1>1. UNCHANGED bundle
  BY DEF Put, LinkBody, DropBody, CheckBody, LinkMeta, DropMeta, CheckMeta, Undo, ReadBack,
     runVars
<1>2. LinkBody(h) \/ LinkMeta(h) \/ \E pc \in Pcs : Go(h, pc)
  BY DEF Put, DropBody, CheckBody, DropMeta, CheckMeta, Undo, ReadBack, Pcs, InPut
<1>3. R(h)' = R(h) /\ \A k \in Hosts \ {h} : worker'[k] = worker[k]
  BY <1>a, <1>2, Goes, Links DEF R
<1>4. D(h)' = d /\ \A k \in Hosts \ {h} : ~Putting(k, d)'  BY <1>3, <1>d DEF D, R, Putting
<1> DEFINE Fine == /\ worker'[h].pc \in InPut => Names(h, d)'
                   /\ worker'[h].pc \notin InPut => body'[d] \in {0, 1} /\ meta'[d] \in {0, 1}
                   /\ worker'[h].pc \in {"verify", "record"} => body'[d] = 1 /\ meta'[d] = 1
                   /\ Kept(d) => body'[d] = 1 /\ meta'[d] = 1 /\ ~worker'[h].body
                     /\ ~worker'[h].meta
<1>5. Fine
  <2>1. CASE LinkBody(h)
    <3>1. worker[h].pc = "link body" /\ body'[d] = (IF body[d] = 0 THEN 2 ELSE body[d])
            /\ meta'[d] = meta[d]
      BY <1>a, <2>1 DEF LinkBody, CasShape
    <3>2. worker'[h].pc = "drop body" /\ (worker'[h].body <=> body[d] = 0)
            /\ worker'[h].meta = worker[h].meta
      BY <1>a, <2>1, Links
    <3>3. CASE body[d] = 0
      <4>1. worker'[h].body /\ body'[d] = 2 /\ ~Kept(d)
        <5>1. worker'[h].body  BY <3>2, <3>3, Zenon
        <5>2. body'[d] = 2  BY <3>1, <3>3
        <5>3. ~Kept(d)  BY <3>3 DEF Kept
        <5> QED BY <5>1, <5>2, <5>3
      <4>2. meta[d] \in {0, 1}  BY <1>d, <3>1 DEF Names
      <4>3. Names(h, d)'  BY <3>1, <3>2, <4>1, <4>2 DEF Names
      <4> QED BY <3>2, <4>1, <4>3 DEF InPut
    <3>4. CASE body[d] # 0
      <4>1. ~worker'[h].body  BY <3>2, <3>4
      <4> QED BY <1>b, <1>d, <1>e, <3>1, <3>2, <3>4, <4>1 DEF Names, InPut
    <3> QED BY <3>3, <3>4
  <2>2. CASE DropBody(h)
    <3>1. worker[h].pc = "drop body" /\ meta'[d] = meta[d]
          /\ body'[d] = (IF worker[h].body /\ body[d] = 2 THEN 1 ELSE body[d])
      BY <1>a, <2>2 DEF DropBody, CasShape
    <3>2. worker'[h].pc = "check body" /\ worker'[h].body = worker[h].body
            /\ worker'[h].meta = worker[h].meta
      BY <1>a, <2>2, Goes DEF DropBody, Pcs, InPut
    <3> QED BY <1>b, <1>d, <1>e, <3>1, <3>2 DEF Names, InPut
  <2>3. CASE CheckBody(h)
    <3>1. worker[h].pc = "check body" /\ meta'[d] = meta[d] /\ body'[d] = body[d] /\ body[d] = 1
      BY <1>d, <2>3 DEF CheckBody, casVars, Names
    <3>2. worker'[h].pc = "link meta" /\ worker'[h].body = worker[h].body
            /\ worker'[h].meta = worker[h].meta
      BY <1>a, <2>3, <3>1, Goes DEF CheckBody, Pcs, InPut
    <3> QED BY <1>b, <1>d, <1>e, <3>1, <3>2 DEF Names, InPut
  <2>4. CASE LinkMeta(h)
    <3>1. worker[h].pc = "link meta" /\ meta'[d] = (IF meta[d] = 0 THEN 2 ELSE meta[d])
            /\ body'[d] = body[d]
      BY <1>a, <2>4 DEF LinkMeta, CasShape
    <3>2. worker'[h].pc = "drop meta" /\ (worker'[h].meta <=> meta[d] = 0)
            /\ worker'[h].body = worker[h].body
      BY <1>a, <2>4, Links
    <3>3. CASE meta[d] = 0
      <4>1. worker'[h].meta /\ meta'[d] = 2 /\ ~Kept(d)
        <5>1. worker'[h].meta  BY <3>2, <3>3, Zenon
        <5>2. meta'[d] = 2  BY <3>1, <3>3
        <5>3. ~Kept(d)  BY <3>3 DEF Kept
        <5> QED BY <5>1, <5>2, <5>3
      <4>2. body[d] = 1  BY <1>d, <3>1 DEF Names
      <4>3. Names(h, d)'  BY <3>1, <3>2, <4>1, <4>2 DEF Names
      <4> QED BY <3>2, <4>1, <4>3 DEF InPut
    <3>4. CASE meta[d] # 0
      <4>1. ~worker'[h].meta  BY <3>2, <3>4
      <4> QED BY <1>b, <1>d, <1>e, <3>1, <3>2, <3>4, <4>1 DEF Names, InPut
    <3> QED BY <3>3, <3>4
  <2>5. CASE DropMeta(h)
    <3>1. worker[h].pc = "drop meta" /\ body'[d] = body[d]
            /\ meta'[d] = (IF worker[h].meta THEN 1 ELSE meta[d])
      BY <1>a, <2>5 DEF DropMeta, CasShape
    <3>2. worker'[h].pc = "check meta" /\ worker'[h].body = worker[h].body
            /\ worker'[h].meta = worker[h].meta
      BY <1>a, <2>5, Goes DEF DropMeta, Pcs, InPut
    <3> QED BY <1>b, <1>d, <1>e, <3>1, <3>2 DEF Names, InPut
  <2>6. CASE CheckMeta(h)
    <3>1. worker[h].pc = "check meta" /\ meta'[d] = meta[d] /\ body'[d] = body[d]
      BY <2>6 DEF CheckMeta, casVars
    <3>2. worker'[h].pc \in {"read back", "undo"} /\ worker'[h].body = worker[h].body
            /\ worker'[h].meta = worker[h].meta
      BY <1>a, <2>6, Goes DEF CheckMeta, Pcs, InPut
    <3> QED BY <1>b, <1>d, <1>e, <3>1, <3>2 DEF Names, InPut
  <2>7. CASE Undo(h)
    <3>1. worker[h].pc = "undo" /\ meta'[d] = meta[d]
            /\ body'[d] = (IF worker[h].body THEN 0 ELSE body[d])
      BY <1>a, <2>7 DEF Undo, CasShape
    <3>2. worker'[h].pc = "failing" /\ worker'[h].body = worker[h].body
            /\ worker'[h].meta = worker[h].meta
      BY <1>a, <2>7, Goes DEF Undo, Pcs, InPut
    <3> QED BY <1>b, <1>d, <1>e, <3>1, <3>2 DEF Names, InPut
  <2>8. CASE ReadBack(h)
    <3>1. worker[h].pc = "read back" /\ meta'[d] = meta[d] /\ body'[d] = body[d]
      BY <2>8 DEF ReadBack, casVars
    <3>2. worker'[h].pc \in {"verify", "failing"} /\ worker'[h].body = worker[h].body
            /\ worker'[h].meta = worker[h].meta
      BY <1>a, <2>8, Goes DEF ReadBack, Pcs, InPut
    <3> QED BY <1>b, <1>d, <1>e, <3>1, <3>2 DEF Names, InPut
  <2> QED BY <2>1, <2>2, <2>3, <2>4, <2>5, <2>6, <2>7, <2>8 DEF Put
<1> HIDE DEF Fine
<1>6. Kept(d) => Kept(d)'
  BY <1>4, <1>5 DEF Fine, Kept, Putting
<1>7. worker'[h].pc \in {"verify", "record"} => Kept(d)'
  BY <1>4, <1>5 DEF Fine, Kept, Putting, InPut
<1>8. \A k \in Hosts : Putting(k, d)' => k = h /\ Names(k, d)'
  BY <1>4, <1>5 DEF Fine, Putting
<1>9. (\A k \in Hosts : ~Putting(k, d)') => body'[d] \in {0, 1} /\ meta'[d] \in {0, 1}
  BY <1>4, <1>5 DEF Fine, Putting
<1>10. \A k \in Hosts : worker'[k].pc \in {"verify", "record"} /\ D(k)' = d => Kept(d)'
  BY <1>3, <1>6, <1>7 DEF Stored, D
<1>11. \A r \in Runs : bundle'[r] # NoBundle /\ Digest(r) = d => Kept(d)'
  BY <1>1, <1>6 DEF Stored
<1> QED BY <1>8, <1>9, <1>10, <1>11 DEF Stored

\* Every step keeps the files of an address on which no two puts overlapped and
\* no crash tore a name.
LEMMA StoredStep ==
  ASSUME EvidenceInv, StoreInv, Next, NEW d \in Digests, ~overlapped'[d], ~torn'[d]
  PROVE  Stored(d)'
<1>a. Shape /\ RunShape /\ CasShape /\ WorkerShape  BY DEF EvidenceInv, Shape
<1>b. \A h \in Hosts : Installed(h)  BY DEF StoreInv
<1>1. ASSUME NEW h \in Hosts, Crash(h) PROVE Stored(d)'
  <2>1. UNCHANGED <<body, meta, bundle, overlapped>>
          /\ \A k \in Hosts \ {h} : worker'[k] = worker[k]
    BY <1>1, <1>a DEF Crash, runVars, casVars, WorkerShape
  <2>2. worker'[h].pc = "idle"  BY <1>1, <1>a DEF Crash, WorkerShape, Idle
  <2>3. ~torn[d] /\ (Putting(h, d) => ~(worker[h].pc = "drop body" /\ worker[h].body)
                                     /\ ~(worker[h].pc = "drop meta" /\ worker[h].meta))
    BY <1>1, <1>a DEF Crash, CasShape, Putting
  <2>4. Stored(d)  BY <2>1, <2>3 DEF StoreInv
  <2>5. CASE ~Putting(h, d)
    BY <2>1, <2>2, <2>4, <2>5, StoredOutside DEF InPut
  <2>6. CASE Putting(h, d)
    <3>1. Names(h, d) /\ \A k \in Hosts \ {h} : ~Putting(k, d)  BY <2>4, <2>6 DEF Stored
    <3>2. body[d] \in {0, 1} /\ meta[d] \in {0, 1}  BY <2>3, <2>6, <3>1 DEF Names
    <3>3. \A k \in Hosts : ~Putting(k, d)'  BY <2>1, <2>2, <3>1 DEF Putting, InPut, D
    <3>4. Kept(d) => Kept(d)'  BY <2>1, <3>3 DEF Kept
    <3>5. \A k \in Hosts : worker'[k].pc \in {"verify", "record"} /\ D(k)' = d => Kept(d)'
      BY <2>1, <2>2, <2>4, <3>4 DEF Stored, D
    <3>6. \A r \in Runs : bundle'[r] # NoBundle /\ Digest(r) = d => Kept(d)'
      BY <2>1, <2>4, <3>4 DEF Stored
    <3> QED BY <2>1, <3>2, <3>3, <3>5, <3>6 DEF Stored
  <2> QED BY <2>5, <2>6
<1>2. ASSUME NEW h \in Hosts, Put(h) PROVE Stored(d)'
  <2>1. UNCHANGED <<overlapped, torn>>
    BY <1>2 DEF Put, LinkBody, DropBody, CheckBody, LinkMeta, DropMeta, CheckMeta, Undo,
       ReadBack, ghosts
  <2>2. Stored(d)  BY <2>1 DEF StoreInv
  <2> QED BY <1>2, <1>a, <1>b, <2>2, StoredPut, StoredElsewhere
<1>3. ASSUME NEW h \in Hosts, Facts(h) PROVE Stored(d)'
  <2>1. UNCHANGED <<body, meta, bundle, torn>> /\ D(h) \in Digests
    BY <1>3, <1>a, InHand DEF Facts, Step, runVars, casVars
  <2>2. ~overlapped[d] /\ (D(h) = d => \A k \in Hosts \ {h} : ~Putting(k, d))
    BY <1>3, <1>a, <2>1 DEF Facts, CasShape, Putting
  <2>3. Stored(d)  BY <2>1, <2>2 DEF StoreInv
  <2>4. worker[h].pc = "facts" /\ ~Putting(h, d)  BY <1>3 DEF Facts, Putting, InPut
  <2>5. CASE Go(h, "failing")
    <3>1. worker'[h].pc = "failing" /\ \A k \in Hosts \ {h} : worker'[k] = worker[k]
      BY <1>a, <2>5, Goes DEF Pcs
    <3> QED BY <2>1, <2>3, <2>4, <3>1, StoredOutside DEF InPut
  <2>6. CASE Go(h, "link body")
    <3>1. /\ worker'[h].pc = "link body" /\ D(h)' = D(h)
            /\ \A k \in Hosts \ {h} : worker'[k] = worker[k]
          /\ worker'[h].body = worker[h].body /\ worker'[h].meta = worker[h].meta
      BY <1>a, <2>6, Goes DEF Pcs, InPut, D
    <3>2. ~worker'[h].body /\ ~worker'[h].meta  BY <1>b, <2>4, <3>1 DEF Installed
    <3>3. Kept(d) => Kept(d)'  BY <2>1, <3>1, <3>2 DEF Kept, Putting, D
    <3>4. \A k \in Hosts : worker'[k].pc \in {"verify", "record"} /\ D(k)' = d => Kept(d)'
      BY <2>3, <3>1, <3>3 DEF Stored, D
    <3>5. \A r \in Runs : bundle'[r] # NoBundle /\ Digest(r) = d => Kept(d)'
      BY <2>1, <2>3, <3>3 DEF Stored
    <3>6. CASE D(h) = d
      <4>1. \A k \in Hosts : ~Putting(k, d)  BY <2>2, <2>4, <3>6
      <4>2. body[d] \in {0, 1} /\ meta[d] \in {0, 1}  BY <2>3, <4>1 DEF Stored
      <4>3. \A k \in Hosts : Putting(k, d)' => k = h  BY <3>1, <4>1 DEF Putting, D
      <4>4. Names(h, d)'  BY <2>1, <3>1, <4>2 DEF Names
      <4> QED BY <2>1, <3>4, <3>5, <4>2, <4>3, <4>4 DEF Stored
    <3>7. CASE D(h) # d
      <4>1. \A k \in Hosts : Putting(k, d)' <=> Putting(k, d) /\ k # h
        BY <2>4, <3>1, <3>7 DEF Putting, D
      <4>2. \A k \in Hosts : Putting(k, d)' => Names(k, d)'
        BY <2>1, <2>3, <3>1, <4>1 DEF Names, Stored
      <4> QED BY <2>1, <2>3, <2>4, <3>4, <3>5, <4>1, <4>2 DEF Stored
    <3> QED BY <3>6, <3>7
  <2> QED BY <1>3, <2>5, <2>6 DEF Facts
<1>4. ASSUME NEW h \in Hosts, Verify(h) PROVE Stored(d)'
  <2>1. UNCHANGED <<body, meta, bundle, overlapped, torn>> /\ worker[h].pc = "verify"
    BY <1>4 DEF Verify, runVars, casVars, ghosts
  <2>2. Stored(d)  BY <2>1 DEF StoreInv
  <2>3. /\ worker'[h].pc \in {"record", "failing"} /\ D(h)' = D(h)
        /\ \A k \in Hosts \ {h} : worker'[k] = worker[k]
    BY <1>4, <1>a, Goes DEF Verify, Pcs, D
  <2>4. \A k \in Hosts : /\ Putting(k, d)' <=> Putting(k, d)
                         /\ Putting(k, d) => worker'[k] = worker[k]
    BY <2>1, <2>3 DEF Putting, InPut, D
  <2>5. Kept(d) => Kept(d)'  BY <2>1, <2>4 DEF Kept
  <2>6. \A k \in Hosts : worker'[k].pc \in {"verify", "record"} /\ D(k)' = d => Kept(d)'
    BY <2>1, <2>2, <2>3, <2>5 DEF Stored, D
  <2>7. \A r \in Runs : bundle'[r] # NoBundle /\ Digest(r) = d => Kept(d)'
    BY <2>1, <2>2, <2>5 DEF Stored
  <2>8. \A k \in Hosts : Putting(k, d)' => Names(k, d)'  BY <2>1, <2>2, <2>4 DEF Stored, Names
  <2> QED BY <2>1, <2>2, <2>4, <2>6, <2>7, <2>8 DEF Stored
<1>5. ASSUME NEW h \in Hosts, Record(h) PROVE Stored(d)'
  <2>1. UNCHANGED <<body, meta, overlapped, torn>> /\ worker[h].pc = "record"
    BY <1>5 DEF Record, casVars, ghosts
  <2>2. Stored(d)  BY <2>1 DEF StoreInv
  <2>3. /\ worker'[h].pc \in {"confirm", "failing"}
        /\ \A k \in Hosts \ {h} : worker'[k] = worker[k]
    BY <1>5, <1>a, Goes DEF Record, Pcs
  <2>4. \A k \in Hosts : /\ Putting(k, d)' <=> Putting(k, d)
                         /\ Putting(k, d) => worker'[k] = worker[k]
    BY <2>1, <2>3 DEF Putting, InPut, D
  <2>5. Kept(d) => Kept(d)'  BY <2>1, <2>4 DEF Kept
  <2>6. \A k \in Hosts : worker'[k].pc \in {"verify", "record"} /\ D(k)' = d => Kept(d)'
    BY <2>2, <2>3, <2>5 DEF Stored, D
  <2>7. \A r \in Runs : bundle'[r] = bundle[r] \/ r = R(h)
    BY <1>5, <1>a DEF Record, RunShape
  <2>8. \A r \in Runs : bundle'[r] # NoBundle /\ Digest(r) = d => Kept(d)'
    BY <2>1, <2>2, <2>5, <2>7 DEF Stored, D, R
  <2>9. \A k \in Hosts : Putting(k, d)' => Names(k, d)'  BY <2>1, <2>2, <2>4 DEF Stored, Names
  <2> QED BY <2>1, <2>2, <2>4, <2>6, <2>8, <2>9 DEF Stored
<1>6. ASSUME UNCHANGED <<body, meta, bundle, overlapped, torn>>,
             \A k \in Hosts : \/ worker'[k] = worker[k]
                              \/ worker'[k].pc \notin InPut \cup {"verify", "record"}
                                /\ worker[k].pc \notin InPut
      PROVE  Stored(d)'
  <2>1. Stored(d)  BY <1>6 DEF StoreInv
  <2> QED BY <1>6, <2>1, StoredOutside DEF Putting
<1>7. ASSUME NEW h \in Hosts, Start(h) PROVE Stored(d)'
  BY <1>6, <1>7 DEF Start, runVars, casVars, ghosts
<1>8. ASSUME NEW h \in Hosts, Error(h) PROVE Stored(d)'
  <2>1. UNCHANGED <<body, meta, bundle, overlapped, torn>> /\ worker[h].pc \notin InPut
    BY <1>8 DEF Error, runVars, casVars, ghosts, InPut
  <2>2. worker'[h].pc = "failing" /\ \A k \in Hosts \ {h} : worker'[k] = worker[k]
    BY <1>8, <1>a, Goes DEF Error, Pcs
  <2> QED BY <1>6, <2>1, <2>2 DEF InPut
<1>9. ASSUME NEW h \in Hosts, NEW r \in Runs, Claim(h, r) PROVE Stored(d)'
  <2>1. UNCHANGED <<body, meta, bundle, overlapped, torn>> /\ worker[h].pc \notin InPut
    BY <1>9 DEF Claim, casVars, ghosts, InPut, Idle
  <2>2. PICK w \in Worker : /\ worker' = [worker EXCEPT ![h] = w]
                            /\ w.pc = IF sealed[r] > 0 THEN "pending"
                                      ELSE IF phase[r] = "PR_DELIVERED" THEN "intent"
                                        ELSE "seal"
    BY <1>9, <1>a, Claims
  <2>3. worker'[h].pc \in {"pending", "intent", "seal"}
          /\ \A k \in Hosts \ {h} : worker'[k] = worker[k]
    BY <1>a, <2>2 DEF WorkerShape
  <2> QED BY <1>6, <2>1, <2>3 DEF InPut
<1>10. ASSUME NEW h \in Hosts, NEW r \in Runs, Acknowledge(h, r) \/ Fire(h, r) PROVE Stored(d)'
  BY <1>6, <1>10 DEF Acknowledge, Fire, runVars, casVars, ghosts
<1>11. ASSUME NEW r \in Runs, Reconcile(r) \/ Age(r) PROVE Stored(d)'
  BY <1>6, <1>11 DEF Reconcile, Age, runVars, casVars, ghosts
<1>12. ASSUME NEW e \in Digests, Expire(e) PROVE Stored(d)'
  BY <1>6, <1>12 DEF Expire, runVars, ghosts
<1>13. ASSUME NEW h \in Hosts, Step(h), ~Put(h), ~Facts(h), ~Verify(h), ~Record(h)
       PROVE  Stored(d)'
  <2>1. UNCHANGED <<body, meta, bundle, overlapped, torn>> /\ worker[h].pc \notin InPut
    BY <1>13 DEF Step, Intend, Confirm, Advance, Seal, Pending, SignTerminal, Terminate,
       FinishPending, Ensure, Release, Fail, runVars, casVars, ghosts, InPut
  <2>2. \/ worker' = [worker EXCEPT ![h] = Idle]
        \/ \E pc \in Pcs \ (InPut \cup {"verify", "record"}) : Go(h, pc)
    BY <1>13 DEF Step, Intend, Confirm, Advance, Seal, Pending, SignTerminal, Terminate,
       FinishPending, Ensure, Release, Fail, Pcs, InPut
  <2>3. worker'[h].pc \notin InPut \cup {"verify", "record"}
          /\ \A k \in Hosts \ {h} : worker'[k] = worker[k]
    <3>1. CASE worker' = [worker EXCEPT ![h] = Idle]  BY <3>1, <1>a DEF WorkerShape, Idle, InPut
    <3>2. ASSUME NEW pc \in Pcs \ (InPut \cup {"verify", "record"}), Go(h, pc)
          PROVE  worker'[h].pc \notin InPut \cup {"verify", "record"}
                   /\ \A k \in Hosts \ {h} : worker'[k] = worker[k]
      BY <3>2, <1>a, Goes
    <3> QED BY <2>2, <3>1, <3>2
  <2> QED BY <1>6, <2>1, <2>3
<1> QED
  BY <1>1, <1>2, <1>3, <1>4, <1>5, <1>7, <1>8, <1>9, <1>10, <1>11, <1>12, <1>13 DEF Next, Step

\* Without an overlap or a torn name, the files of an address are where the one
\* put left them, and a recorded bundle's are complete (put, #installNoOverwrite).
THEOREM StoreInvariant == Spec => []StoreInv
<1>1. EvidenceInv /\ StoreInv /\ [Next]_vars => StoreInv'
  <2>1. ASSUME StoreInv, UNCHANGED vars PROVE StoreInv'
    <3>1. UNCHANGED <<body, meta, bundle, worker, overlapped, torn>>
      BY <2>1 DEF vars, runVars, casVars, ghosts
    <3>2. \A h \in Hosts : Installed(h)'  BY <2>1, <3>1 DEF StoreInv, Installed
    <3>3. ASSUME NEW d \in Digests, Stored(d) PROVE Stored(d)'
      BY <3>1, <3>3, StoredOutside
    <3> QED BY <2>1, <3>1, <3>2, <3>3 DEF StoreInv
  <2>2. ASSUME EvidenceInv, StoreInv, Next PROVE StoreInv'
    <3>1. \A h \in Hosts : Installed(h)'  BY <2>2, InstalledStep DEF EvidenceInv
    <3>2. \A d \in Digests : ~overlapped'[d] /\ ~torn'[d] => Stored(d)'  BY <2>2, StoredStep
    <3> QED BY <3>1, <3>2 DEF StoreInv
  <2> QED BY <2>1, <2>2
<1> QED BY <1>1, StoreInit, EvidenceInvariant, PTL DEF Spec

\* The artifacts of a recorded bundle can be resolved and hashed until their
\* retention ends, unless two puts overlapped or a crash hit between link and
\* unlink.
THEOREM RecordedIsAuditableHolds == Spec => []RecordedIsAuditable
<1>1. StoreInv => RecordedIsAuditable
  BY DEF StoreInv, Stored, Kept, RecordedIsAuditable, Auditable, Readable, Digests
<1> QED BY <1>1, StoreInvariant, PTL
=============================================================================
