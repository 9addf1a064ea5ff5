---------------------------- MODULE AsfEvidence ----------------------------
(***************************************************************************)
(* The evidence of delivered ASF runs, from PR_DELIVERED to the compaction *)
(* of their events: the finalizer (src/src/asf/evidence-finalizer.ts) with *)
(* its material source, the content-addressed store of artifacts           *)
(* (src/src/evidence/filesystem-cas.ts), the signed delivery bundle and    *)
(* the terminal bundle in the state store, the outcome acknowledgement and *)
(* the event retention of the worker service (src/src/asf/service.ts).     *)
(*                                                                         *)
(* Several hosts share the database and the artifact directory.  An owner  *)
(* may turn stale at any time, so a claim never waits.                     *)
(*                                                                         *)
(* Abstractions.  A run stores one artifact, the one whose bytes it may    *)
(* share with other runs; declares has its kind and retention.  A bundle  *)
(* is the part of its bytes that a retry could change: what it says of the *)
(* history, and its timestamp.  An event's time is its number.  The        *)
(* cleanup plan and its seal are one step here (AsfEffects has them).      *)
(***************************************************************************)
EXTENDS Integers, Sequences, FiniteSets

CONSTANTS Hosts,
          Runs,
          Digest(_),     \* the content address of a run's artifact
          Declarations,  \* the declarations that the runs may make of theirs
          ScanLimit,     \* eventRetentionScanLimit
          MaxGen,        \* bound on the claims of a run
          MaxEvents,     \* bound on the events of a run
          MaxFaults      \* bound on crashes, errors and expiries

None == "none"

ASSUME AsfEvidenceAssumption ==
  /\ IsFiniteSet(Runs) /\ Runs \subseteq Nat /\ None \notin Hosts
  /\ ScanLimit \in Nat \ {0}
  /\ {MaxGen, MaxEvents, MaxFaults} \subseteq Nat

Digests == {Digest(r) : r \in Runs}
EventTypes == {"ci.revalidated", "pr.delivered", "run.blocked_external", "run.resumed",
               "evidence.finalized", "run.completed"}
Phases == {"PR_DELIVERED", "BLOCKED_EXTERNAL", "EVIDENCE_FINALIZED", "COMPLETED"}

VARIABLES phase, gen, owner,
          history,     \* history[r]: types of the durable events, by number
          intent,      \* intent[r]: event number of the evidence intent, and whether it is settled
          bundle,      \* bundle[r]: the recorded delivery bundle
          sealed,      \* sealed[r]: time of the sealed terminal intent, 0 if none
          terminal,    \* terminal[r]: the recorded terminal bundle
          acked,       \* acked[r]: the outcome is acknowledged
          aged,        \* aged[r]: the retention floor of the terminal event is over
          compacted,   \* compacted[r]: its events before the last one are gone
          ended,       \* the terminal runs in the order of their last events
          body,        \* body[d]: names of the file d: its own and a temporary one
          meta,        \* meta[d]: the same for its metadata
          declares,    \* declares[r]: the declaration of the artifact of r
          decl,        \* decl[d]: the declaration in the metadata
          expired,     \* expired[d]: its retention is over
          worker,      \* worker[h]: the run executing on h
          up,
          tasks,       \* tasks[h]: runs with a retention task on h
          faults,
          overlapped,  \* two hosts were putting d at the same time
          torn         \* a crash left a temporary name on d or its metadata

runVars == <<phase, gen, owner, history, intent, bundle, sealed, terminal>>
outcomeVars == <<acked, aged, compacted, ended>>
casVars == <<body, meta, declares, decl, expired>>
ghosts == <<overlapped, torn>>
vars == <<runVars, outcomeVars, casVars, worker, up, tasks, faults, ghosts>>

InPut == {"link body", "drop body", "check body", "link meta", "drop meta", "check meta",
          "undo", "read back"}
Pcs == InPut \cup {"idle", "intent", "facts", "verify", "record", "confirm", "advance", "seal",
                   "pending", "sign terminal", "terminate", "finish", "ensure", "release",
                   "failing"}
NoBundle == [delivered |-> 0, at |-> 0]
NoTerminal == [seq |-> 0, delivery |-> NoBundle, at |-> 0]
NoIntent == [seq |-> 0, done |-> FALSE]
Idle == [pc |-> "idle", run |-> 0, gen |-> 0, body |-> FALSE, meta |-> FALSE, pending |-> FALSE]

TypeOK ==
  /\ phase \in [Runs -> Phases] /\ gen \in [Runs -> Nat]
  /\ owner \in [Runs -> Hosts \cup {None}]
  /\ history \in [Runs -> Seq(EventTypes)]
  /\ intent \in [Runs -> [seq : Nat, done : BOOLEAN]] /\ sealed \in [Runs -> Nat]
  /\ bundle \in [Runs -> [delivered : Nat, at : Nat]]
  /\ terminal \in [Runs -> [seq : Nat, delivery : [delivered : Nat, at : Nat], at : Nat]]
  /\ {acked, aged, compacted} \subseteq [Runs -> BOOLEAN] /\ ended \in Seq(Runs)
  /\ {body, meta} \subseteq [Digests -> 0 .. 2]
  /\ decl \in [Digests -> UNION {{f[r] : r \in Runs} : f \in Declarations} \cup {None}]
  /\ declares \in Declarations /\ expired \in [Digests -> BOOLEAN]
  /\ worker \in [Hosts -> [pc : Pcs, run : Runs \cup {0}, gen : Nat,
                           body : BOOLEAN, meta : BOOLEAN, pending : BOOLEAN]]
  /\ up \in [Hosts -> BOOLEAN] /\ tasks \in [Hosts -> SUBSET Runs] /\ faults \in Nat
  /\ {overlapped, torn} \subseteq [Digests -> BOOLEAN]

Init ==
  /\ phase = [r \in Runs |-> "PR_DELIVERED"]
  /\ gen = [r \in Runs |-> 0] /\ owner = [r \in Runs |-> None]
  /\ history = [r \in Runs |-> <<"ci.revalidated", "pr.delivered">>]
  /\ intent = [r \in Runs |-> NoIntent] /\ sealed = [r \in Runs |-> 0]
  /\ bundle = [r \in Runs |-> NoBundle] /\ terminal = [r \in Runs |-> NoTerminal]
  /\ acked = [r \in Runs |-> FALSE] /\ aged = [r \in Runs |-> FALSE]
  /\ compacted = [r \in Runs |-> FALSE] /\ ended = <<>>
  /\ body = [d \in Digests |-> 0] /\ meta = [d \in Digests |-> 0]
  /\ declares \in Declarations
  /\ decl = [d \in Digests |-> None] /\ expired = [d \in Digests |-> FALSE]
  /\ worker = [h \in Hosts |-> Idle] /\ up = [h \in Hosts |-> FALSE]
  /\ tasks = [h \in Hosts |-> {}] /\ faults = 0
  /\ overlapped = [d \in Digests |-> FALSE] /\ torn = [d \in Digests |-> FALSE]

Version(r) == Len(history[r])
D(h) == Digest(worker[h].run)
R(h) == worker[h].run
Fence(h) == owner[R(h)] = h /\ gen[R(h)] = worker[h].gen
Go(h, pc) == worker' = [worker EXCEPT ![h].pc = pc]
Event(r, type, to) ==
  /\ Version(r) < MaxEvents
  /\ history' = [history EXCEPT ![r] = Append(@, type)]
  /\ phase' = [phase EXCEPT ![r] = to]
-----------------------------------------------------------------------------
(* Hosts and ownership. *)

\* The candidates of listAsfEventRetentionCandidates, oldest terminal event first.
Candidate(r) == acked[r] /\ terminal[r] # NoTerminal /\ ~compacted[r]
Window(done) ==
  LET waiting == SelectSeq(ended, LAMBDA r : Candidate(r) /\ r \notin done)
  IN  {waiting[n] : n \in (1 .. ScanLimit) \cap DOMAIN waiting}

\* A host starts: recover() schedules the first window of the durable candidates.
Start(h) ==
  /\ ~up[h]
  /\ up' = [up EXCEPT ![h] = TRUE]
  /\ tasks' = [tasks EXCEPT ![h] = Window({})]
  /\ UNCHANGED <<runVars, outcomeVars, casVars, worker, faults, ghosts>>

\* The process dies.  Between link and unlink it leaves the temporary name.
Crash(h) ==
  /\ up[h] /\ faults < MaxFaults
  /\ faults' = faults + 1
  /\ up' = [up EXCEPT ![h] = FALSE]
  /\ worker' = [worker EXCEPT ![h] = Idle]
  /\ tasks' = [tasks EXCEPT ![h] = {}]
  /\ torn' = IF \/ worker[h].pc = "drop body" /\ worker[h].body
                \/ worker[h].pc = "drop meta" /\ worker[h].meta
             THEN [torn EXCEPT ![D(h)] = TRUE] ELSE torn
  /\ UNCHANGED <<runVars, outcomeVars, casVars, overlapped>>

\* claimAsfRun: a run that is neither terminal nor paused gets a new generation.
\* Its runner finishes a terminal plan before anything else.
Claim(h, r) ==
  /\ up[h] /\ worker[h] = Idle /\ gen[r] < MaxGen
  /\ phase[r] \in {"PR_DELIVERED", "EVIDENCE_FINALIZED"}
  /\ gen' = [gen EXCEPT ![r] = @ + 1] /\ owner' = [owner EXCEPT ![r] = h]
  /\ worker' = [worker EXCEPT ![h] =
       [Idle EXCEPT !.pc = IF sealed[r] > 0 THEN "pending"
                           ELSE IF phase[r] = "PR_DELIVERED" THEN "intent" ELSE "seal",
                    !.run = r, !.gen = gen[r] + 1, !.pending = sealed[r] > 0]]
  /\ UNCHANGED <<phase, history, intent, bundle, sealed, terminal, outcomeVars, casVars,
                 up, tasks, faults, ghosts>>

\* A stage throws for a reason of its own (a full disk, a lost database lock).
Error(h) ==
  /\ worker[h].pc \in {"facts", "verify", "record", "advance", "sign terminal", "terminate",
                       "finish"}
  /\ faults < MaxFaults
  /\ faults' = faults + 1
  /\ Go(h, "failing")
  /\ UNCHANGED <<runVars, outcomeVars, casVars, up, tasks, ghosts>>

\* Mutant: the failure is recorded over an immutable terminal plan.
FailOverPlan(h) ==
  /\ worker[h].pc = "failing"
  /\ worker' = [worker EXCEPT ![h] = Idle]
  /\ IF Fence(h)
     THEN /\ Event(R(h), "run.blocked_external", "BLOCKED_EXTERNAL")
          /\ owner' = [owner EXCEPT ![R(h)] = None]
     ELSE UNCHANGED <<phase, history, owner>>
  /\ UNCHANGED <<gen, intent, bundle, sealed, terminal, outcomeVars, casVars, up, tasks,
                 faults, ghosts>>

\* #recordRunnerFailure: the owner pauses the run and lets go of it.  A terminal
\* plan owns the next event: with one, the run is only released, to be retried.
Fail(h) ==
  /\ worker[h].pc = "failing"
  /\ worker' = [worker EXCEPT ![h] = Idle]
  /\ owner' = IF Fence(h) THEN [owner EXCEPT ![R(h)] = None] ELSE owner
  /\ IF Fence(h) /\ sealed[R(h)] = 0
     THEN Event(R(h), "run.blocked_external", "BLOCKED_EXTERNAL")
     ELSE UNCHANGED <<phase, history>>
  /\ UNCHANGED <<gen, intent, bundle, sealed, terminal, outcomeVars, casVars, up, tasks,
                 faults, ghosts>>

\* The reconciliation of the open evidence intent resumes the run; the next
\* intent keeps the event number of the interrupted one.
Reconcile(r) ==
  /\ phase[r] = "BLOCKED_EXTERNAL" /\ intent[r].seq > 0 /\ ~intent[r].done
  /\ Event(r, "run.resumed", "PR_DELIVERED")
  /\ intent' = [intent EXCEPT ![r].done = bundle[r] # NoBundle]
  /\ UNCHANGED <<gen, owner, bundle, sealed, terminal, outcomeVars, casVars, worker, up,
                 tasks, faults, ghosts>>
-----------------------------------------------------------------------------
(* The evidence stage. *)

\* #intent: created at the current event, or the one of the interrupted attempt.
Intend(h) ==
  /\ worker[h].pc = "intent"
  /\ IF Fence(h)
     THEN /\ Go(h, "facts")
          /\ intent' = IF intent[R(h)].seq > 0 THEN intent
                       ELSE [intent EXCEPT ![R(h)] = [seq |-> Version(R(h)), done |-> FALSE]]
     ELSE Go(h, "failing") /\ UNCHANGED intent
  /\ UNCHANGED <<phase, gen, owner, history, bundle, sealed, terminal, outcomeVars, casVars,
                 up, tasks, faults, ghosts>>

\* assertAdmission: an owned snapshot in PR_DELIVERED.
AdmissionBinds(h) == phase[R(h)] = "PR_DELIVERED" /\ owner[R(h)] # None /\ gen[R(h)] = worker[h].gen

\* assertIntent: the intent is of the latest event.
IntentBinds(h) == intent[R(h)].seq = Version(R(h))

\* listAsfRunEvents from the first event on has no gap.
WholeHistory(r) == ~compacted[r]

\* assertEvents: nothing is compacted, and the history ends where the snapshot is.
HistoryBinds(h) == WholeHistory(R(h)) /\ history[R(h)][Version(R(h))] \in {"pr.delivered", "run.resumed"}

\* The delivery rests on the observation of CI that precedes it.
Delivered(r) == CHOOSE n \in 2 .. Version(r) :
                  history[r][n] = "pr.delivered" /\ history[r][n - 1] = "ci.revalidated"

\* captureAuthoritativeFacts: without all of it the stage throws.
Facts(h) ==
  /\ worker[h].pc = "facts"
  /\ Go(h, IF AdmissionBinds(h) /\ IntentBinds(h) /\ HistoryBinds(h)
           THEN "link body" ELSE "failing")
  /\ overlapped' = IF \E o \in Hosts \ {h} : worker[o].pc \in InPut /\ D(o) = D(h)
                   THEN [overlapped EXCEPT ![D(h)] = TRUE] ELSE overlapped
  /\ UNCHANGED <<runVars, outcomeVars, casVars, up, tasks, faults, torn>>

\* #installNoOverwrite: link the temporary file to its address, unless taken ...
LinkBody(h) ==
  /\ worker[h].pc = "link body"
  /\ worker' = [worker EXCEPT ![h].pc = "drop body", ![h].body = body[D(h)] = 0]
  /\ body' = IF body[D(h)] = 0 THEN [body EXCEPT ![D(h)] = 2] ELSE body
  /\ UNCHANGED <<runVars, outcomeVars, meta, declares, decl, expired, up, tasks, faults, ghosts>>

\* ... and remove the temporary name.
DropBody(h) ==
  /\ worker[h].pc = "drop body"
  /\ Go(h, "check body")
  /\ body' = IF worker[h].body /\ body[D(h)] = 2 THEN [body EXCEPT ![D(h)] = 1] ELSE body
  /\ UNCHANGED <<runVars, outcomeVars, meta, declares, decl, expired, up, tasks, faults, ghosts>>

\* assertPrivateRegularFile: a single name, or the put is refused.
CheckBody(h) ==
  /\ worker[h].pc = "check body"
  /\ Go(h, IF body[D(h)] = 1 THEN "link meta" ELSE "undo")
  /\ UNCHANGED <<runVars, outcomeVars, casVars, up, tasks, faults, ghosts>>

LinkMeta(h) ==
  /\ worker[h].pc = "link meta"
  /\ worker' = [worker EXCEPT ![h].pc = "drop meta", ![h].meta = meta[D(h)] = 0]
  /\ IF meta[D(h)] = 0
     THEN /\ meta' = [meta EXCEPT ![D(h)] = 2]
          /\ decl' = [decl EXCEPT ![D(h)] = declares[R(h)]]
     ELSE UNCHANGED <<meta, decl>>
  /\ UNCHANGED <<runVars, outcomeVars, body, declares, expired, up, tasks, faults, ghosts>>

DropMeta(h) ==
  /\ worker[h].pc = "drop meta"
  /\ Go(h, "check meta")
  /\ meta' = IF worker[h].meta THEN [meta EXCEPT ![D(h)] = 1] ELSE meta
  /\ UNCHANGED <<runVars, outcomeVars, body, declares, decl, expired, up, tasks, faults, ghosts>>

\* The durable declaration must be the requested one ...
SameDeclaration(h) == meta[D(h)] = 1 /\ decl[D(h)] = declares[R(h)]

\* ... and a body just installed must not find metadata there before it.
MetadataFirst(h) == worker[h].body /\ ~worker[h].meta

CheckMeta(h) ==
  /\ worker[h].pc = "check meta"
  /\ Go(h, IF SameDeclaration(h) /\ ~MetadataFirst(h) THEN "read back" ELSE "undo")
  /\ UNCHANGED <<runVars, outcomeVars, casVars, up, tasks, faults, ghosts>>

\* Mutant: a refused put removes the body whoever installed it.
UndoAlways(h) ==
  /\ worker[h].pc = "undo"
  /\ Go(h, "failing")
  /\ body' = [body EXCEPT ![D(h)] = 0]
  /\ UNCHANGED <<runVars, outcomeVars, meta, declares, decl, expired, up, tasks, faults, ghosts>>

\* A refused put removes the body it installed; the metadata stays.
Undo(h) ==
  /\ worker[h].pc = "undo"
  /\ Go(h, "failing")
  /\ body' = IF worker[h].body THEN [body EXCEPT ![D(h)] = 0] ELSE body
  /\ UNCHANGED <<runVars, outcomeVars, meta, declares, decl, expired, up, tasks, faults, ghosts>>

\* read: body and metadata have a single name and the retention is not over.
Readable(d) == body[d] = 1 /\ meta[d] = 1 /\ ~expired[d]

ReadBack(h) ==
  /\ worker[h].pc = "read back"
  /\ Go(h, IF Readable(D(h)) THEN "verify" ELSE "failing")
  /\ UNCHANGED <<runVars, outcomeVars, casVars, up, tasks, faults, ghosts>>

\* verifyAsfEvidenceArtifactContents reads every declared artifact again.
Verify(h) ==
  /\ worker[h].pc = "verify"
  /\ Go(h, IF Readable(D(h)) THEN "record" ELSE "failing")
  /\ UNCHANGED <<runVars, outcomeVars, casVars, up, tasks, faults, ghosts>>

\* What the material source says of the run: the delivery event it rests on.
Statement(r) == Delivered(r)

\* Mutant: the bundle is dated by the attempt that signs it.
SignedNow(h) == [delivered |-> Statement(R(h)), at |-> Version(R(h)) + worker[h].gen]

\* The signed delivery bundle, dated by the durable intent.
Signed(h) == [delivered |-> Statement(R(h)), at |-> intent[R(h)].seq]

\* recordAsfEvidenceBundle: once, and afterwards only the same bytes.
Record(h) ==
  /\ worker[h].pc = "record"
  /\ LET r == R(h) IN
     IF Fence(h) /\ phase[r] = "PR_DELIVERED" /\ bundle[r] \in {NoBundle, Signed(h)}
     THEN Go(h, "confirm") /\ bundle' = [bundle EXCEPT ![r] = Signed(h)]
     ELSE Go(h, "failing") /\ UNCHANGED bundle
  /\ UNCHANGED <<phase, gen, owner, history, intent, sealed, terminal, outcomeVars, casVars,
                 up, tasks, faults, ghosts>>

\* The evidence intent is confirmed with the digest of the bundle ...
Confirm(h) ==
  /\ worker[h].pc = "confirm"
  /\ IF Fence(h) THEN Go(h, "advance") /\ intent' = [intent EXCEPT ![R(h)].done = TRUE]
                 ELSE Go(h, "failing") /\ UNCHANGED intent
  /\ UNCHANGED <<phase, gen, owner, history, bundle, sealed, terminal, outcomeVars, casVars,
                 up, tasks, faults, ghosts>>

\* ... and the run goes on.
Advance(h) ==
  /\ worker[h].pc = "advance"
  /\ IF Fence(h) THEN Go(h, "seal") /\ Event(R(h), "evidence.finalized", "EVIDENCE_FINALIZED")
                 ELSE Go(h, "failing") /\ UNCHANGED <<phase, history>>
  /\ UNCHANGED <<gen, owner, intent, bundle, sealed, terminal, outcomeVars, casVars, up,
                 tasks, faults, ghosts>>
-----------------------------------------------------------------------------
(* The terminal evidence. *)

\* The cleanup is done and sealed with the time at which it was; a retry finds it.
Seal(h) ==
  /\ worker[h].pc = "seal"
  /\ IF Fence(h)
     THEN /\ Go(h, "sign terminal")
          /\ sealed' = IF sealed[R(h)] > 0 THEN sealed
                       ELSE [sealed EXCEPT ![R(h)] = Version(R(h)) + gen[R(h)]]
     ELSE Go(h, "failing") /\ UNCHANGED sealed
  /\ UNCHANGED <<phase, gen, owner, history, intent, bundle, terminal, outcomeVars, casVars,
                 up, tasks, faults, ghosts>>

\* finalizeTerminal: the statement of the next event, dated by the sealed intent.
TerminalStatement(r) ==
  [seq |-> Version(r) + 1, delivery |-> bundle[r], at |-> sealed[r]]

\* assertInput: the whole history is there, the sealed intent is not older than
\* its last event, and a completed run has a delivery bundle.
TerminalBinds(r) == WholeHistory(r) /\ sealed[r] >= Version(r) /\ bundle[r] # NoBundle

\* recordAsfTerminalEvidenceBundle: the statement covers the events on record
\* and chains to the delivery bundle.
TerminalChains(r, t) == WholeHistory(r) /\ t.seq = Version(r) + 1 /\ t.delivery = bundle[r]

\* getAsfTerminalEvidenceBundle: a stored statement is that of the sealed intent.
TerminalDecodes(r) ==
  terminal[r] # NoTerminal => terminal[r].at = sealed[r] /\ terminal[r].delivery = bundle[r]

\* recordAsfTerminalEvidenceBundle: once; a recorded one is not signed again.
RecordedTerminal(r) == IF terminal[r] = NoTerminal THEN TerminalStatement(r) ELSE terminal[r]

SignTerminal(h) ==
  /\ worker[h].pc = "sign terminal"
  /\ IF Fence(h) /\ TerminalBinds(R(h)) /\ TerminalDecodes(R(h))
        /\ TerminalChains(R(h), RecordedTerminal(R(h)))
     THEN /\ Go(h, IF worker[h].pending THEN "finish" ELSE "terminate")
          /\ terminal' = [terminal EXCEPT ![R(h)] = RecordedTerminal(R(h))]
     ELSE Go(h, "failing") /\ UNCHANGED terminal
  /\ UNCHANGED <<phase, gen, owner, history, intent, bundle, sealed, outcomeVars, casVars,
                 up, tasks, faults, ghosts>>

\* The terminal event carries the digest of the terminal bundle.
Terminate(h) ==
  /\ worker[h].pc = "terminate"
  /\ IF Fence(h) /\ terminal[R(h)].seq = Version(R(h)) + 1
     THEN /\ Go(h, "ensure")
          /\ Event(R(h), "run.completed", "COMPLETED")
          /\ ended' = Append(ended, R(h))
     ELSE Go(h, "failing") /\ UNCHANGED <<phase, history, ended>>
  /\ UNCHANGED <<gen, owner, intent, bundle, sealed, terminal, acked, aged, compacted,
                 casVars, up, tasks, faults, ghosts>>

\* #ensureTerminalEvidence: the runner looks at its terminal run once more.
Ensure(h) ==
  /\ worker[h].pc = "ensure"
  /\ Go(h, IF TerminalDecodes(R(h)) /\ terminal[R(h)].seq = Version(R(h))
           THEN "release" ELSE "failing")
  /\ UNCHANGED <<runVars, outcomeVars, casVars, up, tasks, faults, ghosts>>

\* #finishPendingTerminalPlan: a successor finds the plan sealed.  It signs the
\* terminal bundle if there is none ...
Pending(h) ==
  /\ worker[h].pc = "pending"
  /\ Go(h, IF terminal[R(h)] = NoTerminal THEN "sign terminal"
           ELSE IF TerminalDecodes(R(h)) THEN "finish" ELSE "failing")
  /\ UNCHANGED <<runVars, outcomeVars, casVars, up, tasks, faults, ghosts>>

\* #finishPendingTerminalEvidence: the recorded bundle is of the next event, of
\* the whole history and of the delivery bundle.
PendingBinds(r) ==
  /\ terminal[r].seq = Version(r) + 1 /\ WholeHistory(r)
  /\ terminal[r].delivery = bundle[r] /\ bundle[r] # NoBundle

\* ... and appends the event that the bundle is about, whoever signed it.
FinishPending(h) ==
  /\ worker[h].pc = "finish"
  /\ IF Fence(h) /\ PendingBinds(R(h))
     THEN /\ Go(h, "release")
          /\ Event(R(h), "run.completed", "COMPLETED")
          /\ ended' = Append(ended, R(h))
     ELSE Go(h, "failing") /\ UNCHANGED <<phase, history, ended>>
  /\ UNCHANGED <<gen, owner, intent, bundle, sealed, terminal, acked, aged, compacted,
                 casVars, up, tasks, faults, ghosts>>

\* #releaseFinishedOwnership
Release(h) ==
  /\ worker[h].pc = "release"
  /\ worker' = [worker EXCEPT ![h] = Idle]
  /\ owner' = IF Fence(h) THEN [owner EXCEPT ![R(h)] = None] ELSE owner
  /\ UNCHANGED <<phase, gen, history, intent, bundle, sealed, terminal, outcomeVars, casVars,
                 up, tasks, faults, ghosts>>
-----------------------------------------------------------------------------
(* Acknowledgement and retention. *)

\* acknowledgeAsfOutcome: the terminal bundle of the last event of a terminal run.
Acknowledgeable(r) == phase[r] = "COMPLETED" /\ terminal[r].seq = Version(r)

\* acknowledgeOutcome through h, which schedules the compaction.
Acknowledge(h, r) ==
  /\ up[h] /\ Acknowledgeable(r) /\ ~acked[r]
  /\ acked' = [acked EXCEPT ![r] = TRUE]
  /\ tasks' = [tasks EXCEPT ![h] = @ \cup {r}]
  /\ UNCHANGED <<runVars, aged, compacted, ended, casVars, worker, up, faults, ghosts>>

\* The retention floor passes.
Age(r) ==
  /\ phase[r] = "COMPLETED" /\ ~aged[r]
  /\ aged' = [aged EXCEPT ![r] = TRUE]
  /\ UNCHANGED <<runVars, acked, compacted, ended, casVars, worker, up, tasks, faults, ghosts>>

\* Mutant: the lifecycle owner is not looked for.
MayCompactOwned(r) == Candidate(r) /\ aged[r]

\* compactAsfRunEvents
MayCompact(r) == Candidate(r) /\ aged[r] /\ owner[r] = None

\* #runEventRetentionMaintenance: compact, then fill the window again.  A task
\* that comes too early, or finds the run owned, only schedules itself again.
Fire(h, r) ==
  /\ r \in tasks[h]
  /\ MayCompact(r) \/ ~Candidate(r)
  /\ compacted' = IF Candidate(r) THEN [compacted EXCEPT ![r] = TRUE] ELSE compacted
  /\ tasks' = [tasks EXCEPT ![h] = (@ \ {r}) \cup Window({r})]
  /\ UNCHANGED <<runVars, acked, aged, ended, casVars, worker, up, faults, ghosts>>

\* The retention of an artifact ends; nothing renews it.
Expire(d) ==
  /\ meta[d] > 0 /\ ~expired[d] /\ faults < MaxFaults
  /\ faults' = faults + 1
  /\ expired' = [expired EXCEPT ![d] = TRUE]
  /\ UNCHANGED <<runVars, outcomeVars, body, meta, declares, decl, worker, up, tasks, ghosts>>
-----------------------------------------------------------------------------
Put(h) == LinkBody(h) \/ DropBody(h) \/ CheckBody(h) \/ LinkMeta(h) \/ DropMeta(h)
          \/ CheckMeta(h) \/ Undo(h) \/ ReadBack(h)

Step(h) == \/ Intend(h) \/ Facts(h) \/ Put(h) \/ Verify(h) \/ Record(h) \/ Confirm(h)
           \/ Advance(h) \/ Seal(h) \/ Pending(h) \/ SignTerminal(h) \/ Terminate(h)
           \/ FinishPending(h) \/ Ensure(h) \/ Release(h) \/ Fail(h)

Next ==
  \/ \E h \in Hosts : Start(h) \/ Crash(h) \/ Error(h) \/ Step(h)
  \/ \E h \in Hosts, r \in Runs : Claim(h, r) \/ Acknowledge(h, r) \/ Fire(h, r)
  \/ \E r \in Runs : Reconcile(r) \/ Age(r)
  \/ \E d \in Digests : Expire(d)

Spec == Init /\ [][Next]_vars
-----------------------------------------------------------------------------
(* What the readers of the evidence require. *)

\* getEvidence: a run that claims evidence has the bundle.
DeliveryView(r) == phase[r] \in {"EVIDENCE_FINALIZED", "COMPLETED"} => bundle[r] # NoBundle

\* assertTerminalBundleBindings: of the latest event in a terminal run, of the
\* next one in any other, and of the recorded delivery bundle.
TerminalView(r) ==
  /\ phase[r] = "COMPLETED" => terminal[r] # NoTerminal
  /\ terminal[r] # NoTerminal =>
       /\ terminal[r].delivery = bundle[r]
       /\ terminal[r].seq = Version(r) + (IF phase[r] = "COMPLETED" THEN 0 ELSE 1)

\* verifyPortableAsfEvidenceBundle reads and hashes every declared artifact.
Auditable(r) == Readable(Digest(r))
-----------------------------------------------------------------------------
(* Properties. *)

\* The finalizer's comment says its bundle is byte-identical after a crash: an
\* owner that comes to record a run whose bundle a predecessor recorded, for the
\* same interrupted attempt, has signed the same bytes, so the store takes it.
RetryFindsItsBundle ==
  \A h \in Hosts : worker[h].pc = "record" /\ Fence(h) /\ bundle[R(h)] # NoBundle
                      => Signed(h) = bundle[R(h)]

\* getEvidence (evidence-service.ts) never finds records that contradict the
\* run: delivery evidence from EVIDENCE_FINALIZED on, terminal evidence of the
\* latest event in a terminal run, and of the next event in any other.
ViewIsConsistent == \A r \in Runs : DeliveryView(r) /\ TerminalView(r)

\* A run with a lifecycle owner keeps its whole history, which that owner signs
\* and resumes from, whatever the retention of the other hosts does.
OwnerKeepsHistory == \A r \in Runs : owner[r] # None => ~compacted[r]

\* The artifacts of a recorded bundle can be resolved and hashed again
\* (portable-verifier.ts) until their retention ends, unless two puts of the
\* same bytes overlapped or a crash hit between link and unlink.
RecordedIsAuditable ==
  \A r \in Runs : bundle[r] # NoBundle /\ ~overlapped[Digest(r)] /\ ~torn[Digest(r)]
                  /\ ~expired[Digest(r)] => Auditable(r)
=============================================================================
