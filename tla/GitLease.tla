------------------------------ MODULE GitLease ------------------------------
(***************************************************************************)
(* The distributed lease of one issue, built on an atomic git ref          *)
(* (src/src/queue/git-lease.ts, class GitRefLease).                        *)
(*                                                                         *)
(* A run is one GitRefLease instance: one process, one runId.  The remote  *)
(* ref is either absent or names one orphan commit whose message is the    *)
(* lease record; the commit's identity and dates are fixed, so the object  *)
(* id is a function of the record and "same object" is "same record".      *)
(* Refs of different issues never interact: the module models one ref.     *)
(*                                                                         *)
(* Every remote call is a step of its own, so other runs act between a     *)
(* read and the push that relies on it, a reply can be lost after the      *)
(* server applied the push, and a process can die anywhere.                *)
(***************************************************************************)
EXTENDS Integers

CONSTANTS Runs,      \* run ids, one per process
          Priors,    \* workflow state and assignee an issue had before its claim
          NoPrior,   \* the undefined prior of a takeover of an absent lease
          NoLease,   \* the ref does not exist
          Ttl,       \* options.ttlMinutes
          Grace,     \* options.takeoverGraceMinutes
          MaxTime    \* bound on the clock, for model checking only

ASSUME LeaseAssumption ==
  /\ Ttl \in Nat
  /\ Grace \in Nat
  /\ MaxTime \in Nat
  /\ NoPrior \notin Priors

Record == [run : Runs, gen : Nat \ {0}, expiresAt : Nat, prior : Priors \cup {NoPrior}]

ASSUME NoLeaseAssumption == NoLease \notin Record

VARIABLES ref,    \* the remote ref: the record it points at, or NoLease
          now,    \* clock.now()
          pc,     \* where each run's current lease call stands
          next,   \* next[r]: the record of r's push in flight
          token,  \* token[r]: the record r's compare-and-swap expects
          held,   \* held[r]: the HeldLease handle minted for r, or NoLease
          lost    \* history: the ref named r and then stopped naming it

vars == <<ref, now, pc, next, token, held, lost>>

(***************************************************************************)
(* "idle": no call made.  "claiming": acquire's push is in flight.         *)
(* "diagnosing": that push failed and acquire is about to read the ref.    *)
(* "stealing": takeover has read a stale record and its push is in flight. *)
(* "owner": the run holds a handle and is between calls.  "fenced":        *)
(* assertHeld returned and the guarded mutation has not been issued yet.   *)
(* "releasing": release has passed its own assertHeld.                     *)
(***************************************************************************)
States == {"idle", "claiming", "diagnosing", "stealing", "owner", "fenced",
           "releasing", "done", "conflict", "error", "dead"}

\* States in which the process is over and makes no further call.
Over == {"done", "conflict", "error", "dead"}

TypeOK ==
  /\ ref \in Record \cup {NoLease}
  /\ now \in Nat
  /\ pc \in [Runs -> States]
  /\ next \in [Runs -> Record \cup {NoLease}]
  /\ token \in [Runs -> Record \cup {NoLease}]
  /\ held \in [Runs -> Record \cup {NoLease}]
  /\ lost \in [Runs -> BOOLEAN]

Init ==
  /\ ref = NoLease
  /\ now = 0
  /\ pc = [r \in Runs |-> "idle"]
  /\ next = [r \in Runs |-> NoLease]
  /\ token = [r \in Runs |-> NoLease]
  /\ held = [r \in Runs |-> NoLease]
  /\ lost = [r \in Runs |-> FALSE]

-----------------------------------------------------------------------------
(* Helpers *)

BuildRecord(r, gen, prior) ==
  [run |-> r, gen |-> gen, expiresAt |-> now + Ttl, prior |-> prior]

\* A mutant: staleness without the grace window, and inclusive.
IsStaleAtExpiry(rec) == now >= rec.expiresAt

IsStale(rec) == now > rec.expiresAt + Grace

\* A mutant: the fence compares only one half of the handle.
FenceIgnoresRun(r) == ref # NoLease /\ ref.gen = held[r].gen

\* assertHeld succeeds: the ref exists and names this run at this generation.
PassesFence(r) ==
  /\ ref # NoLease
  /\ ref.run = held[r].run
  /\ ref.gen = held[r].gen

\* --force-with-lease=ref:objectId lets the server move the ref.
CasAccepts(expected) == ref = expected

\* The server moves the ref to rec (or deletes it), and the run it named,
\* if another than the one it names afterwards, has lost the lease.
MoveRef(rec) ==
  /\ ref' = rec
  /\ lost' = [s \in Runs |->
                \/ lost[s]
                \/ /\ ref # NoLease
                   /\ ref.run = s
                   /\ (rec = NoLease \/ rec.run # s)]

\* The run goes on with its next call and keeps its handle.
Goto(r, s) ==
  /\ pc' = [pc EXCEPT ![r] = s]
  /\ next' = [next EXCEPT ![r] = NoLease]
  /\ token' = [token EXCEPT ![r] = NoLease]
  /\ UNCHANGED held

\* The run obtains a handle.
Mint(r, rec) ==
  /\ pc' = [pc EXCEPT ![r] = "owner"]
  /\ held' = [held EXCEPT ![r] = rec]
  /\ next' = [next EXCEPT ![r] = NoLease]
  /\ token' = [token EXCEPT ![r] = NoLease]

\* The process stops, or its run ends with the error it was thrown.
Finish(r, s) ==
  /\ s \in Over
  /\ pc' = [pc EXCEPT ![r] = s]
  /\ held' = [held EXCEPT ![r] = NoLease]
  /\ next' = [next EXCEPT ![r] = NoLease]
  /\ token' = [token EXCEPT ![r] = NoLease]

-----------------------------------------------------------------------------
(* acquire *)

\* acquire builds the record and starts the push of a new ref.
StartAcquire(r, prior) ==
  /\ pc[r] = "idle"
  /\ pc' = [pc EXCEPT ![r] = "claiming"]
  /\ next' = [next EXCEPT ![r] = BuildRecord(r, 1, prior)]
  /\ UNCHANGED <<ref, now, token, held, lost>>

\* The plain push of an orphan commit: the server creates the ref only when
\* it is absent (or already points at the very same object).
PushCreates(r) == ref \in {NoLease, next[r]}

AcquireOk(r) ==
  /\ pc[r] = "claiming"
  /\ PushCreates(r)
  /\ MoveRef(next[r])
  /\ Mint(r, next[r])
  /\ UNCHANGED now

\* The push throws: the server refused it, it never arrived, or the server
\* created the ref and the reply was lost.
AcquirePushFails(r) ==
  /\ pc[r] = "claiming"
  /\ \/ UNCHANGED <<ref, lost>>
     \/ PushCreates(r) /\ MoveRef(next[r])
  /\ Goto(r, "diagnosing")
  /\ UNCHANGED now

\* acquire's catch block reads the ref to tell contention from failure; a
\* read that itself throws counts as "no lease exists".
AcquireDiagnoses(r) ==
  /\ pc[r] = "diagnosing"
  /\ \/ ref # NoLease /\ Finish(r, "conflict")
     \/ Finish(r, "error")
  /\ UNCHANGED <<ref, now, lost>>

-----------------------------------------------------------------------------
(* heartbeat *)

\* The renewed record: same generation, same prior, new expiry.
Renewal(r) == BuildRecord(r, held[r].gen, held[r].prior)

\* heartbeat's compare-and-swap.
HeartbeatOk(r) ==
  /\ pc[r] = "owner"
  /\ CasAccepts(held[r])
  /\ MoveRef(Renewal(r))
  /\ Mint(r, Renewal(r))
  /\ UNCHANGED now

\* heartbeat throws: the caller keeps its old handle whether or not the
\* server applied the push.
HeartbeatFails(r) ==
  /\ pc[r] = "owner"
  /\ \/ UNCHANGED <<ref, lost>>
     \/ /\ CasAccepts(held[r])
        /\ MoveRef(Renewal(r))
  /\ Goto(r, "owner") \/ Finish(r, "conflict")
  /\ UNCHANGED now

-----------------------------------------------------------------------------
(* assertHeld and the mutation it guards *)

\* assertHeld: the read may throw, the fence may refuse, or the run may go
\* on to its mutation.
AssertHeld(r) ==
  /\ pc[r] = "owner"
  /\ \/ PassesFence(r) /\ Goto(r, "fenced")
     \/ ~PassesFence(r) /\ Finish(r, "conflict")
     \/ Finish(r, "error")
  /\ UNCHANGED <<ref, now, lost>>

\* The external mutation issued after the fence (push, open-pr, merge, ...).
Mutate(r) ==
  /\ pc[r] = "fenced"
  /\ Goto(r, "owner")
  /\ UNCHANGED <<ref, now, lost>>

-----------------------------------------------------------------------------
(* takeover *)

\* The record of the run that takes rec over: next generation, same prior.
Successor(r, rec) == BuildRecord(r, rec.gen + 1, rec.prior)

\* takeover reads a stale record and builds its successor; a live record is
\* refused, which changes nothing.
TakeoverReadStale(r) ==
  /\ pc[r] = "idle"
  /\ ref # NoLease
  /\ IsStale(ref)
  /\ pc' = [pc EXCEPT ![r] = "stealing"]
  /\ token' = [token EXCEPT ![r] = ref]
  /\ next' = [next EXCEPT ![r] = Successor(r, ref)]
  /\ UNCHANGED <<ref, now, held, lost>>

\* takeover of an absent lease is a plain acquire without a prior.
TakeoverReadAbsent(r) ==
  /\ ref = NoLease
  /\ StartAcquire(r, NoPrior)

TakeoverOk(r) ==
  /\ pc[r] = "stealing"
  /\ CasAccepts(token[r])
  /\ MoveRef(next[r])
  /\ Mint(r, next[r])
  /\ UNCHANGED now

\* The push throws, applied or not; compareAndSwap reports a conflict.
TakeoverFails(r) ==
  /\ pc[r] = "stealing"
  /\ \/ UNCHANGED <<ref, lost>>
     \/ CasAccepts(token[r]) /\ MoveRef(next[r])
  /\ Finish(r, "conflict")
  /\ UNCHANGED now

-----------------------------------------------------------------------------
(* release *)

\* release asserts ownership first and throws when the fence refuses.
ReleaseAsserts(r) ==
  /\ pc[r] = "owner"
  /\ \/ PassesFence(r) /\ Goto(r, "releasing")
     \/ ~PassesFence(r) /\ Finish(r, "conflict")
     \/ Finish(r, "error")
  /\ UNCHANGED <<ref, now, lost>>

\* The deletion is a compare-and-swap against the handle's object id.
DeletesOwn(r) == CasAccepts(held[r])

ReleaseDelete(r) ==
  /\ pc[r] = "releasing"
  /\ \/ /\ DeletesOwn(r)
        /\ MoveRef(NoLease)
        /\ Finish(r, "done") \/ Finish(r, "error")   \* the reply may be lost
     \/ /\ UNCHANGED <<ref, lost>>
        /\ Finish(r, "error")
  /\ UNCHANGED now

-----------------------------------------------------------------------------
(* The environment *)

\* The process dies; its remote state stays.
Crash(r) ==
  /\ pc[r] \notin Over
  /\ Finish(r, "dead")
  /\ UNCHANGED <<ref, now, lost>>

\* The documented manual recovery: an operator deletes the ref of a run
\* whose process is known to be over.
OperatorDeletes ==
  /\ ref # NoLease
  /\ pc[ref.run] \in Over
  /\ MoveRef(NoLease)
  /\ UNCHANGED <<now, pc, next, token, held>>

Tick ==
  /\ now < MaxTime
  /\ now' = now + 1
  /\ UNCHANGED <<ref, pc, next, token, held, lost>>

RunStep(r) ==
  \/ \E p \in Priors : StartAcquire(r, p)
  \/ AcquireOk(r)
  \/ AcquirePushFails(r)
  \/ AcquireDiagnoses(r)
  \/ HeartbeatOk(r)
  \/ HeartbeatFails(r)
  \/ AssertHeld(r)
  \/ Mutate(r)
  \/ TakeoverReadStale(r)
  \/ TakeoverReadAbsent(r)
  \/ TakeoverOk(r)
  \/ TakeoverFails(r)
  \/ ReleaseAsserts(r)
  \/ ReleaseDelete(r)
  \/ Crash(r)

Next ==
  \/ \E r \in Runs : RunStep(r)
  \/ OperatorDeletes
  \/ Tick

Spec == Init /\ [][Next]_vars

-----------------------------------------------------------------------------
(* Properties *)

\* A run the lease has moved away from never passes the fence again, however
\* often the ref is taken over, released and created anew.  The generation
\* alone does not give this: a lease created after a release starts at
\* generation 1 again (git-lease.ts acquire), so assertHeld must compare the
\* run id as well.
FencedOutStaysOut ==
  \A r \in Runs : lost[r] => ~(held[r] # NoLease /\ PassesFence(r))

\* A run that is acting on a handle holds its own handle, and the ref never
\* names that run at another generation than the handle's: no stale handle
\* of the current owner exists for the generation check to miss.
HandleMatchesOwnRef ==
  \A r \in Runs :
    pc[r] \in {"owner", "fenced", "releasing"} =>
      /\ held[r] # NoLease
      /\ held[r].run = r
      /\ (ref # NoLease /\ ref.run = r => ref.gen = held[r].gen)

\* A lease passes from one run to another only after its expiry plus the
\* grace window, even when the owner renews it between the taker's read and
\* the taker's push (compareAndSwap).
NoEarlySteal ==
  [][\A r \in Runs :
       ref # NoLease /\ ref' # NoLease /\ ref.run = r /\ ref'.run # r
         => now > ref.expiresAt + Grace]_vars

\* While the ref exists, what to restore on release never changes: renewal
\* and takeover carry priorStateId and priorAssigneeId forward, and the
\* generation never goes back.
PriorCarriedForward ==
  [][ref # NoLease /\ ref' # NoLease =>
       ref'.prior = ref.prior /\ ref'.gen >= ref.gen]_vars

\* release only ever deletes the run's own lease: a takeover between its
\* assertHeld and its deletion is not undone.
ReleaseDeletesOwnLease ==
  [][\A r \in Runs :
       pc[r] = "releasing" /\ pc'[r] # pc[r] /\ ref' # ref =>
         ref # NoLease /\ ref.run = r]_vars
=============================================================================
