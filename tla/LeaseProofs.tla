----------------------------- MODULE LeaseProofs -----------------------------
(***************************************************************************)
(* The leases, for any limits.                                             *)
(*                                                                         *)
(* The Git-ref lease of an issue (GitLease), for every set of runs, every  *)
(* time to live and every grace window: mutual exclusion through the       *)
(* fence.  The identity leases of an ASF run (AsfIdentity), for any hosts, *)
(* roles, generations and renewals, and any number of crashes, expiries,   *)
(* refusals, lost replies and failed writes: what may be live, and who     *)
(* knows of it.                                                            *)
(***************************************************************************)
EXTENDS GitLease, AsfIdentity, FiniteSetTheorems, TLAPS

-----------------------------------------------------------------------------
(* The Git-ref lease                                                       *)


\* A run that has not been granted the lease yet: the ref does not name it,
\* and it has no handle.
Outside(r) ==
  /\ held[r] = NoLease
  /\ ~lost[r]
  /\ ref # NoLease => ref.run # r

\* acquire's push in flight carries the run's own record.
ClaimPending(r) ==
  /\ Outside(r)
  /\ next[r] # NoLease
  /\ next[r].run = r

\* takeover's push in flight replaces a record of another run that was
\* already stale when it was read, one generation up and with its prior.
StealPending(r) ==
  /\ ClaimPending(r)
  /\ token[r] # NoLease
  /\ token[r].run # r
  /\ now > token[r].expiresAt + Grace
  /\ next[r].gen = token[r].gen + 1
  /\ next[r].prior = token[r].prior

\* A run with a handle: the handle is its own, and agrees with the ref.
Holding(r) ==
  /\ held[r] # NoLease
  /\ held[r].run = r
  /\ ref # NoLease /\ ref.run = r => ref.gen = held[r].gen

\* Where the lease call of a run stands, and what follows for the ref and its
\* handle.
PhaseInv(r) ==
  /\ pc[r] = "idle" => Outside(r)
  /\ pc[r] = "claiming" => ClaimPending(r)
  /\ pc[r] = "stealing" => StealPending(r)
  /\ pc[r] \in {"owner", "fenced", "releasing"} => Holding(r)
  /\ held[r] # NoLease => pc[r] \in {"owner", "fenced", "releasing"}
  /\ lost[r] /\ ref # NoLease => ref.run # r

\* The inductive invariant.
LeaseInv == TypeOK /\ \A r \in Runs : PhaseInv(r)

-----------------------------------------------------------------------------

\* BuildRecord yields a record of the run it is built for.
LEMMA BuildRecordType ==
  ASSUME TypeOK, NEW r \in Runs, NEW g \in Nat \ {0}, NEW p \in Priors \cup {NoPrior}
  PROVE  BuildRecord(r, g, p) \in Record
  BY LeaseAssumption DEF BuildRecord, TypeOK, Record

\* An absent ref is told apart from every record.
LEMMA NoLeaseIsNoRecord == \A rec \in Record : rec # NoLease
  BY NoLeaseAssumption

\* What a step of one run, of the operator or of the clock does to another
\* run s: its process state stays, time does not go back, and the ref may
\* move, but never to a record of s.
LEMMA OtherRun ==
  ASSUME TypeOK, NEW s \in Runs, PhaseInv(s),
         pc'[s] = pc[s], next'[s] = next[s], token'[s] = token[s], held'[s] = held[s],
         now' \in Nat, now' >= now,
         \/ ref' = ref /\ lost' = lost
         \/ \E rec \in Record \cup {NoLease} :
              MoveRef(rec) /\ (rec # NoLease => rec.run # s)
  PROVE  PhaseInv(s)'
<1>1. /\ lost'[s] <=> lost[s] \/ (ref # NoLease /\ ref.run = s /\ ref' # ref)
      /\ ref' = ref \/ ref' = NoLease \/ ref'.run # s
  BY DEF MoveRef, TypeOK
<1>2. token[s] # NoLease => token[s].expiresAt \in Nat
  BY DEF TypeOK, Record
<1>3. now > token[s].expiresAt + Grace /\ token[s] # NoLease
        => now' > token[s].expiresAt + Grace
  BY <1>2, LeaseAssumption DEF TypeOK
<1> QED
  BY <1>1, <1>3, Zenon DEF PhaseInv, Outside, ClaimPending, StealPending, Holding

\* Every step of a run keeps the invariant.
LEMMA RunStepKeepsInv ==
  ASSUME LeaseInv, NEW r \in Runs, RunStep(r)
  PROVE  LeaseInv'
<1> USE LeaseAssumption, NoLeaseAssumption
<1>t. TypeOK /\ PhaseInv(r)
  BY DEF LeaseInv
<1>n. now \in Nat /\ now >= now
  BY <1>t DEF TypeOK
\* What remains to be shown of an action that moves the ref to rec, or not at all.
<1> DEFINE Own == /\ now' = now
                  /\ \A s \in Runs \ {r} : /\ pc'[s] = pc[s] /\ next'[s] = next[s]
                                           /\ token'[s] = token[s] /\ held'[s] = held[s]
                  /\ \/ ref' = ref /\ lost' = lost
                     \/ \E rec \in Record \cup {NoLease} :
                          MoveRef(rec) /\ (rec # NoLease => rec.run = r)
<1>o. ASSUME TypeOK', PhaseInv(r)', Own PROVE LeaseInv'
  <2>1. ASSUME NEW s \in Runs, s # r PROVE PhaseInv(s)'
    <3>1. PhaseInv(s)
      BY DEF LeaseInv
    <3>2. \/ ref' = ref /\ lost' = lost
          \/ \E rec \in Record \cup {NoLease} :
               MoveRef(rec) /\ (rec # NoLease => rec.run # s)
      BY <1>o, <2>1
    <3>3. /\ now' = now
          /\ pc'[s] = pc[s] /\ next'[s] = next[s]
          /\ token'[s] = token[s] /\ held'[s] = held[s]
      BY <1>o, <2>1
    <3> QED BY <3>1, <3>2, <3>3, <1>t, <1>n, OtherRun
  <2> QED BY <1>o, <2>1 DEF LeaseInv
<1>1. ASSUME NEW p \in Priors \cup {NoPrior}, StartAcquire(r, p) PROVE LeaseInv'
  <2>1. BuildRecord(r, 1, p) \in Record /\ BuildRecord(r, 1, p).run = r
    BY <1>t, BuildRecordType DEF BuildRecord
  <2>2. TypeOK'
    BY <2>1, <1>1, <1>t DEF StartAcquire, TypeOK, States
  <2>3. PhaseInv(r)'
    BY <2>1, <1>1, <1>t DEF StartAcquire, TypeOK, PhaseInv, Outside, ClaimPending
  <2>4. Own
    BY <1>1, <1>t DEF StartAcquire, TypeOK
  <2> QED BY <2>2, <2>3, <2>4, <1>o
<1>2. CASE AcquireOk(r)
  <2>1. next[r] \in Record /\ next[r].run = r /\ ~lost[r]
    BY <1>2, <1>t DEF AcquireOk, TypeOK, PhaseInv, ClaimPending, Outside
  <2>2. TypeOK'
    BY <2>1, <1>2, <1>t DEF AcquireOk, MoveRef, Mint, TypeOK, States
  <2>3. PhaseInv(r)'
    BY <2>1, <1>2, <1>t DEF AcquireOk, MoveRef, Mint, TypeOK, PhaseInv, Holding
  <2>4. Own
    BY <2>1, <1>2, <1>t DEF AcquireOk, Mint, TypeOK
  <2> QED BY <2>2, <2>3, <2>4, <1>o
<1>3. CASE AcquirePushFails(r)
  <2>1. next[r] \in Record /\ next[r].run = r /\ ~lost[r] /\ held[r] = NoLease
    BY <1>3, <1>t DEF AcquirePushFails, TypeOK, PhaseInv, ClaimPending, Outside
  <2>2. TypeOK'
    BY <2>1, <1>3, <1>t DEF AcquirePushFails, MoveRef, Goto, TypeOK, States
  <2>3. PhaseInv(r)'
    BY <2>1, <1>3, <1>t DEF AcquirePushFails, MoveRef, Goto, TypeOK, PhaseInv
  <2>4. Own
    BY <2>1, <1>3, <1>t DEF AcquirePushFails, Goto, TypeOK
  <2> QED BY <2>2, <2>3, <2>4, <1>o
\* The steps that leave the ref alone and end the run or keep its handle.
<1>4. CASE AcquireDiagnoses(r) \/ Crash(r)
  <2>1. TypeOK'
    BY <1>4, <1>t DEF AcquireDiagnoses, Crash, Finish, TypeOK, States, Over
  <2>2. PhaseInv(r)'
    BY <1>4, <1>t DEF AcquireDiagnoses, Crash, Finish, TypeOK, PhaseInv, Over
  <2>3. Own
    BY <1>4, <1>t DEF AcquireDiagnoses, Crash, Finish, TypeOK
  <2> QED BY <2>1, <2>2, <2>3, <1>o
<1>5. CASE AssertHeld(r) \/ Mutate(r) \/ ReleaseAsserts(r)
  <2>1. TypeOK'
    BY <1>5, <1>t DEF AssertHeld, Mutate, ReleaseAsserts, Goto, Finish, TypeOK, States, Over
  <2>2. PhaseInv(r)'
    BY <1>5, <1>t DEF AssertHeld, Mutate, ReleaseAsserts, Goto, Finish, TypeOK,
                      PhaseInv, Holding, Over
  <2>3. Own
    BY <1>5, <1>t DEF AssertHeld, Mutate, ReleaseAsserts, Goto, Finish, TypeOK
  <2> QED BY <2>1, <2>2, <2>3, <1>o
<1>6. CASE HeartbeatOk(r) \/ HeartbeatFails(r)
  <2>1. held[r] \in Record /\ held[r].run = r
    BY <1>6, <1>t DEF HeartbeatOk, HeartbeatFails, TypeOK, PhaseInv, Holding
  <2>2. held[r].gen \in Nat \ {0} /\ held[r].prior \in Priors \cup {NoPrior}
    BY <2>1 DEF Record
  <2>3. Renewal(r) \in Record /\ Renewal(r).run = r /\ Renewal(r).gen = held[r].gen
    BY <2>2, <1>t, BuildRecordType DEF Renewal, BuildRecord
  <2>4. TypeOK'
    <3>1. ref' \in Record \cup {NoLease} /\ lost' \in [Runs -> BOOLEAN]
      BY <2>3, <1>6, <1>t DEF HeartbeatOk, HeartbeatFails, MoveRef, TypeOK
    <3>2. /\ pc' \in [Runs -> States]
          /\ next' \in [Runs -> Record \cup {NoLease}]
          /\ token' \in [Runs -> Record \cup {NoLease}]
          /\ held' \in [Runs -> Record \cup {NoLease}]
      BY <2>3, <1>6, <1>t DEF HeartbeatOk, HeartbeatFails, Mint, Goto, Finish, TypeOK,
                              States, Over
    <3>3. now' \in Nat
      BY <1>6, <1>t DEF HeartbeatOk, HeartbeatFails, TypeOK
    <3> QED BY <3>1, <3>2, <3>3 DEF TypeOK
  <2>5. CasAccepts(held[r]) => ~lost[r]
    BY <2>1, <1>t DEF CasAccepts, PhaseInv
  <2>6. PhaseInv(r)'
    BY <2>1, <2>3, <2>5, <1>6, <1>t DEF HeartbeatOk, HeartbeatFails, MoveRef, Mint,
                            Goto, Finish, TypeOK, PhaseInv, Holding, Over
  <2>7. Own
    BY <2>3, <1>6, <1>t DEF HeartbeatOk, HeartbeatFails, Mint, Goto, Finish, TypeOK
  <2> QED BY <2>4, <2>6, <2>7, <1>o
<1>7. CASE TakeoverReadStale(r)
  <2>1. ref \in Record /\ ref.run # r /\ held[r] = NoLease /\ ~lost[r]
    BY <1>7, <1>t DEF TakeoverReadStale, TypeOK, PhaseInv, Outside
  <2>2. ref.gen \in Nat \ {0} /\ ref.expiresAt \in Nat /\ ref.prior \in Priors \cup {NoPrior}
    BY <2>1 DEF Record
  <2>3. /\ Successor(r, ref) \in Record
        /\ Successor(r, ref).run = r
        /\ Successor(r, ref).gen = ref.gen + 1
        /\ Successor(r, ref).prior = ref.prior
    BY <2>2, <1>t, BuildRecordType DEF Successor, BuildRecord
  <2>4. TypeOK'
    BY <2>1, <2>3, <1>7, <1>t DEF TakeoverReadStale, TypeOK, States
  <2>5. PhaseInv(r)'
    BY <2>1, <2>3, <1>7, <1>t DEF TakeoverReadStale, IsStale, TypeOK, PhaseInv,
                                  StealPending, ClaimPending, Outside
  <2>6. Own
    BY <1>7, <1>t DEF TakeoverReadStale, TypeOK
  <2> QED BY <2>4, <2>5, <2>6, <1>o
<1>8. CASE TakeoverOk(r) \/ TakeoverFails(r)
  <2>1. next[r] \in Record /\ next[r].run = r /\ ~lost[r]
    BY <1>8, <1>t DEF TakeoverOk, TakeoverFails, TypeOK, PhaseInv, StealPending,
                      ClaimPending, Outside
  <2>2. TypeOK'
    BY <2>1, <1>8, <1>t DEF TakeoverOk, TakeoverFails, MoveRef, Mint, Finish, TypeOK,
                            States, Over
  <2>3. PhaseInv(r)'
    BY <2>1, <1>8, <1>t DEF TakeoverOk, TakeoverFails, MoveRef, Mint, Finish, TypeOK,
                            PhaseInv, Holding, Over
  <2>4. Own
    BY <2>1, <1>8, <1>t DEF TakeoverOk, TakeoverFails, Mint, Finish, TypeOK
  <2> QED BY <2>2, <2>3, <2>4, <1>o
<1>9. CASE ReleaseDelete(r)
  <2>1. TypeOK'
    BY <1>9, <1>t DEF ReleaseDelete, MoveRef, Finish, TypeOK, States, Over
  <2>2. PhaseInv(r)'
    BY <1>9, <1>t DEF ReleaseDelete, MoveRef, Finish, TypeOK, PhaseInv, Over
  <2>3. Own
    BY <1>9, <1>t DEF ReleaseDelete, Finish, TypeOK
  <2> QED BY <2>1, <2>2, <2>3, <1>o
<1> QED
  BY <1>1, <1>2, <1>3, <1>4, <1>5, <1>6, <1>7, <1>8, <1>9, Zenon
  DEF RunStep, TakeoverReadAbsent

\* The invariant is inductive.
LEMMA InvInductive == LeaseInv /\ [Next]_vars => LeaseInv'
<1> SUFFICES ASSUME LeaseInv, [Next]_vars PROVE LeaseInv'
  OBVIOUS
<1> USE LeaseAssumption, NoLeaseAssumption
<1>1. CASE UNCHANGED vars
  BY <1>1, Zenon DEF vars, LeaseInv, TypeOK, PhaseInv, Outside, ClaimPending, StealPending,
                     Holding
<1>2. CASE Tick
  <2>1. TypeOK'
    BY <1>2 DEF Tick, LeaseInv, TypeOK
  <2>2. now' \in Nat /\ now' >= now
    BY <1>2 DEF Tick, LeaseInv, TypeOK
  <2>3. ASSUME NEW s \in Runs PROVE PhaseInv(s)'
    BY <2>2, <1>2, OtherRun DEF Tick, LeaseInv
  <2> QED BY <2>1, <2>3 DEF LeaseInv
<1>3. CASE OperatorDeletes
  <2>1. TypeOK'
    BY <1>3 DEF OperatorDeletes, MoveRef, LeaseInv, TypeOK
  <2>2. now' \in Nat /\ now' >= now
    BY <1>3 DEF OperatorDeletes, LeaseInv, TypeOK
  <2>3. ASSUME NEW s \in Runs PROVE PhaseInv(s)'
    BY <2>2, <1>3, OtherRun DEF OperatorDeletes, LeaseInv
  <2> QED BY <2>1, <2>3 DEF LeaseInv
<1> QED BY <1>1, <1>2, <1>3, RunStepKeepsInv DEF Next

\* The invariant holds before the first claim.
LEMMA InitInv == Init => LeaseInv
  BY LeaseAssumption, NoLeaseAssumption
  DEF Init, LeaseInv, TypeOK, States, PhaseInv, Outside, ClaimPending, StealPending, Holding

-----------------------------------------------------------------------------

\* Every reachable state of the lease protocol satisfies the invariant.
THEOREM LeaseInvariant == Spec => []LeaseInv
  BY InitInv, InvInductive, PTL DEF Spec

\* The values GitRefLease computes and stores keep their types.
THEOREM Typing == Spec => []TypeOK
<1>1. LeaseInv => TypeOK
  BY DEF LeaseInv
<1> QED BY <1>1, LeaseInvariant, PTL

\* A run the lease has moved away from never passes assertHeld again, for
\* any number of runs, takeovers, releases and re-creations of the ref.
THEOREM FencingIsPermanent == Spec => []FencedOutStaysOut
<1>1. LeaseInv => FencedOutStaysOut
  BY DEF LeaseInv, PhaseInv, Holding, FencedOutStaysOut, PassesFence
<1> QED BY <1>1, LeaseInvariant, PTL

\* A run acting on a handle holds its own, at the generation the ref has.
THEOREM HandlesAreCurrent == Spec => []HandleMatchesOwnRef
<1>1. LeaseInv => HandleMatchesOwnRef
  BY DEF LeaseInv, PhaseInv, Holding, HandleMatchesOwnRef
<1> QED BY <1>1, LeaseInvariant, PTL

\* From a state of the invariant, a step that moves the ref from one record
\* to another either renews it for the same run or takes over a stale one.
LEMMA RefMoves ==
  ASSUME LeaseInv, [Next]_vars, ref # NoLease, ref' # NoLease, ref' # ref
  PROVE  /\ ref'.prior = ref.prior
         /\ ref'.gen >= ref.gen
         /\ ref'.run # ref.run => now > ref.expiresAt + Grace
<1> USE NoLeaseAssumption
<1>1. PICK r \in Runs : RunStep(r)
  BY DEF Next, vars, Tick, OperatorDeletes, MoveRef
<1>2. TypeOK /\ PhaseInv(r)
  BY DEF LeaseInv
<1>3. ref \in Record /\ ref.gen \in Nat
  BY <1>2 DEF TypeOK, Record
<1>4. \/ AcquireOk(r) \/ AcquirePushFails(r) \/ HeartbeatOk(r) \/ HeartbeatFails(r)
      \/ TakeoverOk(r) \/ TakeoverFails(r)
  BY <1>1, Zenon DEF RunStep, StartAcquire, AcquireDiagnoses, AssertHeld, Mutate,
      TakeoverReadStale, TakeoverReadAbsent, ReleaseAsserts, ReleaseDelete, MoveRef, Crash
<1>5. CASE AcquireOk(r) \/ AcquirePushFails(r)
  BY <1>5 DEF AcquireOk, AcquirePushFails, PushCreates, MoveRef
<1>6. CASE HeartbeatOk(r) \/ HeartbeatFails(r)
  <2>1. ref = held[r] /\ ref' = Renewal(r) /\ held[r].run = r
    BY <1>6, <1>2 DEF HeartbeatOk, HeartbeatFails, CasAccepts, MoveRef, PhaseInv, Holding
  <2> QED BY <2>1, <1>3 DEF Renewal, BuildRecord
<1>7. CASE TakeoverOk(r) \/ TakeoverFails(r)
  <2>1. ref = token[r] /\ ref' = next[r] /\ StealPending(r)
    BY <1>7, <1>2 DEF TakeoverOk, TakeoverFails, CasAccepts, MoveRef, PhaseInv
  <2> QED BY <2>1, <1>3 DEF StealPending
<1> QED BY <1>4, <1>5, <1>6, <1>7

\* A live lease is never taken: ownership moves from one run to another only
\* after the expiry and the grace window, whatever the owner does between the
\* taker's read and its push.
THEOREM StealsOnlyStaleLeases == Spec => NoEarlySteal
<1>1. LeaseInv /\ [Next]_vars =>
        [\A r \in Runs :
           ref # NoLease /\ ref' # NoLease /\ ref.run = r /\ ref'.run # r
             => now > ref.expiresAt + Grace]_vars
  BY RefMoves
<1> QED BY <1>1, LeaseInvariant, PTL DEF Spec, NoEarlySteal

\* What to restore on release survives every renewal and takeover, and the
\* generation never goes back while the ref exists.
THEOREM PriorSurvives == Spec => PriorCarriedForward
<1>1. LeaseInv /\ [Next]_vars =>
        [ref # NoLease /\ ref' # NoLease =>
           ref'.prior = ref.prior /\ ref'.gen >= ref.gen]_vars
  <2> SUFFICES ASSUME LeaseInv, [Next]_vars, ref # NoLease, ref' # NoLease
               PROVE  ref'.prior = ref.prior /\ ref'.gen >= ref.gen
    OBVIOUS
  <2>1. CASE ref' = ref
    BY <2>1, NoLeaseAssumption DEF LeaseInv, TypeOK, Record
  <2> QED BY <2>1, RefMoves
<1> QED BY <1>1, LeaseInvariant, PTL DEF Spec, PriorCarriedForward

\* release deletes the ref only while it is the releasing run's own.
THEOREM ReleaseIsSafe == Spec => ReleaseDeletesOwnLease
<1>1. LeaseInv /\ [Next]_vars =>
        [\A r \in Runs :
           pc[r] = "releasing" /\ pc'[r] # pc[r] /\ ref' # ref =>
             ref # NoLease /\ ref.run = r]_vars
  <2> SUFFICES ASSUME LeaseInv, Next, NEW r \in Runs,
                      pc[r] = "releasing", pc'[r] # pc[r], ref' # ref
               PROVE  ref # NoLease /\ ref.run = r
    BY DEF vars
  <2>1. PICK s \in Runs : RunStep(s)
    BY DEF Next, Tick, OperatorDeletes
  <2>2. s = r
    <3>1. PICK v : pc' = [pc EXCEPT ![s] = v]
      BY <2>1, Zenon DEF RunStep, StartAcquire, AcquireOk, AcquirePushFails,
           AcquireDiagnoses, HeartbeatOk, HeartbeatFails, AssertHeld, Mutate,
           TakeoverReadStale, TakeoverReadAbsent, TakeoverOk, TakeoverFails,
           ReleaseAsserts, ReleaseDelete, Crash, Goto, Mint, Finish
    <3> QED BY <3>1 DEF LeaseInv, TypeOK
  <2>3. ReleaseDelete(r)
    BY <2>1, <2>2, Zenon DEF RunStep, StartAcquire, AcquireOk, AcquirePushFails,
         AcquireDiagnoses, HeartbeatOk, HeartbeatFails, AssertHeld, Mutate,
         TakeoverReadStale, TakeoverReadAbsent, TakeoverOk, TakeoverFails,
         ReleaseAsserts, Crash
  <2>4. ref = held[r]
    BY <2>3 DEF ReleaseDelete, DeletesOwn, CasAccepts
  <2> QED BY <2>4 DEF LeaseInv, PhaseInv, Holding
<1> QED BY <1>1, LeaseInvariant, PTL DEF Spec, ReleaseDeletesOwnLease

-----------------------------------------------------------------------------
(* The identity leases                                                     *)

USE AsfIdentityAssumption

\* The lease of role r that the broker has for generation g is live.
Live(g, r) == broker[g][r].state = "live"

\* What a session or a snapshot knows covers the live leases of a row of the
\* broker: by a marker of an acquisition, or as leases that are not retired.
Covered(s, row) ==
  \A r \in Roles : row[r].state = "live" =>
    \/ <<"acquire", r, 0>> \in s.ops
    \/ \E v \in 1 .. MaxVersion : <<r, v>> \in s.all \ s.ret

\* No lease is newer than the current one of its role.
Newest(s) == \A l \in s.all \cup s.ret : s.cur[l[1]] = 0 \/ l[2] <= s.cur[l[1]]

\* A sealed snapshot.
Sealed(n, row) ==
  /\ Covered(n, row) /\ Newest(n)
  /\ n.phase = "retired" => n.ops = {} /\ n.all \subseteq n.ret
  /\ n.rev = 0 => n.ops = {} /\ n.all = {}

\* A session: while nobody has written after it, it is as good as the snapshot.
SessionFine(s, n, row) ==
  /\ s.gen \in Generations /\ s.rev <= n.rev /\ Newest(s)
  /\ s.rev = n.rev => s.ops = n.ops /\ Covered(s, row)

\* The states in which an acquisition may still have a lease granted.
Acquiring == {"persist", "begin", "acquire", "acquiring", "acquired", "record"}

\* Those in which the acquisition is under way.
Pending == Acquiring \cup {"activate", "failing", "rollback"}

\* No lease from role r on, and no marker of an acquisition.
Below(s, r) ==
  \A l \in s.all \cup s.ret : l[1] < r
Unasked(s, r) == \A q \in Roles : q >= r => <<"acquire", q, 0>> \notin s.ops

\* An acquisition under way is one for the generation of the host.
PlaceFine(m, s, a) ==
  /\ m.pc \in Acquiring => s.where = "pending"
  /\ s.where = "pending" => s.gen = a /\ m.pc \in Pending
  /\ m.pc = "replace" => a # 0

\* Where main is with the session s of a host under generation a.
MainFine(m, s, a, n, row) ==
  /\ m.pc \in Acquiring => s.gen = a
  /\ m.pc \in {"persist", "begin"} => Below(s, m.role) /\ Unasked(s, m.role)
  /\ m.pc \in {"acquire", "acquiring", "acquired"} => Below(s, m.role) /\ Unasked(s, m.role + 1)
  /\ m.pc \in {"acquire", "acquiring"} =>
       <<"acquire", m.role, 0>> \in s.ops \cap n.ops /\ row[m.role].state # "live"
  /\ m.pc = "record" =>
       /\ Below(s, m.role + 1) /\ Unasked(s, m.role + 1)
       /\ row[m.role].state = "live" => \E v \in 1 .. MaxVersion : <<m.role, v>> \in s.all \ s.ret
  /\ m.pc \in {"renewBegin", "renew", "renewed"} => \A q \in Roles : q >= m.role => s.cur[q] < MaxVersion
  /\ m.pc \in {"renew", "renewed"} => s.cur[m.role] # 0
  /\ m.pc = "renewRecord" => \A q \in Roles : q > m.role => s.cur[q] < MaxVersion

\* Where a revocation is: it works through leases of the session, and while a
\* cleanup is asked for main replaces nothing, and acquires only what it waits for.
RvFine(v, m, s) ==
  /\ v.pc # "none" => v.todo \subseteq s.all
  /\ v.pc = "revoke" => v.lease \in s.all
  /\ v.cleanup => v.pc # "none"
  /\ v.cleanup \/ v.ask # "no" => m.pc # "replace"
  /\ v.cleanup \/ v.ask = "due" => m.pc \notin Pending

\* One place: without a session nothing is under way.
HostFine(h) ==
  /\ mem[h].where = "none" =>
       main[h].pc = "idle" /\ rv[h].pc = "none" /\ ~rv[h].want /\ rv[h].ask = "no"
  /\ mem[h].where # "none" =>
       /\ SessionFine(mem[h], registry[mem[h].gen], broker[mem[h].gen])
       /\ MainFine(main[h], mem[h], act[h], registry[mem[h].gen], broker[mem[h].gen])
  /\ PlaceFine(main[h], mem[h], act[h]) /\ RvFine(rv[h], main[h], mem[h])

\* A generation has one owner.
Owners ==
  /\ \A h \in Holders : act[h] <= generation
  /\ \A h, k \in Holders : act[h] = act[k] /\ act[h] # 0 => h = k

\* A generation in which nothing is live and nothing can become live any more,
\* and one in which something is or may.
Closed(g) ==
  /\ \A r \in Roles : ~Live(g, r)
  /\ \A h \in Holders : main[h].pc = "acquiring" => mem[h].gen # g

Begun(g) ==
  \/ \E r \in Roles : Live(g, r)
  \/ \E h \in Holders : mem[h].where = "pending" /\ mem[h].gen = g

\* Once a generation has begun, every earlier one is closed.
Exclusive ==
  \A g \in Generations : Begun(g) => g <= generation /\ \A j \in Generations : j < g => Closed(j)

\* A host that replaces an earlier generation has closed all the others before
\* its own, and this one when its session is retired.
Replacing ==
  \A h \in Holders : main[h].pc = "replace" =>
    \A j \in Generations : j < act[h] /\ (j # mem[h].gen \/ mem[h].st = "retired") => Closed(j)

\* The terminal plan is sealed, and the owner acquires nothing, but in X.
Still(X) ==
  /\ ending
  /\ \A h \in Holders : act[h] = generation =>
       main[h].pc # "replace" /\ (main[h].pc \in Acquiring => h \in X)

\* The cleanup of a place is due or under way.
Due(h) == rv[h].ask = "due" \/ rv[h].cleanup

\* All generations but g are closed.
ClosedBut(g) == \A j \in Generations : j # g => Closed(j)

\* A cleanup has one generation left to close, and until it is due only the
\* acquisition it waits for; a reported one has none left.
Cleaning ==
  /\ \A h \in Holders : rv[h].ask = "wait" => Still({h}) /\ ClosedBut(mem[h].gen)
  /\ \A h \in Holders : Due(h) => Still({}) /\ ClosedBut(mem[h].gen)
  /\ cleaned # {} => Still({}) /\ \A j \in Generations : Closed(j)

\* Before the intent there is no session, and nothing is sealed.
Fresh ==
  intent = 0 => /\ \A h \in Holders : mem[h].where = "none"
                /\ \A g \in Generations : registry[g].rev = 0

\* The inductive invariant.
IdentityInv ==
  /\ IdentityTypeOK /\ Owners
  /\ \A g \in Generations : Sealed(registry[g], broker[g])
  /\ \A h \in Holders : HostFine(h)
  /\ Exclusive /\ Replacing /\ Cleaning /\ Fresh

-----------------------------------------------------------------------------
\* What a successful write, and what a failed one may do to the registry.
Stores(s) == CanSave(s) /\ registry' = [registry EXCEPT ![s.gen] = Snapshot(s)]

\* The broker has no lease live that it had not.
Fewer ==
  /\ broker' \in [Generations -> [Roles -> [state : {"none", "live", "gone"}, ver : Nat]]]
  /\ \A g \in Generations, r \in Roles : Live(g, r)' => Live(g, r)

\* Only host h acts.
Only(h) ==
  /\ mem' \in [Holders -> Sessions] /\ main' \in [Holders -> MainStates] /\ rv' \in [Holders -> Revocations]
  /\ \A k \in Holders \ {h} : mem'[k] = mem[k] /\ main'[k] = main[k] /\ rv'[k] = rv[k]

\* What a session keeps of another one's acquisitions.
Marks(ops, more) == \A q \in Roles : <<"acquire", q, 0>> \in ops => <<"acquire", q, 0>> \in more

\* Coverage depends on what is live only, and less of that is covered too.
LEMMA CoveredLess ==
  ASSUME NEW s, NEW row, NEW less, Covered(s, row),
         \A r \in Roles : less[r].state = "live" => row[r].state = "live"
  PROVE  Covered(s, less)
BY DEF Covered

\* What is written of a session.
LEMMA SnapshotFields ==
  ASSUME NEW s \in Sessions
  PROVE  /\ Snapshot(s) \in Snapshots /\ Snapshot(s).phase = s.phase /\ Snapshot(s).all = s.all
         /\ Snapshot(s).ret = s.ret /\ Snapshot(s).ops = s.ops /\ Snapshot(s).rev = s.rev + 1
         /\ Newest(s) => Newest(Snapshot(s))
         /\ Saved(s) \in Sessions /\ Saved(s).rev = s.rev + 1 /\ Saved(s).where = s.where
         /\ Saved(s).gen = s.gen /\ Saved(s).all = s.all /\ Saved(s).ret = s.ret
         /\ Saved(s).ops = s.ops /\ Saved(s).cur = s.cur /\ Saved(s).st = s.st
         /\ Saved(s).denied = s.denied /\ Saved(s).phase = s.phase /\ Saved(s).seen = s.seen
         /\ Saved(s).timed = s.timed
<1>1. /\ s.phase \in Phases /\ s.all \in SUBSET Leases /\ s.ret \in SUBSET Leases /\ s.ops \in SUBSET Markers
      /\ s.rev \in Nat /\ s.seen \in BOOLEAN /\ s.cur \in [Roles -> 0 .. MaxVersion]
  BY DEF Sessions
<1> DEFINE cur == [r \in Roles |-> IF <<r, s.cur[r]>> \in s.ret THEN 0 ELSE s.cur[r]]
<1>2. cur \in [Roles -> 0 .. MaxVersion] /\ \A r \in Roles : cur[r] \in {0, s.cur[r]}
  BY <1>1
<1>3. Snapshot(s) = [phase |-> s.phase, all |-> s.all, ret |-> s.ret, ops |-> s.ops, seen |-> s.seen,
                     rev |-> s.rev + 1, cur |-> cur]
  BY DEF Snapshot
<1> HIDE DEF cur
<1>4. Snapshot(s) \in Snapshots
  BY <1>1, <1>2, <1>3 DEF Snapshots
<1>5. Newest(s) => Newest(Snapshot(s))
  <2>1. \A l \in s.all \cup s.ret : l[1] \in Roles
    BY <1>1 DEF Leases
  <2> QED BY <1>2, <1>3, <2>1 DEF Newest
<1>6. Saved(s) \in Sessions
  BY DEF Saved, Sessions
<1>7. /\ Saved(s).rev = s.rev + 1 /\ Saved(s).where = s.where
      /\ Saved(s).gen = s.gen /\ Saved(s).all = s.all /\ Saved(s).ret = s.ret
      /\ Saved(s).ops = s.ops /\ Saved(s).cur = s.cur /\ Saved(s).st = s.st
      /\ Saved(s).denied = s.denied /\ Saved(s).phase = s.phase /\ Saved(s).seen = s.seen
      /\ Saved(s).timed = s.timed
  BY DEF Saved, Sessions
<1> QED BY <1>3, <1>4, <1>5, <1>6, <1>7

\* A write of a session that covers what is live leaves every snapshot so.
LEMMA StoredFine ==
  ASSUME IdentityInv, Fewer, NEW s \in Sessions, s.gen \in Generations, Stores(s), Newest(s),
         Covered(s, broker'[s.gen])
  PROVE  /\ registry' \in [Generations -> Snapshots]
         /\ \A g \in Generations : Sealed(registry'[g], broker'[g])
<1>1. registry \in [Generations -> Snapshots]
  BY DEF IdentityInv, IdentityTypeOK
<1>2. registry' \in [Generations -> Snapshots]
  BY <1>1, SnapshotFields DEF Stores
<1>3. ASSUME NEW g \in Generations PROVE Sealed(registry'[g], broker'[g])
  <2>1. CASE g = s.gen
    <3> DEFINE n == Snapshot(s)
    <3>1. registry'[g] = n
      BY <1>1, <2>1 DEF Stores
    <3>2. Covered(n, broker'[g]) /\ Newest(n)
      BY <2>1, SnapshotFields DEF Covered
    <3>3. n.phase = "retired" => n.ops = {} /\ n.all \subseteq n.ret
      BY DEF Stores, CanSave, WellFormed
    <3>4. n.rev # 0
      <4>1. n.rev = s.rev + 1 /\ s.rev \in Nat
        BY SnapshotFields DEF Sessions
      <4> QED BY <4>1
    <3> HIDE DEF n
    <3> QED BY <3>1, <3>2, <3>3, <3>4 DEF Sealed
  <2>2. CASE g # s.gen
    <3>1. registry'[g] = registry[g] /\ Sealed(registry[g], broker[g])
      BY <1>1, <2>2 DEF Stores, IdentityInv
    <3>2. Covered(registry[g], broker'[g])
      BY <3>1, CoveredLess DEF Sealed, Fewer, Live
    <3> QED BY <3>1, <3>2 DEF Sealed
  <2> QED BY <2>1, <2>2
<1> QED BY <1>2, <1>3

\* As long as nobody writes, the snapshots stay fine.
LEMMA UnstoredFine ==
  ASSUME IdentityInv, Fewer, registry' = registry
  PROVE  /\ registry' \in [Generations -> Snapshots]
         /\ \A g \in Generations : Sealed(registry'[g], broker'[g])
<1>1. ASSUME NEW g \in Generations PROVE Sealed(registry[g], broker'[g])
  <2>1. Sealed(registry[g], broker[g])
    BY DEF IdentityInv
  <2>2. Covered(registry[g], broker'[g])
    BY <2>1, CoveredLess DEF Sealed, Fewer, Live
  <2> QED BY <2>1, <2>2 DEF Sealed
<1> QED BY <1>1 DEF IdentityInv, IdentityTypeOK

\* A write of one host, which the comparison of revisions admits only while
\* its session is the latest, leaves the other hosts as they should be.
LEMMA OthersKeep ==
  ASSUME IdentityInv, NEW h \in Holders, act' = act, Only(h), Fewer,
         \/ registry' = registry
         \/ \E s \in Sessions :
              /\ mem[h].where # "none" /\ s.gen = mem[h].gen /\ s.rev = mem[h].rev /\ Stores(s)
              /\ mem[h].gen = act[h] \/ Marks(mem[h].ops, s.ops)
  PROVE  \A k \in Holders \ {h} : HostFine(k)'
<1> SUFFICES ASSUME NEW k \in Holders \ {h} PROVE HostFine(k)'
  OBVIOUS
<1> DEFINE g == mem[k].gen
           s == mem[k]
           n == registry[g]
<1>1. mem'[k] = mem[k] /\ main'[k] = main[k] /\ rv'[k] = rv[k] /\ act'[k] = act[k]
  BY DEF Only
<1>2. HostFine(k) /\ mem[k] \in Sessions /\ registry \in [Generations -> Snapshots]
      /\ main[k] \in MainStates
  BY DEF IdentityInv, IdentityTypeOK
<1>3. CASE mem[k].where = "none"
  BY <1>1, <1>2, <1>3 DEF HostFine
<1>4. CASE mem[k].where # "none"
  <2>1. SessionFine(s, n, broker[g]) /\ MainFine(main[k], s, act[k], n, broker[g]) /\ g \in Generations
    BY <1>2, <1>4 DEF HostFine, SessionFine
  <2>2. \A r \in Roles : broker'[g][r].state = "live" => broker[g][r].state = "live"
    BY <2>1 DEF Fewer, Live
  <2>3. \/ registry'[g] = n
        \/ /\ registry'[g].rev = n.rev + 1
           /\ main[k].pc \in Acquiring => Marks(n.ops, registry'[g].ops)
    <3>1. CASE registry' = registry
      BY <3>1
    <3>2. ASSUME NEW x \in Sessions, mem[h].where # "none", x.gen = mem[h].gen,
                 x.rev = mem[h].rev, Stores(x), mem[h].gen = act[h] \/ Marks(mem[h].ops, x.ops)
          PROVE  \/ registry'[g] = n
                 \/ /\ registry'[g].rev = n.rev + 1
                    /\ main[k].pc \in Acquiring => Marks(n.ops, registry'[g].ops)
      <4>1. CASE x.gen # g
        BY <1>2, <2>1, <3>2, <4>1 DEF Stores
      <4>2. CASE x.gen = g
        <5>1. registry'[g] = Snapshot(x)
          BY <1>2, <2>1, <3>2, <4>2 DEF Stores
        <5>2. registry'[g].rev = x.rev + 1 /\ registry'[g].ops = x.ops
          BY <5>1, SnapshotFields
        <5>3. x.rev = n.rev
          BY <3>2, <4>2 DEF Stores, CanSave
        <5>5. ASSUME main[k].pc \in Acquiring PROVE Marks(n.ops, registry'[g].ops)
          <6>1. act[k] = g /\ g # 0
            BY <2>1, <5>5 DEF MainFine, Generations
          <6>2. act[h] # g
            BY <6>1 DEF IdentityInv, Owners
          <6>3. Marks(mem[h].ops, x.ops)
            BY <3>2, <4>2, <6>2
          <6>4. mem[h].ops = n.ops
            BY <3>2, <4>2, <5>3 DEF IdentityInv, HostFine, SessionFine
          <6> QED BY <5>2, <6>3, <6>4
        <5> QED BY <5>2, <5>3, <5>5
      <4> QED BY <4>1, <4>2
    <3> QED BY <3>1, <3>2
  <2> HIDE DEF g, s, n
  <2>4. SessionFine(s, registry'[g], broker'[g])
    <3>1. CASE registry'[g] = n
      BY <2>1, <2>2, <3>1, CoveredLess DEF SessionFine
    <3>2. CASE registry'[g].rev = n.rev + 1
      <4>1. s.rev \in Nat /\ n.rev \in Nat /\ s.rev <= n.rev
        BY <1>2, <2>1 DEF s, n, g, SessionFine, Sessions, Snapshots
      <4> QED BY <2>1, <3>2, <4>1 DEF SessionFine
    <3> QED BY <2>3, <3>1, <3>2
  <2>5. MainFine(main[k], s, act[k], registry'[g], broker'[g])
    <3>1. main[k].role \in Roles
      BY <1>2 DEF MainStates
    <3>2. main[k].pc \in {"acquire", "acquiring"} => main[k].pc \in Acquiring
      BY DEF Acquiring
    <3> QED BY <2>1, <2>2, <2>3, <3>1, <3>2 DEF MainFine, Marks
  <2> QED BY <1>1, <1>2, <1>4, <2>4, <2>5 DEF HostFine, g, s
<1> QED BY <1>3, <1>4

\* The host whose session was written, or could not be: s is what was to be
\* written, t what stays in memory when the write fails.
Fits(h, s) ==
  /\ s \in Sessions /\ s.gen = mem[h].gen /\ s.rev = mem[h].rev /\ s.where # "none" /\ Newest(s)
  /\ s.where = "pending" => mem[h].where = "pending"
  /\ mem[h].rev = registry[mem[h].gen].rev => Covered(s, broker'[s.gen])

\* The registry has s, or the session stays t.
Writes(h, s, t) ==
  \/ Stores(s) /\ mem' = [mem EXCEPT ![h] = Saved(s)]
  \/ (Stores(s) \/ registry' = registry) /\ mem' = [mem EXCEPT ![h] = t]

\* A step of a host that writes its session leaves the registry and the
\* sessions as they should be.
LEMMA WriteKeeps ==
  ASSUME IdentityInv, NEW h \in Holders, mem[h].where # "none", act' = act, Only(h), Fewer,
         NEW s, NEW t, Fits(h, s), Fits(h, t), t.ops = mem[h].ops, Writes(h, s, t),
         mem[h].gen = act[h] \/ Marks(mem[h].ops, s.ops)
  PROVE  /\ mem'[h] \in {t, Saved(s)} /\ mem'[h].gen = mem[h].gen /\ mem'[h].where # "none"
         /\ registry' \in [Generations -> Snapshots]
         /\ \A g \in Generations : Sealed(registry'[g], broker'[g])
         /\ \A k \in Holders \ {h} : HostFine(k)'
         /\ SessionFine(mem'[h], registry'[mem[h].gen], broker'[mem[h].gen])
         /\ registry'[mem[h].gen] = registry[mem[h].gen] \/ registry'[mem[h].gen].ops = s.ops
         /\ mem'[h].where \in {s.where, t.where}
<1> DEFINE g == mem[h].gen
           n == registry[g]
<1>1. /\ mem \in [Holders -> Sessions] /\ registry \in [Generations -> Snapshots]
      /\ s \in Sessions /\ t \in Sessions /\ s.gen = g /\ t.gen = g /\ g \in Generations
      /\ mem[h].rev <= n.rev /\ (mem[h].rev = n.rev => mem[h].ops = n.ops)
      /\ n \in Snapshots /\ n.rev \in Nat /\ s.rev = mem[h].rev /\ t.rev = mem[h].rev /\ s.rev \in Nat
      /\ Newest(s) /\ Newest(t) /\ s.where # "none" /\ t.where # "none"
      /\ (s.rev = n.rev => Covered(s, broker'[g]) /\ Covered(t, broker'[g]))
  <2>1. mem \in [Holders -> Sessions] /\ registry \in [Generations -> Snapshots]
    BY DEF IdentityInv, IdentityTypeOK
  <2>2. SessionFine(mem[h], n, broker[g])
    BY DEF IdentityInv, HostFine
  <2>3. g \in Generations /\ n \in Snapshots
    BY <2>1, <2>2 DEF SessionFine
  <2>4. n.rev \in Nat
    BY <2>3 DEF Snapshots
  <2>5. s.rev \in Nat
    BY DEF Fits, Sessions
  <2> HIDE DEF g, n
  <2> QED BY <2>1, <2>2, <2>3, <2>4, <2>5 DEF Fits, SessionFine, g, n
<1>2. /\ mem'[h] \in {t, Saved(s)} /\ mem'[h].gen = g /\ mem'[h].where # "none"
      /\ mem'[h].where \in {s.where, t.where}
  BY <1>1, SnapshotFields DEF Writes
<1>3. \A k \in Holders \ {h} : HostFine(k)'
  <2>1. \/ registry' = registry
        \/ \E x \in Sessions :
             /\ mem[h].where # "none" /\ x.gen = mem[h].gen /\ x.rev = mem[h].rev /\ Stores(x)
             /\ mem[h].gen = act[h] \/ Marks(mem[h].ops, x.ops)
    BY <1>1 DEF Writes
  <2> HIDE DEF g, n
  <2> QED BY <2>1, OthersKeep
<1>4. CASE Stores(s)
  <2>1. registry'[g] = Snapshot(s) /\ s.rev = n.rev
    BY <1>1, <1>4 DEF Stores, CanSave
  <2>2. /\ registry'[g].rev = n.rev + 1 /\ registry'[g].ops = s.ops
        /\ Saved(s).rev = n.rev + 1 /\ Saved(s).ops = s.ops /\ Saved(s).all = s.all
        /\ Saved(s).ret = s.ret /\ Saved(s).cur = s.cur /\ Saved(s).gen = g
    BY <1>1, <2>1, SnapshotFields
  <2>3. /\ registry' \in [Generations -> Snapshots]
        /\ \A k \in Generations : Sealed(registry'[k], broker'[k])
    <3>1. Covered(s, broker'[s.gen])
      BY <1>1, <2>1
    <3> HIDE DEF g, n
    <3> QED BY <1>1, <1>4, <3>1, StoredFine
  <2>4. SessionFine(Saved(s), registry'[g], broker'[g])
    <3>1. Covered(s, broker'[g])
      BY <1>1, <2>1
    <3>2. Covered(Saved(s), broker'[g]) /\ Newest(Saved(s))
      BY <1>1, <2>2, <3>1 DEF Covered, Newest
    <3> HIDE DEF g, n
    <3> QED BY <1>1, <2>2, <3>2 DEF SessionFine
  <2>5. SessionFine(t, registry'[g], broker'[g])
    <3>1. t.rev # registry'[g].rev /\ t.rev <= registry'[g].rev
      BY <1>1, <2>1, <2>2
    <3> HIDE DEF g, n
    <3> QED BY <1>1, <3>1 DEF SessionFine
  <2> HIDE DEF g, n
  <2> QED BY <1>2, <1>3, <2>2, <2>3, <2>4, <2>5 DEF g
<1>5. CASE ~Stores(s)
  <2>1. registry' = registry /\ mem'[h] = t
    BY <1>1, <1>5 DEF Writes
  <2>2. SessionFine(t, registry'[g], broker'[g])
    <3> HIDE DEF g
    <3> QED BY <1>1, <2>1 DEF SessionFine
  <2> HIDE DEF g, n
  <2> QED BY <1>2, <1>3, <2>1, <2>2, UnstoredFine DEF g
<1> QED BY <1>4, <1>5

\* A step of a host that leaves its session and the registry alone.
LEMMA StaysFine ==
  ASSUME IdentityInv, NEW h \in Holders, act' = act, Only(h), Fewer, registry' = registry
  PROVE  /\ registry' \in [Generations -> Snapshots]
         /\ \A g \in Generations : Sealed(registry'[g], broker'[g])
         /\ \A k \in Holders \ {h} : HostFine(k)'
BY OthersKeep, UnstoredFine

-----------------------------------------------------------------------------
(* What every step owes the run as a whole. *)

\* A generation whose snapshot needs nothing any more is closed.
LEMMA RetiredIsClosed ==
  ASSUME IdentityInv, NEW g \in Generations, g \notin Unretired
  PROVE  Closed(g)
<1> DEFINE n == registry[g]
<1>1. Sealed(n, broker[g]) /\ n \in Snapshots
  BY DEF IdentityInv, IdentityTypeOK
<1>2. n.ops = {} /\ n.all \subseteq n.ret
  <2>1. n.rev \in Nat
    BY <1>1 DEF Snapshots
  <2>2. n.rev = 0 \/ n.phase = "retired"
    BY <2>1 DEF Unretired, Lineage
  <2> QED BY <1>1, <2>2 DEF Sealed
<1>3. ASSUME NEW r \in Roles PROVE ~Live(g, r)
  BY <1>1, <1>2 DEF Sealed, Covered, Live
<1>4. ASSUME NEW h \in Holders, main[h].pc = "acquiring" PROVE mem[h].gen # g
  <2>1. mem[h].where # "none" /\ MainFine(main[h], mem[h], act[h], registry[mem[h].gen], broker[mem[h].gen])
    BY <1>4 DEF IdentityInv, HostFine
  <2>2. <<"acquire", main[h].role, 0>> \in registry[mem[h].gen].ops
    BY <1>4, <2>1 DEF MainFine
  <2> QED BY <1>2, <2>2
<1> QED BY <1>3, <1>4 DEF Closed

\* A session that nobody has written after and that has retired all it knew,
\* without an open marker, has nothing live.
LEMMA WholeIsClosed ==
  ASSUME IdentityInv, NEW h \in Holders, mem[h].where # "none", CanSave(mem[h]) \/ mem[h].rev = registry[mem[h].gen].rev,
         mem[h].ops = {}, mem[h].all \subseteq mem[h].ret
  PROVE  Closed(mem[h].gen)
<1> DEFINE g == mem[h].gen
           n == registry[g]
<1>1. SessionFine(mem[h], n, broker[g]) /\ mem[h].rev = n.rev
  BY DEF IdentityInv, HostFine, CanSave
<1>2. n.ops = {} /\ Covered(mem[h], broker[g])
  BY <1>1 DEF SessionFine
<1>3. ASSUME NEW r \in Roles PROVE ~Live(g, r)
  BY <1>2 DEF Covered, Live
<1>4. ASSUME NEW k \in Holders, main[k].pc = "acquiring" PROVE mem[k].gen # g
  <2>1. mem[k].where # "none" /\ MainFine(main[k], mem[k], act[k], registry[mem[k].gen], broker[mem[k].gen])
    BY <1>4 DEF IdentityInv, HostFine
  <2>2. <<"acquire", main[k].role, 0>> \in registry[mem[k].gen].ops
    BY <1>4, <2>1 DEF MainFine
  <2> QED BY <1>2, <2>2
<1> QED BY <1>3, <1>4 DEF Closed

\* What a step at place h must respect for the properties of the run.
LEMMA GlobalKeeps ==
  ASSUME IdentityInv, NEW h \in Holders, generation' = generation, act' = act, ending => ending',
         act \in [Holders -> 0 .. MaxGeneration],
         \A k \in Holders \ {h} : mem'[k] = mem[k] /\ main'[k] = main[k] /\ rv'[k] = rv[k],
         \A j \in Generations : Closed(j) =>
           Closed(j)' \/ (j = generation /\ act[h] = j /\ mem[h].gen = j /\ main[h].pc \in Acquiring),
         \A g \in Generations : Begun(g)' =>
           Begun(g) \/ (g <= generation /\ \A j \in Generations : j < g => Closed(j)),
         main'[h].pc = "replace" =>
           \A j \in Generations : j < act[h] /\ (j # mem'[h].gen \/ mem'[h].st = "retired") => Closed(j),
         ending /\ act[h] = generation /\ main[h].pc # "replace" =>
           main'[h].pc # "replace" /\ (main'[h].pc \in Acquiring => main[h].pc \in Acquiring),
         rv'[h].ask = "wait" =>
           \/ rv[h].ask = "wait" /\ mem'[h].gen = mem[h].gen
           \/ Still({h})' /\ \A j \in Generations : j # mem'[h].gen => Closed(j)',
         Due(h)' => \/ Due(h) /\ mem'[h].gen = mem[h].gen
                    \/ Still({})' /\ \A j \in Generations : j # mem'[h].gen => Closed(j)',
         cleaned' # {} => cleaned # {} \/ (Still({})' /\ \A j \in Generations : Closed(j)'),
         intent' # 0
  PROVE  Owners' /\ Exclusive' /\ Replacing' /\ Cleaning' /\ Fresh'
<1>1. Owners /\ Exclusive /\ Replacing /\ Cleaning /\ generation \in 0 .. MaxGeneration
  BY DEF IdentityInv, IdentityTypeOK
<1>2. Owners' /\ Fresh'
  BY <1>1 DEF Owners, Fresh
<1>3. ASSUME NEW X, Still(X) PROVE Still(X)'
  <2> SUFFICES ASSUME NEW k \in Holders, act[k] = generation
               PROVE  main'[k].pc # "replace" /\ (main'[k].pc \in Acquiring => k \in X)
    BY <1>3 DEF Still
  <2>1. ending /\ main[k].pc # "replace" /\ (main[k].pc \in Acquiring => k \in X)
    BY <1>3 DEF Still
  <2> QED BY <2>1
<1>4. \A j \in Generations, k \in Holders : j < act[k] => j < generation
  BY <1>1 DEF Owners, Generations
<1>5. \A j \in Generations : Closed(j) /\ j < generation => Closed(j)'
  BY <1>1 DEF Generations
<1>6. Exclusive'
  <2> SUFFICES ASSUME NEW g \in Generations, Begun(g)'
               PROVE  g <= generation /\ \A j \in Generations : j < g => Closed(j)'
    BY DEF Exclusive
  <2>1. g <= generation /\ \A j \in Generations : j < g => Closed(j)
    BY <1>1 DEF Exclusive
  <2>2. \A j \in Generations : j < g => j < generation
    BY <1>1, <2>1 DEF Generations
  <2> QED BY <1>5, <2>1, <2>2
<1>7. Replacing'
  BY <1>1, <1>4, <1>5 DEF Replacing
<1>8. ASSUME NEW k \in Holders, rv[k].ask = "wait", NEW j \in Generations, j # mem[k].gen
      PROVE  Closed(j)'
  <2>1. Closed(j) /\ Still({k})
    BY <1>1, <1>8 DEF Cleaning, ClosedBut
  <2>2. act[h] = generation /\ main[h].pc \in Acquiring => h = k
    BY <2>1 DEF Still
  <2> QED BY <1>8, <2>1, <2>2
<1>9. ASSUME Still({}), NEW j \in Generations, Closed(j) PROVE Closed(j)'
  <2>1. ~(act[h] = generation /\ main[h].pc \in Acquiring)
    BY <1>9 DEF Still
  <2> QED BY <1>9, <2>1
<1>10. Cleaning'
  <2>1. ASSUME NEW k \in Holders, rv'[k].ask = "wait"
        PROVE  Still({k})' /\ \A j \in Generations : j # mem'[k].gen => Closed(j)'
    <3>1. CASE rv[k].ask = "wait" /\ mem'[k].gen = mem[k].gen
      <4>1. Still({k})
        BY <1>1, <3>1 DEF Cleaning
      <4> QED BY <1>3, <1>8, <3>1, <4>1
    <3> QED BY <2>1, <3>1
  <2>2. ASSUME NEW k \in Holders, Due(k)'
        PROVE  Still({})' /\ \A j \in Generations : j # mem'[k].gen => Closed(j)'
    <3>1. CASE Due(k) /\ mem'[k].gen = mem[k].gen
      <4>1. Still({}) /\ \A j \in Generations : j # mem[k].gen => Closed(j)
        BY <1>1, <3>1 DEF Cleaning, ClosedBut
      <4> QED BY <1>3, <1>9, <3>1, <4>1
    <3>2. CASE k # h
      <4>1. Due(k)
        BY <2>2, <3>2 DEF Due
      <4> QED BY <3>1, <3>2, <4>1
    <3> QED BY <2>2, <3>1, <3>2
  <2>3. cleaned' # {} => Still({})' /\ \A j \in Generations : Closed(j)'
    <3>1. CASE cleaned # {}
      <4>1. Still({}) /\ \A j \in Generations : Closed(j)
        BY <1>1, <3>1 DEF Cleaning
      <4> QED BY <1>3, <1>9, <4>1
    <3> QED BY <3>1
  <2> QED BY <2>1, <2>2, <2>3 DEF Cleaning, ClosedBut
<1> QED BY <1>2, <1>6, <1>7, <1>10

\* A step that neither begins an acquisition nor sends one.
LEMMA CalmStep ==
  ASSUME IdentityInv, NEW h \in Holders, generation' = generation, act' = act, intent' = intent,
         ending => ending', intent # 0, Only(h), Fewer,
         main'[h].pc \in Acquiring => main[h].pc \in Acquiring,
         mem'[h].where = "pending" => mem[h].where = "pending", mem'[h].gen = mem[h].gen,
         main'[h].pc = "acquiring" => main[h].pc = "acquiring",
         main'[h].pc = "replace" =>
           /\ main[h].pc = "replace"
           /\ mem'[h].st = "retired" => mem[h].st = "retired" \/ Closed(mem[h].gen),
         rv'[h].ask = "wait" => rv[h].ask = "wait" \/ (Still({h})' /\ ClosedBut(mem[h].gen)),
         Due(h)' => Due(h) \/ (Still({})' /\ ClosedBut(mem[h].gen)),
         cleaned' # {} => cleaned # {} \/ (Due(h) /\ Closed(mem[h].gen))
  PROVE  Owners' /\ Exclusive' /\ Replacing' /\ Cleaning' /\ Fresh'
<1>1. \A k \in Holders \ {h} : mem'[k] = mem[k] /\ main'[k] = main[k] /\ rv'[k] = rv[k]
  BY DEF Only
<1>2. act \in [Holders -> 0 .. MaxGeneration] /\ Replacing /\ Cleaning
  BY DEF IdentityInv, IdentityTypeOK
<1>3. ASSUME NEW j \in Generations, Closed(j) PROVE Closed(j)'
  <2>1. \A r \in Roles : ~Live(j, r)'
    BY <1>3 DEF Closed, Fewer
  <2>2. ASSUME NEW k \in Holders, main'[k].pc = "acquiring" PROVE mem'[k].gen # j
    BY <1>1, <1>3, <2>2 DEF Closed
  <2> QED BY <2>1, <2>2 DEF Closed
<1>4. ASSUME NEW g \in Generations, Begun(g)' PROVE Begun(g)
  <2>1. ASSUME NEW r \in Roles, Live(g, r)' PROVE Begun(g)
    BY <2>1 DEF Begun, Fewer
  <2>2. ASSUME NEW k \in Holders, mem'[k].where = "pending", mem'[k].gen = g PROVE Begun(g)
    BY <1>1, <2>2 DEF Begun
  <2> QED BY <1>4, <2>1, <2>2 DEF Begun
<1>5. main'[h].pc = "replace" =>
        \A j \in Generations : j < act[h] /\ (j # mem'[h].gen \/ mem'[h].st = "retired") => Closed(j)
  BY <1>2 DEF Replacing
<1>6. ending /\ act[h] = generation /\ main[h].pc # "replace" =>
        main'[h].pc # "replace" /\ (main'[h].pc \in Acquiring => main[h].pc \in Acquiring)
  OBVIOUS
<1>7. rv'[h].ask = "wait" =>
        \/ rv[h].ask = "wait" /\ mem'[h].gen = mem[h].gen
        \/ Still({h})' /\ \A j \in Generations : j # mem'[h].gen => Closed(j)'
  BY <1>3 DEF ClosedBut
<1>8. Due(h)' => \/ Due(h) /\ mem'[h].gen = mem[h].gen
                 \/ Still({})' /\ \A j \in Generations : j # mem'[h].gen => Closed(j)'
  BY <1>3 DEF ClosedBut
<1>9. cleaned' # {} => cleaned # {} \/ (Still({})' /\ \A j \in Generations : Closed(j)')
  <2> SUFFICES ASSUME Due(h), Closed(mem[h].gen)
               PROVE  Still({})' /\ \A j \in Generations : Closed(j)'
    OBVIOUS
  <2>1. Still({}) /\ \A j \in Generations : Closed(j)
    BY <1>2 DEF Cleaning, ClosedBut
  <2>2. Still({})'
    BY <1>1, <2>1 DEF Still
  <2> QED BY <1>3, <2>1, <2>2
<1> QED BY <1>1, <1>2, <1>3, <1>4, <1>5, <1>6, <1>7, <1>8, <1>9, GlobalKeeps, Zenon

\* A session in memory means that the intent is there.
LEMMA IntentFirst ==
  ASSUME IdentityInv, \/ \E h \in Holders : mem[h].where # "none" \/ main[h].pc # "idle"
                                            \/ rv[h].pc # "none" \/ rv[h].want
                      \/ Lineage # {}
  PROVE  intent # 0
<1>1. Fresh /\ \A h \in Holders : HostFine(h)
  BY DEF IdentityInv
<1>2. ASSUME NEW h \in Holders, mem[h].where # "none" \/ main[h].pc # "idle" \/ rv[h].pc # "none" \/ rv[h].want
      PROVE  mem[h].where # "none"
  BY <1>1, <1>2 DEF HostFine
<1> QED BY <1>1, <1>2 DEF Fresh, Lineage

\* What acts on a session is there, and so is its session.
LEMMA ActsOnSession ==
  ASSUME IdentityInv, NEW h \in Holders,
         \/ mem[h].where # "none" \/ main[h].pc # "idle"
         \/ rv[h].pc # "none" \/ rv[h].want \/ rv[h].ask # "no"
  PROVE  /\ mem[h].where # "none" /\ intent # 0 /\ mem[h].gen \in Generations
         /\ mem[h] \in Sessions /\ main[h] \in MainStates /\ rv[h] \in Revocations
         /\ registry[mem[h].gen] \in Snapshots
         /\ SessionFine(mem[h], registry[mem[h].gen], broker[mem[h].gen])
         /\ MainFine(main[h], mem[h], act[h], registry[mem[h].gen], broker[mem[h].gen])
         /\ PlaceFine(main[h], mem[h], act[h]) /\ RvFine(rv[h], main[h], mem[h])
<1>1. HostFine(h) /\ mem[h].where # "none"
  BY DEF IdentityInv, HostFine
<1>2. intent # 0
  BY <1>1, IntentFirst
<1>3. mem[h].gen \in Generations
  BY <1>1 DEF HostFine, SessionFine
<1> QED BY <1>1, <1>2, <1>3 DEF HostFine, IdentityInv, IdentityTypeOK

\* The next state p of main, when s or t is its session then: an acquisition
\* is begun by none of these steps, and whoever leaves one takes its session out.
Onward(h, p, s, t) ==
  /\ p \in Acquiring => main[h].pc \in Acquiring /\ s.where = mem[h].where /\ t.where = mem[h].where
  /\ p \in Pending => main[h].pc \in Pending
  /\ main[h].pc \in Pending => p \in Pending \/ (s.where # "pending" /\ t.where # "pending")
  /\ p \notin {"acquiring", "replace"}

\* A step of main on its session, beside which rv is at most asked to revoke.
LEMMA MainStep ==
  ASSUME IdentityInv, NEW h \in Holders, mem[h].where # "none",
         UNCHANGED <<generation, act, intent, ending, cleaned>>, acked' \in BOOLEAN,
         faults' \in 0 .. MaxFaults, Fewer,
         rv' \in {rv, [rv EXCEPT ![h].want = TRUE]},
         NEW m \in MainStates, main' = [main EXCEPT ![h] = m],
         NEW s, NEW t, Fits(h, s), Fits(h, t), t.ops = mem[h].ops, Writes(h, s, t),
         mem[h].gen = act[h] \/ Marks(mem[h].ops, s.ops),
         mem[h].all \subseteq s.all, mem[h].all \subseteq t.all,
         Onward(h, m.pc, s, t),
         MainFine(m, mem'[h], act[h], registry'[mem[h].gen], broker'[mem[h].gen])
  PROVE  IdentityInv'
<1>1. /\ mem \in [Holders -> Sessions] /\ main \in [Holders -> MainStates] /\ rv \in [Holders -> Revocations]
      /\ act \in [Holders -> 0 .. MaxGeneration]
  BY DEF IdentityInv, IdentityTypeOK
<1>2. s \in Sessions /\ t \in Sessions /\ Saved(s) \in Sessions /\ Saved(s).all = s.all
  BY SnapshotFields DEF Fits
<1>3. /\ rv' \in [Holders -> Revocations] /\ rv'[h].pc = rv[h].pc /\ rv'[h].todo = rv[h].todo
      /\ rv'[h].lease = rv[h].lease /\ rv'[h].cleanup = rv[h].cleanup /\ rv'[h].ask = rv[h].ask
      /\ (rv[h].want => rv'[h].want) /\ \A k \in Holders \ {h} : rv'[k] = rv[k]
  <2>1. CASE rv' = rv
    BY <1>1, <2>1
  <2>2. CASE rv' = [rv EXCEPT ![h].want = TRUE]
    <3> DEFINE v == [rv[h] EXCEPT !.want = TRUE]
    <3>1. rv[h] \in Revocations
      BY <1>1
    <3>2. /\ v \in Revocations /\ v.pc = rv[h].pc /\ v.todo = rv[h].todo
          /\ v.lease = rv[h].lease /\ v.cleanup = rv[h].cleanup /\ v.ask = rv[h].ask /\ v.want
      BY <3>1 DEF Revocations
    <3>3. rv' = [rv EXCEPT ![h] = v]
      BY <2>2
    <3> HIDE DEF v
    <3> QED BY <1>1, <3>2, <3>3
  <2> QED BY <2>1, <2>2
<1>4. Only(h)
  BY <1>1, <1>2, <1>3 DEF Only, Writes
<1>5. /\ mem'[h] \in {t, Saved(s)} /\ mem'[h].gen = mem[h].gen /\ mem'[h].where # "none"
      /\ registry' \in [Generations -> Snapshots]
      /\ \A g \in Generations : Sealed(registry'[g], broker'[g])
      /\ \A k \in Holders \ {h} : HostFine(k)'
      /\ SessionFine(mem'[h], registry'[mem[h].gen], broker'[mem[h].gen])
      /\ mem'[h].where \in {s.where, t.where}
  BY <1>4, WriteKeeps
<1>6. main'[h] = m /\ act'[h] = act[h]
  BY <1>1
<1>7. HostFine(h)'
  <2>1. mem[h].all \subseteq mem'[h].all
    BY <1>2, <1>5
  <2>2. RvFine(rv'[h], m, mem'[h])
    <3>1. RvFine(rv[h], main[h], mem[h])
      BY DEF IdentityInv, HostFine
    <3>2. m.pc # "replace" /\ (m.pc \in Pending => main[h].pc \in Pending)
      BY DEF Onward
    <3> QED BY <1>3, <2>1, <3>1, <3>2 DEF RvFine
  <2>3. PlaceFine(m, mem'[h], act[h])
    <3>1. PlaceFine(main[h], mem[h], act[h])
      BY DEF IdentityInv, HostFine
    <3> QED BY <1>5, <3>1 DEF PlaceFine, Onward, Fits
  <2> QED BY <1>5, <1>6, <2>2, <2>3 DEF HostFine
<1>8. Owners' /\ Exclusive' /\ Replacing' /\ Cleaning' /\ Fresh'
  <2>1. intent # 0
    BY IntentFirst
  <2>2. mem'[h].where = "pending" => mem[h].where = "pending"
    BY <1>5 DEF Fits
  <2>3. m.pc \notin {"acquiring", "replace"} /\ (m.pc \in Acquiring => main[h].pc \in Acquiring)
    BY DEF Onward
  <2>4. (Due(h)' => Due(h)) /\ (rv'[h].ask = "wait" => rv[h].ask = "wait")
    BY <1>3 DEF Due
  <2> QED BY <1>4, <1>5, <1>6, <2>1, <2>2, <2>3, <2>4, CalmStep
<1>9. IdentityTypeOK'
  BY <1>4, <1>5 DEF IdentityInv, IdentityTypeOK, Only, Fewer
<1> QED BY <1>5, <1>7, <1>8, <1>9 DEF IdentityInv

\* What a revocation leaves of the session, whatever main is at.
Kept(h, x) ==
  /\ x.cur = mem[h].cur /\ x.all = mem[h].all
  /\ mem[h].ret \subseteq x.ret /\ x.ret \subseteq mem[h].ret \cup mem[h].all
  /\ Marks(mem[h].ops, x.ops) /\ Marks(x.ops, mem[h].ops)
  /\ \A l \in x.ret \ mem[h].ret : broker'[mem[h].gen][l[1]].state # "live"

\* A step of rv on the session, beside main.
LEMMA RvStep ==
  ASSUME IdentityInv, NEW h \in Holders, mem[h].where # "none",
         UNCHANGED <<generation, act, intent, acked, main>>, ending' \in BOOLEAN, ending => ending',
         faults' \in 0 .. MaxFaults, cleaned' \subseteq 0 .. MaxGeneration, Fewer,
         NEW v \in Revocations, rv' = [rv EXCEPT ![h] = v],
         NEW s, NEW t, Fits(h, s), Fits(h, t), t.ops = mem[h].ops, Writes(h, s, t),
         Kept(h, s), Kept(h, t), RvFine(v, main[h], mem[h]),
         v.ask = "wait" => rv[h].ask = "wait" \/ (Still({h})' /\ ClosedBut(mem[h].gen)),
         v.ask = "due" \/ v.cleanup => Due(h) \/ (Still({})' /\ ClosedBut(mem[h].gen)),
         s.where = mem[h].where, t.where = mem[h].where,
         mem'[h].st = "retired" => mem[h].st = "retired" \/ Closed(mem[h].gen),
         cleaned' # {} => cleaned # {} \/ (Due(h) /\ Closed(mem[h].gen))
  PROVE  IdentityInv'
<1> DEFINE g == mem[h].gen
<1>1. /\ mem \in [Holders -> Sessions] /\ main \in [Holders -> MainStates] /\ rv \in [Holders -> Revocations]
      /\ act \in [Holders -> 0 .. MaxGeneration]
  BY DEF IdentityInv, IdentityTypeOK
<1>2. /\ s \in Sessions /\ t \in Sessions /\ Saved(s) \in Sessions /\ Saved(s).all = s.all
      /\ Saved(s).ret = s.ret /\ Saved(s).ops = s.ops /\ Saved(s).cur = s.cur
      /\ Saved(s).gen = s.gen
  BY SnapshotFields DEF Fits
<1>3. Only(h)
  BY <1>1, <1>2 DEF Only, Writes
<1>4. mem[h].gen = act[h] \/ Marks(mem[h].ops, s.ops)
  BY DEF Kept
<1>5. /\ mem'[h] \in {t, Saved(s)} /\ mem'[h].gen = g /\ mem'[h].where # "none"
      /\ registry' \in [Generations -> Snapshots]
      /\ \A k \in Generations : Sealed(registry'[k], broker'[k])
      /\ \A k \in Holders \ {h} : HostFine(k)'
      /\ SessionFine(mem'[h], registry'[g], broker'[g])
      /\ registry'[g] = registry[g] \/ registry'[g].ops = s.ops
      /\ mem'[h].where = mem[h].where
  <2> HIDE DEF g
  <2> QED BY <1>3, <1>4, WriteKeeps DEF g
<1>6. Kept(h, mem'[h])
  BY <1>2, <1>5 DEF Kept
<1>7. main' = main /\ rv'[h] = v /\ act'[h] = act[h]
  BY <1>1
<1>8. MainFine(main[h], mem'[h], act[h], registry'[g], broker'[g])
  <2> DEFINE q == main[h].role
             x == mem'[h]
  <2>1. /\ MainFine(main[h], mem[h], act[h], registry[g], broker[g]) /\ g \in Generations
        /\ SessionFine(mem[h], registry[g], broker[g])
    BY DEF IdentityInv, HostFine, SessionFine
  <2>2. q \in Roles /\ \A r \in Roles : broker'[g][r].state = "live" => broker[g][r].state = "live"
    BY <1>1, <2>1 DEF MainStates, Fewer, Live
  <2>3. <<"acquire", q, 0>> \in mem[h].ops \cap registry[g].ops =>
          <<"acquire", q, 0>> \in x.ops \cap registry'[g].ops
    BY <1>5, <1>6, <2>2 DEF Kept, Marks
  <2>4. \A r \in Nat : Below(mem[h], r) => Below(x, r)
    BY <1>6 DEF Below, Kept
  <2>5. \A r \in Nat : Unasked(mem[h], r) => Unasked(x, r)
    BY <1>6 DEF Unasked, Kept, Marks
  <2>6. ASSUME broker'[g][q].state = "live",
               \E u \in 1 .. MaxVersion : <<q, u>> \in mem[h].all \ mem[h].ret
        PROVE  \E u \in 1 .. MaxVersion : <<q, u>> \in x.all \ x.ret
    <3>1. PICK u \in 1 .. MaxVersion : <<q, u>> \in mem[h].all \ mem[h].ret
      BY <2>6
    <3>2. <<q, u>> \notin x.ret
      BY <1>6, <2>6, <3>1 DEF Kept
    <3> QED BY <1>6, <3>1, <3>2 DEF Kept
  <2>7. x.cur = mem[h].cur /\ x.gen = mem[h].gen /\ q \in Nat /\ q + 1 \in Nat
    BY <1>5, <1>6, <2>2 DEF Kept, Roles
  <2> HIDE DEF g, x, q
  <2> QED BY <2>1, <2>2, <2>3, <2>4, <2>5, <2>6, <2>7 DEF MainFine, q, g, x
<1>9. HostFine(h)'
  <2>1. RvFine(v, main[h], mem'[h])
    BY <1>6 DEF RvFine, Kept
  <2>2. PlaceFine(main[h], mem'[h], act[h])
    BY <1>5 DEF PlaceFine, IdentityInv, HostFine
  <2> HIDE DEF g
  <2> QED BY <1>5, <1>7, <1>8, <2>1, <2>2 DEF HostFine, g
<1>10. Owners' /\ Exclusive' /\ Replacing' /\ Cleaning' /\ Fresh'
  <2>1. intent # 0
    BY IntentFirst
  <2>2. /\ Due(h)' => Due(h) \/ (Still({})' /\ ClosedBut(mem[h].gen))
        /\ rv'[h].ask = "wait" => rv[h].ask = "wait" \/ (Still({h})' /\ ClosedBut(mem[h].gen))
    BY <1>7 DEF Due
  <2> QED BY <1>3, <1>5, <1>7, <2>1, <2>2, CalmStep
<1>11. IdentityTypeOK'
  BY <1>3, <1>5 DEF IdentityInv, IdentityTypeOK, Only, Fewer
<1> QED BY <1>5, <1>9, <1>10, <1>11 DEF IdentityInv

-----------------------------------------------------------------------------
(* The shapes of the actions. *)

\* The states in which main needs nothing of its session.
LEMMA MainFree ==
  ASSUME NEW m, NEW x, NEW a, NEW n, NEW row,
         m.pc \in {"idle", "replace", "activate", "failing", "rollback", "reactivate", "renewFailing"}
  PROVE  MainFine(m, x, a, n, row)
BY DEF MainFine, Acquiring

\* Main goes on to another state.
LEMMA GoesTo ==
  ASSUME IdentityInv, NEW h \in Holders, NEW p,
         p \in {"idle", "replace", "persist", "begin", "acquire", "acquiring", "acquired",
                "record", "activate", "failing", "rollback", "reactivate", "renewBegin",
                "renew", "renewed", "renewRecord", "renewFailing"}, Goes(h, p)
  PROVE  \E m \in MainStates : m.pc = p /\ m.role = main[h].role /\ main' = [main EXCEPT ![h] = m]
<1>1. main[h] \in MainStates
  BY DEF IdentityInv, IdentityTypeOK
<1> DEFINE m == [main[h] EXCEPT !.pc = p]
<1>2. m \in MainStates /\ m.pc = p /\ m.role = main[h].role
  BY <1>1 DEF MainStates, Renewing
<1>3. main' = [main EXCEPT ![h] = m]
  BY DEF Goes
<1> HIDE DEF m
<1> QED BY <1>2, <1>3

\* What a save does, and a failed one.
LEMMA SaveDoes ==
  ASSUME IdentityInv, NEW s
  PROVE  /\ Save(s) => Stores(s) /\ faults' \in 0 .. MaxFaults
         /\ SaveFails(s) => (Stores(s) \/ registry' = registry) /\ faults' \in 0 .. MaxFaults
<1>1. faults \in 0 .. MaxFaults
  BY DEF IdentityInv, IdentityTypeOK
<1> QED BY <1>1 DEF Save, SaveFails, Stores

\* A fault that strikes is counted.
LEMMA StrikesCount ==
  ASSUME IdentityInv
  PROVE  (Strikes \/ faults' = faults) => faults' \in 0 .. MaxFaults
BY DEF IdentityInv, IdentityTypeOK, Strikes

\* A step that leaves the broker alone.
LEMMA BrokerSame ==
  ASSUME IdentityInv, broker' = broker
  PROVE  Fewer
BY DEF IdentityInv, IdentityTypeOK, Fewer, Live

\* A revocation or an expiry takes one lease away.
LEMMA BrokerRevokes ==
  ASSUME IdentityInv, NEW g \in Generations, NEW r \in Roles, broker' = RemoteRevoke(g, r)
  PROVE  Fewer /\ broker'[g][r].state # "live"
<1> DEFINE x == [broker[g][r] EXCEPT !.state = "gone"]
<1>1. broker[g][r] \in [state : {"none", "live", "gone"}, ver : Nat]
  BY DEF IdentityInv, IdentityTypeOK
<1>2. x \in [state : {"none", "live", "gone"}, ver : Nat] /\ x.state = "gone"
  BY <1>1
<1>3. broker' = [broker EXCEPT ![g] = [broker[g] EXCEPT ![r] = x]]
  BY DEF RemoteRevoke
<1> HIDE DEF x
<1>4. x \in [state : {"none", "live", "gone"}, ver : Nat] /\ x.state # "live"
  BY <1>2
<1> QED BY <1>3, <1>4 DEF IdentityInv, IdentityTypeOK, Fewer, Live

\* A renewal makes a version, not a lease.
LEMMA BrokerRenews ==
  ASSUME IdentityInv, NEW g \in Generations, NEW r \in Roles, broker' = RemoteRenew(g, r)
  PROVE  Fewer
<1> DEFINE x == [broker[g][r] EXCEPT !.ver = @ + 1]
<1>1. broker[g][r] \in [state : {"none", "live", "gone"}, ver : Nat]
  BY DEF IdentityInv, IdentityTypeOK
<1>2. x \in [state : {"none", "live", "gone"}, ver : Nat] /\ x.state = broker[g][r].state
  BY <1>1
<1>3. broker' = [broker EXCEPT ![g] = [broker[g] EXCEPT ![r] = x]]
  BY DEF RemoteRenew
<1> HIDE DEF x
<1> QED BY <1>2, <1>3 DEF IdentityInv, IdentityTypeOK, Fewer, Live

\* A session that keeps what a revocation keeps fits.
LEMMA KeptFits ==
  ASSUME IdentityInv, NEW h \in Holders, mem[h].where # "none", Fewer, NEW x \in Sessions,
         x.gen = mem[h].gen, x.rev = mem[h].rev, x.where # "none", Kept(h, x),
         x.where = "pending" => mem[h].where = "pending"
  PROVE  Fits(h, x)
<1>1. SessionFine(mem[h], registry[mem[h].gen], broker[mem[h].gen]) /\ mem[h].gen \in Generations
  BY DEF IdentityInv, HostFine, SessionFine
<1>2. Newest(x)
  BY <1>1 DEF SessionFine, Newest, Kept
<1>3. ASSUME mem[h].rev = registry[mem[h].gen].rev PROVE Covered(x, broker'[x.gen])
  <2>1. Covered(mem[h], broker[mem[h].gen])
    BY <1>1, <1>3 DEF SessionFine
  <2> SUFFICES ASSUME NEW r \in Roles, broker'[mem[h].gen][r].state = "live", <<"acquire", r, 0>> \notin x.ops
               PROVE  \E v \in 1 .. MaxVersion : <<r, v>> \in x.all \ x.ret
    BY DEF Covered
  <2>2. broker[mem[h].gen][r].state = "live" /\ <<"acquire", r, 0>> \notin mem[h].ops
    BY <1>1 DEF Fewer, Live, Kept, Marks
  <2>3. PICK v \in 1 .. MaxVersion : <<r, v>> \in mem[h].all \ mem[h].ret
    BY <2>1, <2>2 DEF Covered
  <2>4. <<r, v>> \notin x.ret
    BY <2>3 DEF Kept
  <2> QED BY <2>3, <2>4 DEF Kept
<1> QED BY <1>2, <1>3 DEF Fits

\* The session as it is.
LEMMA SameFits ==
  ASSUME IdentityInv, NEW h \in Holders, mem[h].where # "none", Fewer
  PROVE  Fits(h, mem[h]) /\ Kept(h, mem[h])
<1>1. mem[h] \in Sessions /\ Kept(h, mem[h])
  BY DEF IdentityInv, IdentityTypeOK, Kept, Marks
<1> QED BY <1>1, KeptFits

\* A step of a host that takes up another session, or drops its own, and calls
\* nobody.
LEMMA SwapStep ==
  ASSUME IdentityInv, NEW h \in Holders, UNCHANGED <<generation, act, registry, broker>>,
         ending' \in BOOLEAN, ending => ending', acked' \in BOOLEAN, faults' \in 0 .. MaxFaults,
         intent' \in 0 .. MaxGeneration, intent' # 0,
         NEW x \in Sessions, mem' = [mem EXCEPT ![h] = x],
         NEW m \in MainStates, main' = [main EXCEPT ![h] = m],
         NEW v \in Revocations, rv' = [rv EXCEPT ![h] = v],
         x.where = "none" => m.pc = "idle" /\ v.pc = "none" /\ ~v.want,
         x.where # "none" => /\ SessionFine(x, registry[x.gen], broker[x.gen])
                             /\ MainFine(m, x, act[h], registry[x.gen], broker[x.gen]),
         PlaceFine(m, x, act[h]), RvFine(v, m, x),
         m.pc # "acquiring",
         m.pc \in Acquiring => ~ending \/ main[h].pc = "replace",
         x.where = "pending" => x.gen <= generation /\ \A j \in Generations : j < x.gen => Closed(j),
         m.pc = "replace" =>
           ~ending /\ x.st # "retired" /\ \A j \in Generations : j # x.gen => Closed(j),
         v.ask = "no", ~v.cleanup, cleaned' = cleaned
  PROVE  IdentityInv'
<1>1. /\ mem \in [Holders -> Sessions] /\ main \in [Holders -> MainStates] /\ rv \in [Holders -> Revocations]
      /\ act \in [Holders -> 0 .. MaxGeneration] /\ generation \in 0 .. MaxGeneration
      /\ registry \in [Generations -> Snapshots]
  BY DEF IdentityInv, IdentityTypeOK
<1>2. mem'[h] = x /\ main'[h] = m /\ rv'[h] = v
  BY <1>1
<1>3. Only(h)
  BY <1>1 DEF Only
<1>4. Fewer
  BY BrokerSame
<1>5. /\ \A g \in Generations : Sealed(registry'[g], broker'[g])
      /\ \A k \in Holders \ {h} : HostFine(k)'
  BY <1>3, <1>4, StaysFine
<1>6. HostFine(h)'
  BY <1>2 DEF HostFine
<1>7. \A k \in Holders \ {h} : mem'[k] = mem[k] /\ main'[k] = main[k] /\ rv'[k] = rv[k]
  BY <1>3 DEF Only
<1>8. ASSUME NEW j \in Generations, Closed(j) PROVE Closed(j)'
  BY <1>2, <1>7, <1>8 DEF Closed, Live
<1>9. ASSUME NEW g \in Generations, Begun(g)'
      PROVE  Begun(g) \/ (g <= generation /\ \A j \in Generations : j < g => Closed(j))
  <2>1. ASSUME NEW r \in Roles, Live(g, r)' PROVE Begun(g)
    BY <2>1 DEF Begun, Live
  <2>2. ASSUME NEW k \in Holders \ {h}, mem'[k].where = "pending", mem'[k].gen = g PROVE Begun(g)
    BY <1>7, <2>2 DEF Begun
  <2> QED BY <1>2, <1>9, <2>1, <2>2 DEF Begun
<1>10. ending /\ act[h] = generation /\ main[h].pc # "replace" =>
         main'[h].pc # "replace" /\ (main'[h].pc \in Acquiring => main[h].pc \in Acquiring)
  BY <1>2
<1>11. main'[h].pc = "replace" =>
         \A j \in Generations : j < act[h] /\ (j # mem'[h].gen \/ mem'[h].st = "retired") => Closed(j)
  BY <1>2
<1>12. rv'[h].ask # "wait" /\ ~Due(h)'
  BY <1>2 DEF Due
<1>13. Owners' /\ Exclusive' /\ Replacing' /\ Cleaning' /\ Fresh'
  BY <1>1, <1>7, <1>8, <1>9, <1>10, <1>11, <1>12, GlobalKeeps, Zenon
<1>14. IdentityTypeOK'
  BY <1>3, <1>4 DEF IdentityInv, IdentityTypeOK, Only
<1> QED BY <1>5, <1>6, <1>13, <1>14 DEF IdentityInv

\* A step at several places that calls nobody and begins nothing: whoever
\* acquires, replaces or waits for an acquisition does so as before.
LEMMA SettleStep ==
  ASSUME IdentityInv, IdentityTypeOK', Owners', UNCHANGED <<generation, registry, broker>>,
         ending => ending', intent' # 0,
         \A k \in Holders : HostFine(k)',
         \A k \in Holders :
           (mem'[k].where = "pending" \/ main'[k].pc \in Acquiring \cup {"replace"}
              \/ rv'[k].ask = "wait") =>
             mem'[k] = mem[k] /\ main'[k] = main[k] /\ rv'[k] = rv[k] /\ act'[k] = act[k],
         \A k \in Holders : Due(k)' =>
           \/ Due(k) /\ mem'[k].gen = mem[k].gen
           \/ Still({})' /\ \A j \in Generations : j # mem'[k].gen => Closed(j),
         cleaned' # {} => cleaned # {} \/ (Still({})' /\ \A j \in Generations : Closed(j))
  PROVE  IdentityInv'
<1>1. Owners /\ Exclusive /\ Replacing /\ Cleaning
  BY DEF IdentityInv
<1>2. ASSUME NEW j \in Generations, Closed(j) PROVE Closed(j)'
  <2>1. ASSUME NEW k \in Holders, main'[k].pc = "acquiring" PROVE mem'[k].gen # j
    BY <1>2, <2>1 DEF Closed, Acquiring
  <2> QED BY <1>2, <2>1 DEF Closed, Live
<1>3. ASSUME NEW g \in Generations, Begun(g)' PROVE Begun(g)
  BY <1>3 DEF Begun, Live
<1>4. ASSUME NEW X, Still(X) PROVE Still(X)'
  <2> SUFFICES ASSUME NEW k \in Holders, act'[k] = generation
               PROVE  main'[k].pc # "replace" /\ (main'[k].pc \in Acquiring => k \in X)
    BY <1>4 DEF Still
  <2>1. main'[k].pc \in Acquiring \cup {"replace"} => main'[k] = main[k] /\ act'[k] = act[k]
    OBVIOUS
  <2> QED BY <1>4, <2>1 DEF Still
<1>5. Exclusive'
  BY <1>1, <1>2, <1>3 DEF Exclusive
<1>6. Replacing'
  BY <1>1, <1>2 DEF Replacing
<1>7. Cleaning'
  <2>1. ASSUME NEW k \in Holders, rv'[k].ask = "wait"
        PROVE  Still({k})' /\ \A j \in Generations : j # mem'[k].gen => Closed(j)'
    <3>1. rv[k].ask = "wait" /\ mem'[k] = mem[k]
      BY <2>1
    <3>2. Still({k}) /\ \A j \in Generations : j # mem[k].gen => Closed(j)
      BY <1>1, <3>1 DEF Cleaning, ClosedBut
    <3> QED BY <1>2, <1>4, <3>1, <3>2
  <2>2. ASSUME NEW k \in Holders, Due(k)'
        PROVE  Still({})' /\ \A j \in Generations : j # mem'[k].gen => Closed(j)'
    <3>1. CASE Due(k) /\ mem'[k].gen = mem[k].gen
      <4>1. Still({}) /\ \A j \in Generations : j # mem[k].gen => Closed(j)
        BY <1>1, <3>1 DEF Cleaning, ClosedBut
      <4> QED BY <1>2, <1>4, <3>1, <4>1
    <3> QED BY <1>2, <2>2, <3>1
  <2>3. cleaned' # {} => Still({})' /\ \A j \in Generations : Closed(j)'
    BY <1>1, <1>2, <1>4 DEF Cleaning
  <2> QED BY <2>1, <2>2, <2>3 DEF Cleaning, ClosedBut
<1>8. \A g \in Generations : Sealed(registry'[g], broker'[g])
  BY DEF IdentityInv
<1> QED BY <1>5, <1>6, <1>7, <1>8 DEF IdentityInv, Fresh

\* The values without a session.
LEMMA Blank ==
  NoSession \in Sessions /\ Resting \in MainStates /\ NoRevocation \in Revocations
<1>1. 1 \in Roles /\ <<1, 1>> \in Leases
  BY DEF Roles, Leases
<1>2. [r \in Roles |-> 0] \in [Roles -> 0 .. MaxVersion]
  OBVIOUS
<1> QED
  BY <1>1, <1>2 DEF NoSession, Sessions, Resting, MainStates, Renewing, NoRevocation, Revocations, Phases

\* A session restored from a sealed snapshot.
LEMMA RestoredFine ==
  ASSUME IdentityInv, NEW g \in Lineage
  PROVE  /\ Restored(g) \in Sessions /\ g \in Generations /\ Restored(g).gen = g
         /\ Restored(g).where = "session" /\ Restored(g).phase = registry[g].phase
         /\ Restored(g).st = "retired" => registry[g].phase = "retired"
         /\ Restored(g).ops = registry[g].ops /\ Restored(g).cur = registry[g].cur
         /\ SessionFine(Restored(g), registry[g], broker[g])
<1> DEFINE n == registry[g]
           x == Restored(g)
<1>1. g \in Generations /\ n \in Snapshots /\ Sealed(n, broker[g])
  BY DEF Lineage, IdentityInv, IdentityTypeOK
<1>2. n.rev \in Nat /\ g \in 0 .. MaxGeneration
  BY <1>1 DEF Snapshots, Generations
<1>3. /\ x.gen = g /\ x.where = "session" /\ x.phase = n.phase /\ x.ops = n.ops /\ x.cur = n.cur
      /\ x.all = n.all /\ x.ret = n.ret /\ x.rev = n.rev
      /\ (x.st = "retired" => n.phase = "retired")
  BY DEF Restored
<1>4. x \in Sessions
  <2> HIDE DEF n
  <2> QED BY <1>1, <1>2 DEF Restored, Sessions, Snapshots, n
<1>5. SessionFine(x, n, broker[g])
  <2>1. n.rev <= n.rev
    BY <1>2
  <2> HIDE DEF n, x
  <2> QED BY <1>1, <1>3, <2>1 DEF SessionFine, Sealed, Newest, Covered
<1> QED BY <1>1, <1>3, <1>4, <1>5

\* A marker is taken away.
LEMMA UnmarkedFields ==
  ASSUME NEW s \in Sessions, NEW m
  PROVE  /\ Unmarked(s, m) \in Sessions /\ Unmarked(s, m).ops = s.ops \ {m}
         /\ Unmarked(s, m).gen = s.gen /\ Unmarked(s, m).rev = s.rev /\ Unmarked(s, m).where = s.where
         /\ Unmarked(s, m).cur = s.cur /\ Unmarked(s, m).all = s.all /\ Unmarked(s, m).ret = s.ret
         /\ Unmarked(s, m).st = s.st /\ Unmarked(s, m).timed = s.timed
BY DEF Unmarked, Sessions

\* A session that is left alone, as a write of itself that is not made.
LEMMA Untouched ==
  ASSUME IdentityInv, NEW h \in Holders, NEW s, mem' = mem, registry' = registry \/ Stores(s)
  PROVE  Writes(h, s, mem[h])
BY DEF IdentityInv, IdentityTypeOK, Writes

\* A step of main to a state in which it needs nothing of its session.
LEMMA FreeStep ==
  ASSUME IdentityInv, NEW h \in Holders, mem[h].where # "none",
         UNCHANGED <<generation, act, intent, ending, cleaned>>, acked' \in BOOLEAN,
         faults' \in 0 .. MaxFaults, Fewer,
         rv' \in {rv, [rv EXCEPT ![h].want = TRUE]},
         NEW p \in {"idle", "activate", "failing", "rollback", "reactivate", "renewFailing"}, Goes(h, p),
         NEW s, NEW t, Fits(h, s), Fits(h, t), t.ops = mem[h].ops, Writes(h, s, t),
         mem[h].gen = act[h] \/ Marks(mem[h].ops, s.ops),
         mem[h].all \subseteq s.all, mem[h].all \subseteq t.all, Onward(h, p, s, t)
  PROVE  IdentityInv'
<1>1. PICK m \in MainStates : m.pc = p /\ main' = [main EXCEPT ![h] = m]
  BY GoesTo
<1>2. MainFine(m, mem'[h], act[h], registry'[mem[h].gen], broker'[mem[h].gen])
  BY <1>1, MainFree
<1> QED BY <1>1, <1>2, MainStep

\* The end of a call that failed definitively.
LEMMA DefinitiveStep ==
  ASSUME IdentityInv, NEW h \in Holders, mem[h].where # "none",
         UNCHANGED <<generation, act, intent, acked, ending, cleaned, rv>>, Fewer,
         NEW s, Fits(h, s), s.ops = mem[h].ops, mem[h].all \subseteq s.all,
         NEW m, Fits(h, Unmarked(s, m)),
         mem[h].gen = act[h] \/ Marks(mem[h].ops, Unmarked(s, m).ops),
         NEW p \in {"failing", "renewFailing"}, Definitive(h, s, m, p),
         p = "failing" <=> main[h].pc \in Pending
  PROVE  IdentityInv'
<1> DEFINE u == Unmarked(s, m)
<1>1. u.all = s.all
  BY UnmarkedFields DEF Fits
<1>2. faults' \in 0 .. MaxFaults /\ acked' \in BOOLEAN
  BY SaveDoes DEF Definitive, IdentityInv, IdentityTypeOK
<1>3. Writes(h, u, s)
  BY SaveDoes DEF Definitive, Writes, Sets
<1>4. Goes(h, p)
  BY DEF Definitive
<1> HIDE DEF u
<1>5. Fits(h, u) /\ (mem[h].gen = act[h] \/ Marks(mem[h].ops, u.ops)) /\ mem[h].all \subseteq u.all
  BY <1>1 DEF u
<1>6. Onward(h, p, u, s)
  BY DEF Onward, Acquiring, Pending
<1> QED BY <1>2, <1>3, <1>4, <1>5, <1>6, FreeStep

\* Without the marker of an acquisition that has nothing live, or whose lease
\* is there, a session covers what is live as before.
LEMMA AcquisitionEnds ==
  ASSUME IdentityInv, NEW h \in Holders, mem[h].where # "none", Fewer, NEW r \in Roles,
         broker'[mem[h].gen][r].state = "live" =>
           \E v \in 1 .. MaxVersion : <<r, v>> \in mem[h].all \ mem[h].ret
  PROVE  Fits(h, Unmarked(mem[h], <<"acquire", r, 0>>))
<1> DEFINE u == Unmarked(mem[h], <<"acquire", r, 0>>)
           g == mem[h].gen
<1>1. mem[h] \in Sessions /\ SessionFine(mem[h], registry[g], broker[g]) /\ g \in Generations
  BY ActsOnSession
<1>2. /\ u \in Sessions /\ u.ops = mem[h].ops \ {<<"acquire", r, 0>>}
      /\ u.gen = g /\ u.rev = mem[h].rev /\ u.where = mem[h].where
      /\ u.cur = mem[h].cur /\ u.all = mem[h].all /\ u.ret = mem[h].ret
  BY <1>1, UnmarkedFields
<1> HIDE DEF u
<1>3. Newest(u)
  BY <1>1, <1>2 DEF SessionFine, Newest
<1>4. ASSUME mem[h].rev = registry[g].rev PROVE Covered(u, broker'[u.gen])
  <2>1. Covered(mem[h], broker[g])
    BY <1>1, <1>4 DEF SessionFine
  <2> SUFFICES ASSUME NEW q \in Roles, broker'[g][q].state = "live", <<"acquire", q, 0>> \notin u.ops
               PROVE  \E v \in 1 .. MaxVersion : <<q, v>> \in u.all \ u.ret
    BY <1>2 DEF Covered
  <2>2. CASE q = r
    BY <1>2, <2>2
  <2>3. CASE q # r
    <3>1. broker[g][q].state = "live"
      BY <1>1 DEF Fewer, Live
    <3>2. <<"acquire", q, 0>> \notin mem[h].ops
      BY <1>2, <2>3
    <3> QED BY <1>2, <2>1, <3>1, <3>2 DEF Covered
  <2> QED BY <2>2, <2>3
<1> QED BY <1>2, <1>3, <1>4 DEF Fits, u

\* An acquisition that goes on with its session.
LEMMA AcquiresOn ==
  ASSUME NEW h \in Holders, main[h].pc \in Pending, NEW p \in Pending \ {"acquiring"}, NEW s, NEW t,
         p \in Acquiring => /\ main[h].pc \in Acquiring
                            /\ s.where = mem[h].where /\ t.where = mem[h].where
  PROVE  Onward(h, p, s, t)
BY DEF Onward, Pending, Acquiring

\* One that ends, and takes its session out of the acquisitions under way.
LEMMA AcquisitionLeaves ==
  ASSUME NEW h \in Holders, NEW s, NEW t, s.where # "pending", t.where # "pending"
  PROVE  Onward(h, "idle", s, t)
BY DEF Onward, Pending, Acquiring

\* Whatever else main does.
LEMMA OtherwiseOn ==
  ASSUME NEW h \in Holders, main[h].pc \notin Pending, NEW p, p \notin Pending \cup {"replace"}, NEW s, NEW t
  PROVE  Onward(h, p, s, t)
BY DEF Onward, Pending, Acquiring

-----------------------------------------------------------------------------
(* Acquisition. *)

\* The first write of a session.
LEMMA PersistFirstKeeps ==
  ASSUME IdentityInv, NEW h \in Holders, PersistFirst(h)
  PROVE  IdentityInv'
<1> DEFINE s == mem[h]
<1>1. /\ main[h].pc = "persist" /\ UNCHANGED <<generation, act, intent, acked, ending, rv, broker, cleaned>>
      /\ \/ Save(s) /\ Sets(h, Saved(s)) /\ Goes(h, "begin")
         \/ SaveFails(s) /\ Goes(h, "failing") /\ UNCHANGED mem
  BY DEF PersistFirst, fence
<1>2. /\ s.where # "none" /\ s \in Sessions /\ s.gen = act[h] /\ acked \in BOOLEAN
      /\ Below(s, main[h].role) /\ Unasked(s, main[h].role)
  BY <1>1, ActsOnSession DEF MainFine, Acquiring, IdentityInv, IdentityTypeOK
<1>3. Fewer /\ Fits(h, s) /\ s.ops = mem[h].ops
  BY <1>1, <1>2, BrokerSame, SameFits
<1>7. Onward(h, "begin", s, s) /\ Onward(h, "failing", s, s)
  BY <1>1, AcquiresOn DEF Pending, Acquiring
<1>4. faults' \in 0 .. MaxFaults
  BY <1>1, SaveDoes
<1>5. CASE Save(s) /\ Sets(h, Saved(s)) /\ Goes(h, "begin")
  <2>1. PICK m \in MainStates : m.pc = "begin" /\ m.role = main[h].role /\ main' = [main EXCEPT ![h] = m]
    BY <1>5, GoesTo
  <2>2. Stores(s) /\ mem' = [mem EXCEPT ![h] = Saved(s)]
    BY <1>5, SaveDoes DEF Sets
  <2>3. Writes(h, s, s)
    BY <2>2 DEF Writes
  <2>4. mem'[h] = Saved(s)
    BY <2>2 DEF IdentityInv, IdentityTypeOK
  <2>5. MainFine(m, mem'[h], act[h], registry'[s.gen], broker'[s.gen])
    BY <1>2, <2>1, <2>4, SnapshotFields DEF MainFine, Below, Unasked
  <2> QED BY <1>1, <1>2, <1>3, <1>4, <1>7, <2>1, <2>3, <2>5, MainStep
<1>6. CASE SaveFails(s) /\ Goes(h, "failing") /\ UNCHANGED mem
  <2>1. Writes(h, s, s)
    BY <1>6, SaveDoes, Untouched
  <2> QED BY <1>1, <1>2, <1>3, <1>4, <1>6, <1>7, <2>1, FreeStep
<1> QED BY <1>1, <1>5, <1>6

\* The marker of an acquisition is written.
LEMMA BeginAcquireKeeps ==
  ASSUME IdentityInv, NEW h \in Holders, BeginAcquire(h)
  PROVE  IdentityInv'
<1> DEFINE r == main[h].role
           g == mem[h].gen
           s == [mem[h] EXCEPT !.ops = @ \cup {<<"acquire", r, 0>>}]
<1>1. /\ main[h].pc = "begin" /\ UNCHANGED <<generation, act, intent, acked, ending, rv, broker, cleaned>>
      /\ \/ Goes(h, "failing") /\ UNCHANGED <<mem, registry, faults>>
         \/ Save(s) /\ Sets(h, Saved(s)) /\ Goes(h, "acquire")
         \/ SaveFails(s) /\ Goes(h, "failing") /\ UNCHANGED mem
  BY DEF BeginAcquire, fence
<1>2. /\ mem[h].where # "none" /\ mem[h] \in Sessions /\ g = act[h] /\ acked \in BOOLEAN
      /\ Below(mem[h], r) /\ Unasked(mem[h], r) /\ r \in Roles /\ g \in Generations
      /\ SessionFine(mem[h], registry[g], broker[g])
  BY <1>1, ActsOnSession DEF MainFine, Acquiring, IdentityInv, IdentityTypeOK, MainStates
<1>3. Fewer /\ Fits(h, mem[h])
  BY <1>1, <1>2, BrokerSame, SameFits
<1>4. faults' \in 0 .. MaxFaults
  BY <1>1, SaveDoes, StrikesCount
<1>5. <<"acquire", r, 0>> \in Markers
  BY <1>2 DEF Markers
<1>6. /\ s \in Sessions /\ s.ops = mem[h].ops \cup {<<"acquire", r, 0>>}
      /\ s.gen = g /\ s.rev = mem[h].rev /\ s.where = mem[h].where
      /\ s.cur = mem[h].cur /\ s.all = mem[h].all /\ s.ret = mem[h].ret
  BY <1>2, <1>5 DEF Sessions
<1> HIDE DEF s
<1>7. Fits(h, s)
  <2>1. Newest(s)
    BY <1>2, <1>6 DEF SessionFine, Newest
  <2>2. mem[h].rev = registry[g].rev => Covered(s, broker'[g])
    BY <1>1, <1>2, <1>6 DEF SessionFine, Covered
  <2> HIDE DEF g
  <2> QED BY <1>2, <1>6, <2>1, <2>2 DEF Fits, g
<1>10. Onward(h, "acquire", s, mem[h]) /\ Onward(h, "failing", s, mem[h])
  BY <1>1, <1>6, AcquiresOn DEF Pending, Acquiring
<1>8. CASE Save(s) /\ Sets(h, Saved(s)) /\ Goes(h, "acquire")
  <2>1. PICK m \in MainStates : m.pc = "acquire" /\ m.role = r /\ main' = [main EXCEPT ![h] = m]
    BY <1>8, GoesTo
  <2>2. Stores(s) /\ mem' = [mem EXCEPT ![h] = Saved(s)]
    BY <1>8, SaveDoes DEF Sets
  <2>3. Writes(h, s, mem[h])
    BY <2>2 DEF Writes
  <2>4. mem'[h] = Saved(s) /\ registry'[g] = Snapshot(s) /\ mem[h].rev = registry[g].rev
    BY <1>2, <1>6, <2>2 DEF IdentityInv, IdentityTypeOK, Stores, CanSave
  <2>5. /\ mem'[h].gen = g /\ mem'[h].ops = s.ops /\ mem'[h].all = mem[h].all
        /\ mem'[h].ret = mem[h].ret /\ registry'[g].ops = s.ops
    BY <1>6, <2>4, SnapshotFields
  <2>6. broker'[g][r].state # "live"
    <3>1. Covered(mem[h], broker[g])
      BY <1>2, <2>4 DEF SessionFine
    <3>2. <<"acquire", r, 0>> \notin mem[h].ops
      BY <1>2 DEF Unasked, Roles
    <3>3. \A v \in 1 .. MaxVersion : <<r, v>> \notin mem[h].all
      BY <1>2 DEF Below, Roles
    <3> QED BY <1>1, <1>2, <3>1, <3>2, <3>3 DEF Covered
  <2>7. Below(mem'[h], r) /\ Unasked(mem'[h], r + 1)
    <3>1. Below(mem'[h], r)
      BY <1>2, <2>5 DEF Below
    <3>2. ASSUME NEW q \in Roles, q >= r + 1 PROVE <<"acquire", q, 0>> \notin mem'[h].ops
      <4>1. q >= r /\ q # r
        BY <1>2, <3>2 DEF Roles
      <4> QED BY <1>2, <1>6, <2>5, <4>1 DEF Unasked
    <3> QED BY <3>1, <3>2 DEF Unasked
  <2>8. MainFine(m, mem'[h], act[h], registry'[g], broker'[g])
    BY <1>2, <1>6, <2>1, <2>5, <2>6, <2>7 DEF MainFine
  <2> QED BY <1>1, <1>2, <1>3, <1>4, <1>6, <1>7, <1>10, <2>1, <2>3, <2>8, MainStep
<1>9. CASE Goes(h, "failing") /\ UNCHANGED mem /\ (SaveFails(s) \/ UNCHANGED <<registry, faults>>)
  <2>1. Writes(h, s, mem[h])
    BY <1>9, SaveDoes, Untouched
  <2> QED BY <1>1, <1>2, <1>3, <1>4, <1>6, <1>7, <1>9, <1>10, <2>1, FreeStep
<1> QED BY <1>1, <1>8, <1>9

\* The fence is read before anything is sent; what is sent may be granted.
LEMMA CallAcquireKeeps ==
  ASSUME IdentityInv, NEW h \in Holders, CallAcquire(h)
  PROVE  IdentityInv'
<1> DEFINE r == main[h].role
           g == mem[h].gen
           s == mem[h]
<1>1. /\ main[h].pc = "acquire" /\ UNCHANGED <<generation, act, intent, acked, ending, rv, broker, cleaned>>
      /\ \/ IsCurrent(g) /\ Goes(h, "acquiring") /\ UNCHANGED <<mem, registry, faults>>
         \/ Definitive(h, s, <<"acquire", r, 0>>, "failing")
  BY DEF CallAcquire, fence
<1>2. /\ s.where # "none" /\ s \in Sessions /\ g = act[h] /\ r \in Roles /\ intent # 0
      /\ MainFine(main[h], s, act[h], registry[g], broker[g]) /\ broker[g][r].state # "live"
      /\ g \in Generations /\ PlaceFine(main[h], s, act[h]) /\ RvFine(rv[h], main[h], s)
  BY <1>1, ActsOnSession DEF MainFine, Acquiring, MainStates
<1>6. main[h].pc \in Pending /\ main[h].pc \in Acquiring
  BY <1>1 DEF Pending, Acquiring
<1>3. Fewer /\ Fits(h, s)
  BY <1>1, <1>2, BrokerSame, SameFits
<1>4. CASE Definitive(h, s, <<"acquire", r, 0>>, "failing")
  <2>1. Fits(h, Unmarked(s, <<"acquire", r, 0>>))
    BY <1>1, <1>2, <1>3, AcquisitionEnds
  <2> QED BY <1>1, <1>2, <1>3, <1>4, <1>6, <2>1, DefinitiveStep
<1>5. CASE IsCurrent(g) /\ Goes(h, "acquiring") /\ UNCHANGED <<mem, registry, faults>>
  <2>1. PICK m \in MainStates : m.pc = "acquiring" /\ m.role = r /\ main' = [main EXCEPT ![h] = m]
    BY <1>5, GoesTo
  <2>2. main \in [Holders -> MainStates] /\ act \in [Holders -> 0 .. MaxGeneration]
    BY DEF IdentityInv, IdentityTypeOK
  <2>3. main'[h] = m /\ \A k \in Holders \ {h} : mem'[k] = mem[k] /\ main'[k] = main[k] /\ rv'[k] = rv[k]
    BY <1>1, <1>5, <2>1, <2>2
  <2>4. Only(h)
    BY <1>1, <1>5, <2>1, <2>2, <2>3 DEF Only, IdentityInv, IdentityTypeOK
  <2>5. /\ \A k \in Generations : Sealed(registry'[k], broker'[k])
        /\ \A k \in Holders \ {h} : HostFine(k)'
    BY <1>1, <1>3, <1>5, <2>4, StaysFine
  <2>6. MainFine(m, s, act[h], registry[g], broker[g])
    BY <1>1, <1>2, <2>1 DEF MainFine
  <2>7. HostFine(h)'
    <3>1. m.pc \in Pending /\ m.pc \in Acquiring /\ m.pc # "replace"
      BY <2>1 DEF Pending, Acquiring
    <3>2. PlaceFine(m, s, act[h]) /\ RvFine(rv[h], m, s)
      BY <1>2, <1>6, <3>1 DEF PlaceFine, RvFine
    <3>3. HostFine(h)
      BY DEF IdentityInv
    <3> QED BY <1>1, <1>2, <1>5, <2>3, <2>6, <3>2, <3>3 DEF HostFine
  <2>8. ASSUME NEW j \in Generations, Closed(j), j # g PROVE Closed(j)'
    BY <1>1, <1>5, <2>3, <2>8 DEF Closed, Live
  <2>9. \A j \in Generations : Closed(j) =>
          Closed(j)' \/ (j = generation /\ act[h] = j /\ mem[h].gen = j /\ main[h].pc \in Acquiring)
    BY <1>2, <1>5, <1>6, <2>8 DEF IsCurrent
  <2>10. \A j \in Generations : Begun(j)' => Begun(j)
    BY <1>1, <1>5 DEF Begun, Live
  <2>11. main'[h].pc # "replace" /\ (Due(h)' => Due(h)) /\ rv'[h].ask = rv[h].ask /\ mem'[h].gen = mem[h].gen
    BY <1>1, <1>5, <2>1, <2>3 DEF Due
  <2>12. Owners' /\ Exclusive' /\ Replacing' /\ Cleaning' /\ Fresh'
    <3> HIDE DEF g, s, r
    <3> QED BY <1>1, <1>2, <1>6, <2>2, <2>3, <2>9, <2>10, <2>11, GlobalKeeps
  <2>13. IdentityTypeOK'
    BY <1>1, <1>5, <2>4 DEF IdentityInv, IdentityTypeOK, Only
  <2> QED BY <2>5, <2>7, <2>12, <2>13 DEF IdentityInv
<1> QED BY <1>1, <1>4, <1>5

\* The lease is granted: its marker is sealed, and no other host acquires for
\* this generation.
LEMMA Grants ==
  ASSUME IdentityInv, NEW h \in Holders, main[h].pc = "acquiring",
         UNCHANGED <<generation, act, intent, acked, ending, mem, rv, registry, cleaned>>,
         faults' \in 0 .. MaxFaults, broker' = RemoteAcquire(mem[h].gen, main[h].role),
         NEW p \in {"acquired", "failing"}, Goes(h, p)
  PROVE  IdentityInv'
<1> DEFINE r == main[h].role
           g == mem[h].gen
           s == mem[h]
<1>1. /\ s.where # "none" /\ s \in Sessions /\ g = act[h] /\ r \in Roles /\ intent # 0
      /\ MainFine(main[h], s, act[h], registry[g], broker[g]) /\ g \in Generations
      /\ <<"acquire", r, 0>> \in s.ops \cap registry[g].ops
      /\ SessionFine(s, registry[g], broker[g])
      /\ PlaceFine(main[h], s, act[h]) /\ RvFine(rv[h], main[h], s)
  BY ActsOnSession DEF MainFine, Acquiring, MainStates
<1>2. PICK m \in MainStates : m.pc = p /\ m.role = r /\ main' = [main EXCEPT ![h] = m]
  BY GoesTo
<1>3. /\ main \in [Holders -> MainStates] /\ act \in [Holders -> 0 .. MaxGeneration]
      /\ broker \in [Generations -> [Roles -> [state : {"none", "live", "gone"}, ver : Nat]]]
  BY DEF IdentityInv, IdentityTypeOK
<1>4. main'[h] = m /\ \A k \in Holders \ {h} : mem'[k] = mem[k] /\ main'[k] = main[k] /\ rv'[k] = rv[k]
  BY <1>2, <1>3
<1>5. /\ broker' \in [Generations -> [Roles -> [state : {"none", "live", "gone"}, ver : Nat]]]
      /\ \A k \in Generations, q \in Roles :
           (k = g /\ q = r) \/ broker'[k][q] = broker[k][q]
      /\ \A k \in Generations : k # g => broker'[k] = broker[k]
  <2> DEFINE x == [state |-> "live", ver |-> 1]
  <2>1. x \in [state : {"none", "live", "gone"}, ver : Nat]
    OBVIOUS
  <2>2. broker' = [broker EXCEPT ![g] = [broker[g] EXCEPT ![r] = x]]
    BY DEF RemoteAcquire
  <2> HIDE DEF x, g, r
  <2> QED BY <1>1, <1>3, <2>1, <2>2
<1>6. ASSUME NEW x, <<"acquire", r, 0>> \in x.ops, Covered(x, broker[g])
      PROVE  Covered(x, broker'[g])
  BY <1>1, <1>5, <1>6 DEF Covered
<1>7. ASSUME NEW j \in Generations PROVE Sealed(registry'[j], broker'[j])
  <2>1. Sealed(registry[j], broker[j])
    BY DEF IdentityInv
  <2>2. CASE j = g
    BY <1>1, <1>6, <2>1, <2>2 DEF Sealed
  <2>3. CASE j # g
    BY <1>5, <2>1, <2>3
  <2> QED BY <2>2, <2>3
<1>8. ASSUME NEW k \in Holders, mem[k].where # "none"
      PROVE  SessionFine(mem[k], registry[mem[k].gen], broker'[mem[k].gen])
  <2>1. SessionFine(mem[k], registry[mem[k].gen], broker[mem[k].gen])
    BY <1>8 DEF IdentityInv, HostFine
  <2>2. CASE mem[k].gen = g
    BY <1>1, <1>6, <2>1, <2>2 DEF SessionFine
  <2>3. CASE mem[k].gen # g
    BY <1>5, <2>1, <2>3 DEF SessionFine
  <2> QED BY <2>2, <2>3
<1>9. ASSUME NEW k \in Holders \ {h} PROVE HostFine(k)'
  <2>1. HostFine(k)
    BY DEF IdentityInv
  <2>2. ASSUME mem[k].where # "none"
        PROVE  MainFine(main[k], mem[k], act[k], registry[mem[k].gen], broker'[mem[k].gen])
    <3>1. /\ MainFine(main[k], mem[k], act[k], registry[mem[k].gen], broker[mem[k].gen])
          /\ mem[k].gen \in Generations
      BY <2>1, <2>2 DEF HostFine, SessionFine
    <3>2. CASE mem[k].gen = g
      <4>1. main[k].pc \notin Acquiring
        <5>1. act[h] = g /\ g # 0
          BY <1>1 DEF Generations
        <5> QED BY <3>1, <3>2, <5>1 DEF MainFine, IdentityInv, Owners
      <4> QED BY <3>1, <4>1 DEF MainFine, Acquiring
    <3>3. CASE mem[k].gen # g
      BY <1>5, <3>1, <3>3
    <3> QED BY <3>2, <3>3
  <2> QED BY <1>4, <1>8, <2>1, <2>2 DEF HostFine
<1>10. HostFine(h)'
  <2>1. MainFine(m, s, act[h], registry[g], broker'[g])
    BY <1>1, <1>2 DEF MainFine, Acquiring
  <2>2. PlaceFine(m, s, act[h]) /\ RvFine(rv[h], m, s)
    BY <1>1, <1>2 DEF PlaceFine, RvFine, Pending, Acquiring
  <2> QED BY <1>1, <1>4, <1>8, <2>1, <2>2 DEF HostFine
<1>11. main[h].pc \in Acquiring /\ s.where = "pending"
  BY <1>1 DEF PlaceFine, Acquiring
<1>12. ASSUME NEW j \in Generations, Closed(j) PROVE Closed(j)'
  <2>1. j # g
    BY <1>12 DEF Closed
  <2>2. \A q \in Roles : ~Live(j, q)'
    BY <1>5, <1>12, <2>1 DEF Closed, Live
  <2>3. \A k \in Holders : main'[k].pc = "acquiring" => mem'[k].gen # j
    BY <1>2, <1>4, <1>12 DEF Closed
  <2> QED BY <2>2, <2>3 DEF Closed
<1>13. ASSUME NEW j \in Generations, Begun(j)' PROVE Begun(j)
  <2>1. Begun(g)
    BY <1>11 DEF Begun
  <2>2. ASSUME NEW q \in Roles, Live(j, q)' PROVE Begun(j)
    BY <1>5, <2>1, <2>2 DEF Begun, Live
  <2>3. ASSUME NEW k \in Holders, mem'[k].where = "pending", mem'[k].gen = j PROVE Begun(j)
    BY <2>3 DEF Begun
  <2> QED BY <1>13, <2>2, <2>3 DEF Begun
<1>14. main'[h].pc # "replace" /\ (Due(h)' => Due(h)) /\ rv'[h].ask = rv[h].ask /\ mem'[h].gen = mem[h].gen
  BY <1>2, <1>4 DEF Due
<1>15. Owners' /\ Exclusive' /\ Replacing' /\ Cleaning' /\ Fresh'
  <2> HIDE DEF g, s, r
  <2> QED BY <1>1, <1>3, <1>4, <1>11, <1>12, <1>13, <1>14, GlobalKeeps
<1>16. IdentityTypeOK'
  BY <1>2, <1>3, <1>5 DEF IdentityInv, IdentityTypeOK
<1> QED BY <1>7, <1>9, <1>10, <1>15, <1>16 DEF IdentityInv

\* A refusal, whose marker is taken away if the session may still write.
LEMMA RefusedWrites ==
  ASSUME IdentityInv, NEW h \in Holders, NEW m, Refused(h, m)
  PROVE  Writes(h, Unmarked(mem[h], m), mem[h]) /\ faults' \in 0 .. MaxFaults
<1> DEFINE s == Unmarked(mem[h], m)
<1>1. CASE CanSave(s)
  <2>1. Stores(s) /\ mem' = [mem EXCEPT ![h] = Saved(s)]
    BY <1>1 DEF Refused, Stores, Sets
  <2> QED BY <2>1, StrikesCount DEF Writes, Refused
<1>2. CASE ~CanSave(s)
  <2>1. registry' = registry /\ mem' = mem
    BY <1>2 DEF Refused
  <2> HIDE DEF s
  <2> QED BY <2>1, StrikesCount, Untouched DEF Refused, s
<1> QED BY <1>1, <1>2

\* ctxlane grants the lease or refuses it; the reply may be lost.
LEMMA RemoteAcquiresKeeps ==
  ASSUME IdentityInv, NEW h \in Holders, RemoteAcquires(h)
  PROVE  IdentityInv'
<1> DEFINE r == main[h].role
           g == mem[h].gen
           s == mem[h]
<1>1. /\ main[h].pc = "acquiring" /\ UNCHANGED <<generation, act, intent, acked, ending, rv, cleaned>>
      /\ \/ /\ broker' = RemoteAcquire(g, r) /\ (Goes(h, "acquired") \/ Goes(h, "failing"))
            /\ UNCHANGED <<mem, registry>> /\ (Strikes \/ faults' = faults)
         \/ UNCHANGED broker /\ Strikes /\ Goes(h, "failing") /\ UNCHANGED <<mem, registry>>
         \/ UNCHANGED broker /\ Refused(h, <<"acquire", r, 0>>) /\ Goes(h, "failing")
  BY DEF RemoteAcquires, fence
<1>2. /\ s.where # "none" /\ s \in Sessions /\ g = act[h] /\ r \in Roles /\ acked \in BOOLEAN
      /\ broker[g][r].state # "live"
  BY <1>1, ActsOnSession DEF MainFine, Acquiring, MainStates, IdentityInv, IdentityTypeOK
<1>3. CASE /\ broker' = RemoteAcquire(g, r) /\ (Goes(h, "acquired") \/ Goes(h, "failing"))
           /\ UNCHANGED <<mem, registry>> /\ (Strikes \/ faults' = faults)
  <2>1. faults' \in 0 .. MaxFaults
    BY <1>3, StrikesCount
  <2>2. PICK p \in {"acquired", "failing"} : Goes(h, p)
    BY <1>3
  <2> QED BY <1>1, <1>3, <2>1, <2>2, Grants
<1>6. \A x, y : Onward(h, "failing", x, y)
  BY <1>1, AcquiresOn DEF Pending, Acquiring
<1>4. CASE UNCHANGED broker /\ Strikes /\ Goes(h, "failing") /\ UNCHANGED <<mem, registry>>
  <2>1. Fewer /\ Fits(h, s) /\ Writes(h, s, s)
    BY <1>2, <1>4, BrokerSame, SameFits, Untouched
  <2> QED BY <1>1, <1>2, <1>4, <1>6, <2>1, StrikesCount, FreeStep
<1>5. CASE UNCHANGED broker /\ Refused(h, <<"acquire", r, 0>>) /\ Goes(h, "failing")
  <2> DEFINE u == Unmarked(s, <<"acquire", r, 0>>)
  <2>1. Fewer /\ Fits(h, s)
    BY <1>2, <1>5, BrokerSame, SameFits
  <2>2. Fits(h, u)
    BY <1>2, <1>5, <2>1, AcquisitionEnds
  <2>3. Writes(h, u, s) /\ faults' \in 0 .. MaxFaults
    BY <1>5, RefusedWrites
  <2>4. u.all = s.all
    BY <1>2, UnmarkedFields
  <2> HIDE DEF u
  <2> QED BY <1>1, <1>2, <1>5, <1>6, <2>1, <2>2, <2>3, <2>4, FreeStep
<1> QED BY <1>1, <1>3, <1>4, <1>5

\* The granted lease is kept in memory, or given back.
LEMMA AcquireReturnsKeeps ==
  ASSUME IdentityInv, NEW h \in Holders, AcquireReturns(h)
  PROVE  IdentityInv'
<1> DEFINE r == main[h].role
           g == mem[h].gen
           s == mem[h]
           t == [s EXCEPT !.cur[r] = 1, !.all = @ \cup {<<r, 1>>}]
<1>1. /\ main[h].pc = "acquired" /\ UNCHANGED <<generation, act, intent, acked, ending, rv, cleaned>>
      /\ \/ Sets(h, t) /\ Goes(h, "record") /\ UNCHANGED <<registry, broker, faults>>
         \/ broker' = RemoteRevoke(g, r) /\ Definitive(h, s, <<"acquire", r, 0>>, "failing")
         \/ /\ broker' \in {broker, RemoteRevoke(g, r)} /\ Strikes
            /\ Goes(h, "failing") /\ UNCHANGED <<mem, registry>>
  BY DEF AcquireReturns, fence
<1>2. /\ s.where # "none" /\ s \in Sessions /\ g = act[h] /\ r \in Roles /\ acked \in BOOLEAN
      /\ g \in Generations /\ SessionFine(s, registry[g], broker[g])
      /\ Below(s, r) /\ Unasked(s, r + 1)
  BY <1>1, ActsOnSession DEF MainFine, Acquiring, MainStates, IdentityInv, IdentityTypeOK
<1>6. main[h].pc \in Pending /\ main[h].pc \in Acquiring /\ \A x, y : Onward(h, "failing", x, y)
  BY <1>1, AcquiresOn DEF Pending, Acquiring
<1>3. CASE Sets(h, t) /\ Goes(h, "record") /\ UNCHANGED <<registry, broker, faults>>
  <2>1. Fewer /\ Fits(h, s) /\ faults' \in 0 .. MaxFaults
    BY <1>2, <1>3, BrokerSame, SameFits, StrikesCount
  <2>2. PICK m \in MainStates : m.pc = "record" /\ m.role = r /\ main' = [main EXCEPT ![h] = m]
    BY <1>3, GoesTo
  <2>3. /\ t \in Sessions /\ t.gen = g /\ t.rev = s.rev /\ t.where = s.where /\ t.ops = s.ops
        /\ t.all = s.all \cup {<<r, 1>>} /\ t.ret = s.ret /\ t.cur = [s.cur EXCEPT ![r] = 1]
    <3> DEFINE cur == [s.cur EXCEPT ![r] = 1]
               all == s.all \cup {<<r, 1>>}
    <3>1. s.cur \in [Roles -> 0 .. MaxVersion] /\ s.all \in SUBSET Leases
      BY <1>2 DEF Sessions
    <3>2. cur \in [Roles -> 0 .. MaxVersion] /\ all \in SUBSET Leases
      BY <1>2, <3>1 DEF Leases
    <3>3. t = [s EXCEPT !.cur = cur, !.all = all]
      OBVIOUS
    <3> HIDE DEF cur, all, t, s
    <3>4. /\ t \in Sessions /\ t.gen = s.gen /\ t.rev = s.rev /\ t.where = s.where /\ t.ops = s.ops
          /\ t.all = all /\ t.ret = s.ret /\ t.cur = cur
      BY <1>2, <3>2, <3>3 DEF Sessions
    <3> QED BY <3>4 DEF cur, all, s
  <2> HIDE DEF t
  <2>4. s.cur \in [Roles -> 0 .. MaxVersion] /\ s.all \cup s.ret \subseteq Leases
    BY <1>2 DEF Sessions
  <2>5. \A l \in s.all \cup s.ret : l[1] \in Roles /\ l[1] < r /\ l[1] # r
    BY <1>2, <2>4 DEF Below, Leases, Roles
  <2>6. Newest(t)
    <3>1. \A l \in s.all \cup s.ret : s.cur[l[1]] = 0 \/ l[2] <= s.cur[l[1]]
      BY <1>2 DEF SessionFine, Newest
    <3> SUFFICES ASSUME NEW l \in t.all \cup t.ret PROVE t.cur[l[1]] = 0 \/ l[2] <= t.cur[l[1]]
      BY DEF Newest
    <3>2. CASE l \in s.all \cup s.ret
      <4>1. t.cur[l[1]] = s.cur[l[1]]
        BY <2>3, <2>4, <2>5, <3>2
      <4> QED BY <3>1, <3>2, <4>1
    <3>3. CASE l = <<r, 1>>
      BY <1>2, <2>3, <2>4, <3>3
    <3> QED BY <2>3, <3>2, <3>3
  <2>7. s.rev = registry[g].rev => Covered(t, broker'[g])
    BY <1>2, <1>3, <2>3 DEF SessionFine, Covered
  <2>8. Fits(h, t)
    BY <1>2, <2>3, <2>6, <2>7 DEF Fits
  <2>9. Writes(h, t, t) /\ mem'[h] = t
    BY <1>3 DEF Writes, Sets, IdentityInv, IdentityTypeOK
  <2>10. Below(t, r + 1) /\ Unasked(t, r + 1)
    <3>1. r < r + 1 /\ \A l \in s.all \cup s.ret : l[1] < r + 1
      BY <1>2, <2>5 DEF Roles
    <3>2. Below(t, r + 1)
      BY <2>3, <3>1 DEF Below
    <3> QED BY <1>2, <2>3, <3>2 DEF Unasked
  <2>11. 1 \in 1 .. MaxVersion /\ <<r, 1>> \in t.all \ t.ret
    <3>1. <<r, 1>> \notin s.ret
      BY <2>5
    <3> QED BY <2>3, <3>1
  <2>12. MainFine(m, mem'[h], act[h], registry'[g], broker'[g])
    BY <1>2, <2>2, <2>3, <2>9, <2>10, <2>11 DEF MainFine
  <2>13. Onward(h, "record", t, t)
    BY <1>6, <2>3, AcquiresOn DEF Pending, Acquiring
  <2> QED BY <1>1, <1>2, <2>1, <2>2, <2>3, <2>8, <2>9, <2>12, <2>13, MainStep
<1>4. CASE broker' = RemoteRevoke(g, r) /\ Definitive(h, s, <<"acquire", r, 0>>, "failing")
  <2>1. Fewer /\ broker'[g][r].state # "live"
    BY <1>2, <1>4, BrokerRevokes
  <2>2. Fits(h, s) /\ Fits(h, Unmarked(s, <<"acquire", r, 0>>))
    BY <1>2, <2>1, SameFits, AcquisitionEnds
  <2> QED BY <1>1, <1>2, <1>4, <1>6, <2>1, <2>2, DefinitiveStep
<1>5. CASE /\ broker' \in {broker, RemoteRevoke(g, r)} /\ Strikes
           /\ Goes(h, "failing") /\ UNCHANGED <<mem, registry>>
  <2>1. Fewer
    BY <1>2, <1>5, BrokerSame, BrokerRevokes
  <2>2. Fits(h, s) /\ Writes(h, s, s)
    BY <1>2, <1>5, <2>1, SameFits, Untouched
  <2> QED BY <1>1, <1>2, <1>5, <1>6, <2>1, <2>2, StrikesCount, FreeStep
<1> QED BY <1>1, <1>3, <1>4, <1>5

\* The lease is recorded in place of its marker.
LEMMA RecordAcquireKeeps ==
  ASSUME IdentityInv, NEW h \in Holders, RecordAcquire(h)
  PROVE  IdentityInv'
<1> DEFINE r == main[h].role
           g == mem[h].gen
           s == Unmarked(mem[h], <<"acquire", r, 0>>)
           m == IF Denied(h) THEN [main[h] EXCEPT !.pc = "failing"]
                ELSE IF r < NRoles THEN [pc |-> "begin", role |-> r + 1]
                ELSE [main[h] EXCEPT !.pc = "activate"]
<1>1. /\ main[h].pc = "record" /\ UNCHANGED <<generation, act, intent, acked, ending, rv, broker, cleaned>>
      /\ \/ Save(s) /\ Sets(h, Saved(s)) /\ main' = [main EXCEPT ![h] = m]
         \/ SaveFails(s) /\ Goes(h, "failing") /\ UNCHANGED mem
  BY DEF RecordAcquire, fence
<1>2. /\ mem[h].where # "none" /\ mem[h] \in Sessions /\ g = act[h] /\ r \in Roles /\ acked \in BOOLEAN
      /\ g \in Generations /\ main[h] \in MainStates
      /\ Below(mem[h], r + 1) /\ Unasked(mem[h], r + 1)
      /\ broker[g][r].state = "live" =>
           \E v \in 1 .. MaxVersion : <<r, v>> \in mem[h].all \ mem[h].ret
  BY <1>1, ActsOnSession DEF MainFine, Acquiring, MainStates, IdentityInv, IdentityTypeOK
<1>3. Fewer /\ Fits(h, mem[h]) /\ Fits(h, s)
  BY <1>1, <1>2, BrokerSame, SameFits, AcquisitionEnds
<1>4. /\ s.all = mem[h].all /\ s.ret = mem[h].ret /\ s.gen = g /\ s \in Sessions
      /\ s.ops = mem[h].ops \ {<<"acquire", r, 0>>} /\ s.where = mem[h].where
  BY <1>2, UnmarkedFields
<1>8. \A p \in {"begin", "failing", "activate"} : Onward(h, p, s, mem[h])
  BY <1>1, <1>4, AcquiresOn DEF Pending, Acquiring
<1>5. faults' \in 0 .. MaxFaults
  BY <1>1, SaveDoes
<1>6. CASE Save(s) /\ Sets(h, Saved(s)) /\ main' = [main EXCEPT ![h] = m]
  <2>1. /\ m \in MainStates /\ m.pc \in {"failing", "begin", "activate"}
        /\ (m.pc = "begin" => m.role = r + 1)
    <3>1. r < NRoles => r + 1 \in Roles
      BY <1>2 DEF Roles
    <3> QED BY <1>2, <3>1 DEF MainStates
  <2> HIDE DEF s, m
  <2>2. Stores(s) /\ mem' = [mem EXCEPT ![h] = Saved(s)]
    BY <1>6, SaveDoes DEF Sets
  <2>3. Writes(h, s, mem[h]) /\ mem'[h] = Saved(s)
    BY <2>2 DEF Writes, IdentityInv, IdentityTypeOK
  <2>4. mem'[h].gen = g /\ Below(mem'[h], r + 1) /\ Unasked(mem'[h], r + 1)
    BY <1>2, <1>4, <2>3, SnapshotFields DEF Below, Unasked
  <2>5. MainFine(m, mem'[h], act[h], registry'[g], broker'[g])
    <3>1. CASE m.pc = "begin"
      BY <1>2, <2>1, <2>4, <3>1 DEF MainFine
    <3>2. CASE m.pc # "begin"
      BY <2>1, <3>2, MainFree
    <3> QED BY <3>1, <3>2
  <2> QED BY <1>1, <1>2, <1>3, <1>4, <1>5, <1>6, <1>8, <2>1, <2>3, <2>5, MainStep
<1>7. CASE SaveFails(s) /\ Goes(h, "failing") /\ UNCHANGED mem
  <2> HIDE DEF s, m
  <2>1. Writes(h, s, mem[h])
    BY <1>7, SaveDoes, Untouched
  <2> QED BY <1>1, <1>2, <1>3, <1>4, <1>5, <1>7, <1>8, <2>1, FreeStep
<1> QED BY <1>1, <1>6, <1>7

\* The end of an acquisition.
LEMMA ActivateKeeps ==
  ASSUME IdentityInv, NEW h \in Holders, Activate(h)
  PROVE  IdentityInv'
<1> DEFINE t == [mem[h] EXCEPT !.seen = TRUE, !.phase = "active"]
           s == [t EXCEPT !.where = "session", !.timed = TRUE]
<1>1. /\ main[h].pc = "activate" /\ UNCHANGED <<generation, act, intent, ending, rv, broker, cleaned>>
      /\ \/ Goes(h, "failing") /\ UNCHANGED <<mem, registry, faults, acked>>
         \/ Save(s) /\ Sets(h, Saved(s)) /\ Goes(h, "idle") /\ acked' = TRUE
         \/ SaveFails(s) /\ Sets(h, t) /\ Goes(h, "failing") /\ UNCHANGED acked
  BY DEF Activate
<1>2. mem[h].where # "none" /\ mem[h] \in Sessions /\ acked \in BOOLEAN
  BY <1>1, ActsOnSession DEF IdentityInv, IdentityTypeOK
<1>3. Fewer /\ Fits(h, mem[h])
  BY <1>1, <1>2, BrokerSame, SameFits
<1>4. /\ t \in Sessions /\ s \in Sessions /\ t.where = mem[h].where /\ s.where = "session"
      /\ \A x \in {s, t} :
           /\ x.gen = mem[h].gen /\ x.rev = mem[h].rev
           /\ x.cur = mem[h].cur /\ x.all = mem[h].all /\ x.ret = mem[h].ret /\ x.ops = mem[h].ops
  BY <1>2 DEF Sessions, Phases
<1> HIDE DEF s, t
<1>5. \A x \in {s, t} : Fits(h, x) /\ x.ops = mem[h].ops /\ x.all = mem[h].all /\ Marks(mem[h].ops, x.ops)
  <2>1. Kept(h, s) /\ Kept(h, t)
    BY <1>4 DEF Kept, Marks
  <2> QED BY <1>2, <1>3, <1>4, <2>1, KeptFits DEF Kept
<1>6. faults' \in 0 .. MaxFaults /\ acked' \in BOOLEAN
  BY <1>1, <1>2, SaveDoes, StrikesCount
<1>7. \A x, y : Onward(h, "failing", x, y)
  BY <1>1, AcquiresOn DEF Pending, Acquiring
<1>8. CASE Goes(h, "failing") /\ UNCHANGED <<mem, registry, faults, acked>>
  <2>1. Writes(h, mem[h], mem[h])
    BY <1>8, Untouched
  <2>2. Marks(mem[h].ops, mem[h].ops)
    BY DEF Marks
  <2> QED BY <1>1, <1>2, <1>3, <1>6, <1>7, <1>8, <2>1, <2>2, FreeStep
<1>9. CASE Save(s) /\ Sets(h, Saved(s)) /\ Goes(h, "idle")
  <2>1. Writes(h, s, s)
    BY <1>9, SaveDoes DEF Writes, Sets
  <2>2. Onward(h, "idle", s, s)
    BY <1>4, AcquisitionLeaves
  <2> QED BY <1>1, <1>2, <1>3, <1>5, <1>6, <1>9, <2>1, <2>2, FreeStep
<1>10. CASE SaveFails(s) /\ Sets(h, t) /\ Goes(h, "failing")
  <2>1. Writes(h, s, t)
    BY <1>10, SaveDoes DEF Writes, Sets
  <2> QED BY <1>1, <1>2, <1>3, <1>5, <1>6, <1>7, <1>10, <2>1, FreeStep
<1> QED BY <1>1, <1>8, <1>9, <1>10

\* The session leaves the acquisitions under way as it is.
LEMMA Leaves ==
  ASSUME IdentityInv, NEW h \in Holders, mem[h].where # "none", NEW w \in {"session", "apart"},
         Sets(h, [mem[h] EXCEPT !.where = w]), Goes(h, "idle"),
         UNCHANGED <<fence, rv, registry, broker, cleaned, faults>>
  PROVE  IdentityInv'
<1> DEFINE t == [mem[h] EXCEPT !.where = w]
<1>1. UNCHANGED <<generation, act, intent, acked, ending, rv, registry, broker, cleaned, faults>>
  BY DEF fence
<1>2. mem[h] \in Sessions /\ acked' \in BOOLEAN
  BY <1>1 DEF IdentityInv, IdentityTypeOK
<1>3. /\ t \in Sessions /\ t.gen = mem[h].gen /\ t.rev = mem[h].rev /\ t.where = w
      /\ t.cur = mem[h].cur /\ t.all = mem[h].all /\ t.ret = mem[h].ret /\ t.ops = mem[h].ops
  BY <1>2 DEF Sessions
<1>4. Writes(h, t, t)
  BY <1>1 DEF Writes, Sets
<1> HIDE DEF t
<1>5. Fewer /\ faults' \in 0 .. MaxFaults
  BY <1>1, BrokerSame, StrikesCount
<1>6. Kept(h, t) /\ Marks(mem[h].ops, t.ops)
  BY <1>3 DEF Kept, Marks
<1>7. Fits(h, t)
  BY <1>3, <1>5, <1>6, KeptFits
<1>8. Onward(h, "idle", t, t)
  BY <1>3, AcquisitionLeaves
<1> QED BY <1>1, <1>2, <1>3, <1>4, <1>5, <1>6, <1>7, <1>8, FreeStep

\* The rollback of a failed acquisition begins, or its session is forgotten.
LEMMA AcquireFailsKeeps ==
  ASSUME IdentityInv, NEW h \in Holders, AcquireFails(h)
  PROVE  IdentityInv'
<1>1. /\ main[h].pc = "failing" /\ UNCHANGED <<fence, registry, broker, cleaned, faults>>
      /\ \/ Goes(h, "rollback") /\ AsksToRevoke(h) /\ UNCHANGED mem
         \/ /\ rv[h].ask = "wait" /\ Goes(h, "idle") /\ UNCHANGED rv
            /\ Sets(h, [mem[h] EXCEPT !.where = "apart"])
         \/ /\ rv[h].ask # "wait" /\ rv[h].pc = "none" /\ ~rv[h].want /\ Goes(h, "idle") /\ UNCHANGED rv
            /\ Sets(h, NoSession)
  BY DEF AcquireFails
<1>2. UNCHANGED <<generation, act, intent, acked, ending, registry, broker, cleaned, faults>>
  BY <1>1 DEF fence
<1>3. /\ mem[h].where # "none" /\ acked \in BOOLEAN /\ intent # 0
      /\ rv[h] \in Revocations /\ RvFine(rv[h], main[h], mem[h]) /\ ending \in BOOLEAN
      /\ intent \in 0 .. MaxGeneration /\ rv \in [Holders -> Revocations]
  BY <1>1, ActsOnSession DEF IdentityInv, IdentityTypeOK
<1>4. Fewer /\ Fits(h, mem[h]) /\ faults' \in 0 .. MaxFaults
  BY <1>2, <1>3, BrokerSame, SameFits, StrikesCount
<1>5. CASE Goes(h, "rollback") /\ AsksToRevoke(h) /\ UNCHANGED mem
  <2>1. Writes(h, mem[h], mem[h]) /\ Marks(mem[h].ops, mem[h].ops)
    BY <1>2, <1>5, Untouched DEF Marks
  <2>2. Onward(h, "rollback", mem[h], mem[h])
    BY <1>1, AcquiresOn DEF Pending, Acquiring
  <2>3. rv' = [rv EXCEPT ![h].want = TRUE]
    BY <1>5 DEF AsksToRevoke
  <2> QED BY <1>2, <1>3, <1>4, <1>5, <2>1, <2>2, <2>3, FreeStep
<1>6. CASE /\ rv[h].ask = "wait" /\ Goes(h, "idle") /\ UNCHANGED rv
           /\ Sets(h, [mem[h] EXCEPT !.where = "apart"])
  BY <1>1, <1>3, <1>6, Leaves
<1>7. CASE /\ rv[h].ask # "wait" /\ rv[h].pc = "none" /\ ~rv[h].want /\ Goes(h, "idle") /\ UNCHANGED rv
           /\ Sets(h, NoSession)
  <2>1. PICK m \in MainStates : m.pc = "idle" /\ main' = [main EXCEPT ![h] = m]
    BY <1>7, GoesTo
  <2>2. rv' = [rv EXCEPT ![h] = rv[h]] /\ mem' = [mem EXCEPT ![h] = NoSession]
    BY <1>3, <1>7 DEF Sets
  <2>3. ~rv[h].cleanup /\ rv[h].ask = "no"
    BY <1>1, <1>3, <1>7 DEF RvFine, Pending, Revocations
  <2>4. NoSession.where = "none"
    BY DEF NoSession
  <2>5. m.pc \notin Acquiring
    BY <2>1 DEF Acquiring
  <2>6. PlaceFine(m, NoSession, act[h]) /\ RvFine(rv[h], m, NoSession)
    BY <1>7, <2>1, <2>3, <2>4, <2>5 DEF PlaceFine, RvFine
  <2> QED BY <1>2, <1>3, <1>4, <1>7, <2>1, <2>2, <2>3, <2>4, <2>5, <2>6, Blank, SwapStep
<1> QED BY <1>1, <1>5, <1>6, <1>7

\* The rollback is through.
LEMMA RollbackEndsKeeps ==
  ASSUME IdentityInv, NEW h \in Holders, RollbackEnds(h)
  PROVE  IdentityInv'
<1>1. mem[h].where # "none"
  BY ActsOnSession DEF RollbackEnds
<1> QED BY <1>1, Leaves DEF RollbackEnds

\* A new session covers what is live, whatever was sealed before it.
LEMMA NewFine ==
  ASSUME IdentityInv, NEW h \in Holders, act[h] \in Generations
  PROVE  /\ NewSession(h) \in Sessions /\ NewSession(h).where = "pending" /\ NewSession(h).gen = act[h]
         /\ SessionFine(NewSession(h), registry[act[h]], broker[act[h]])
         /\ Below(NewSession(h), 1) /\ Unasked(NewSession(h), 1)
<1> DEFINE x == NewSession(h)
           g == act[h]
           n == registry[g]
<1>1. g \in 0 .. MaxGeneration /\ Sealed(n, broker[g]) /\ n \in Snapshots
  BY DEF IdentityInv, IdentityTypeOK
<1>2. /\ x \in Sessions /\ x.where = "pending" /\ x.gen = g
      /\ x.all = {} /\ x.ret = {} /\ x.ops = {} /\ x.rev = 0
  <2>1. NoSession \in Sessions /\ x = [NoSession EXCEPT !.where = "pending", !.gen = g]
    BY Blank DEF NewSession
  <2>2. NoSession.all = {} /\ NoSession.ret = {} /\ NoSession.ops = {} /\ NoSession.rev = 0
    BY DEF NoSession
  <2> HIDE DEF x, g
  <2> QED BY <1>1, <2>1, <2>2 DEF Sessions
<1>3. n.rev \in Nat
  BY <1>1 DEF Snapshots
<1> HIDE DEF x, n
<1>4. Newest(x) /\ Below(x, 1) /\ Unasked(x, 1)
  BY <1>2 DEF Newest, Below, Unasked
<1>5. 0 = n.rev => x.ops = n.ops /\ Covered(x, broker[g])
  <2>1. n.rev = 0 => n.ops = {} /\ n.all = {} /\ Covered(n, broker[g])
    BY <1>1 DEF Sealed
  <2> QED BY <1>2, <2>1 DEF Covered
<1>6. SessionFine(x, n, broker[g])
  BY <1>2, <1>3, <1>4, <1>5 DEF SessionFine
<1> QED BY <1>2, <1>4, <1>6 DEF x, n

\* An acquisition begins: everything before its generation is closed.
LEMMA StartStep ==
  ASSUME IdentityInv, NEW h \in Holders, act[h] \in Generations, IsCurrent(act[h]),
         UNCHANGED <<generation, act, acked, ending, rv, registry, broker, cleaned, faults>>,
         intent' \in 0 .. MaxGeneration, intent' # 0, StartsAcquisition(h),
         rv[h].pc = "none", ~rv[h].want, rv[h].ask = "no", ~rv[h].cleanup,
         ~ending \/ main[h].pc = "replace",
         \A j \in Generations : j < act[h] => Closed(j)
  PROVE  IdentityInv'
<1> DEFINE x == NewSession(h)
           m == [pc |-> "persist", role |-> 1]
<1>1. /\ x \in Sessions /\ x.where = "pending" /\ x.gen = act[h]
      /\ SessionFine(x, registry[x.gen], broker[x.gen]) /\ Below(x, 1) /\ Unasked(x, 1)
  BY NewFine
<1>2. m \in MainStates /\ m.pc = "persist" /\ m.role = 1
      /\ m.pc \in Acquiring /\ m.pc \in Pending
  BY DEF MainStates, Acquiring, Pending, Roles
<1>3. mem' = [mem EXCEPT ![h] = x] /\ main' = [main EXCEPT ![h] = m]
  BY DEF StartsAcquisition, Sets
<1>4. /\ rv' = [rv EXCEPT ![h] = rv[h]] /\ rv[h] \in Revocations
      /\ ending' \in BOOLEAN /\ acked' \in BOOLEAN /\ faults' \in 0 .. MaxFaults
      /\ act[h] <= generation
  BY DEF IdentityInv, IdentityTypeOK, Owners
<1> HIDE DEF x, m
<1>5. RvFine(rv[h], m, x) /\ PlaceFine(m, x, act[h])
  BY <1>1, <1>2 DEF RvFine, PlaceFine
<1>6. MainFine(m, x, act[h], registry[x.gen], broker[x.gen])
  BY <1>1, <1>2 DEF MainFine
<1>7. act[h] # 0 /\ x.gen <= generation /\ \A j \in Generations : j < x.gen => Closed(j)
  BY <1>1, <1>4 DEF Generations
<1> QED BY <1>1, <1>2, <1>3, <1>4, <1>5, <1>6, <1>7, SwapStep

\* acquireRequiredRoles under a new intent: nothing has been sealed before it.
LEMMA AcquireFreshKeeps ==
  ASSUME IdentityInv, NEW h \in Holders, AcquireFresh(h)
  PROVE  IdentityInv'
<1>1. /\ main[h].pc = "idle" /\ mem[h].where = "none" /\ act[h] > 0 /\ IsCurrent(act[h])
      /\ intent = 0 /\ ~ending /\ intent' = act[h] /\ StartsAcquisition(h)
      /\ UNCHANGED <<generation, act, acked, ending, rv, registry, broker, cleaned, faults>>
  BY DEF AcquireFresh
<1>2. act[h] \in 0 .. MaxGeneration /\ act[h] \in Generations /\ act[h] # 0
  BY <1>1 DEF IdentityInv, IdentityTypeOK, Generations
<1>3. rv[h].pc = "none" /\ ~rv[h].want /\ rv[h].ask = "no" /\ ~rv[h].cleanup
  BY <1>1 DEF IdentityInv, HostFine, RvFine
<1>5. ASSUME NEW j \in Generations PROVE Closed(j)
  <2>1. registry[j].rev = 0
    BY <1>1 DEF IdentityInv, Fresh
  <2>2. j \notin Unretired
    BY <2>1 DEF Unretired, Lineage
  <2> QED BY <2>2, RetiredIsClosed
<1> QED BY <1>1, <1>2, <1>3, <1>5, StartStep

\* What a host that recovers has found.
LEMMA RecoverFinds ==
  ASSUME IdentityInv, NEW h \in Holders, CanRecover(h)
  PROVE  /\ main[h].pc = "idle" /\ mem[h].where = "none" /\ rv[h].pc = "none" /\ ~rv[h].want
         /\ rv[h].ask = "no" /\ ~rv[h].cleanup /\ act[h] \in Generations /\ ~ending
         /\ intent # 0 /\ Selected(h) \in Lineage /\ intent \in 0 .. MaxGeneration
         /\ \A j \in Generations : j # Selected(h) => Closed(j)
         /\ registry[Selected(h)].phase = "retired" => \A j \in Generations : Closed(j)
<1>1. /\ main[h].pc = "idle" /\ mem[h].where = "none" /\ rv[h].pc = "none"
      /\ act[h] > 0 /\ ~ending
      /\ intent > 0 /\ Selected(h) \in Lineage /\ Unretired \subseteq {Selected(h)}
  BY DEF CanRecover
<1>2. act[h] \in 0 .. MaxGeneration /\ intent \in 0 .. MaxGeneration /\ HostFine(h)
  BY DEF IdentityInv, IdentityTypeOK
<1>3. act[h] \in Generations /\ intent # 0
  BY <1>1, <1>2 DEF Generations
<1>4. ~rv[h].want /\ rv[h].ask = "no" /\ ~rv[h].cleanup
  BY <1>1, <1>2 DEF HostFine, RvFine
<1>6. \A j \in Generations : j # Selected(h) => Closed(j)
  BY <1>1, RetiredIsClosed
<1>7. registry[Selected(h)].phase = "retired" => \A j \in Generations : Closed(j)
  BY <1>1, RetiredIsClosed DEF Unretired
<1> QED BY <1>1, <1>2, <1>3, <1>4, <1>6, <1>7

\* A host takes a restored session up.
LEMMA TakesUp ==
  ASSUME IdentityInv, NEW h \in Holders, CanRecover(h),
         UNCHANGED <<fence, registry, broker, cleaned, faults>>,
         NEW x \in {Restored(Selected(h)), [Restored(Selected(h)) EXCEPT !.denied = TRUE],
                 [Restored(Selected(h)) EXCEPT !.denied = TRUE, !.st = "failed"]},
         Sets(h, x), rv' = rv \/ AsksToRevoke(h),
         NEW m \in MainStates, main' = [main EXCEPT ![h] = m],
         \/ m.pc \in {"idle", "reactivate"}
         \/ m.pc = "replace" /\ x.phase # "retired"
         \/ m.pc = "renewBegin" /\ Renewable(x)
  PROVE  IdentityInv'
<1> DEFINE g == Selected(h)
<1>1. /\ main[h].pc = "idle" /\ mem[h].where = "none" /\ rv[h].pc = "none" /\ ~rv[h].want
      /\ rv[h].ask = "no" /\ ~rv[h].cleanup /\ act[h] \in Generations /\ ~ending /\ intent # 0
      /\ g \in Lineage
      /\ intent \in 0 .. MaxGeneration /\ \A j \in Generations : j # g => Closed(j)
  BY RecoverFinds
<1>2. /\ Restored(g) \in Sessions /\ Restored(g).gen = g /\ g \in Generations
      /\ Restored(g).where = "session" /\ Restored(g).phase = registry[g].phase
      /\ Restored(g).st = "retired" => registry[g].phase = "retired"
      /\ SessionFine(Restored(g), registry[g], broker[g])
  BY <1>1, RestoredFine
<1>3. /\ x \in Sessions /\ x.gen = g /\ x.where = "session" /\ SessionFine(x, registry[g], broker[g])
      /\ x.st = "retired" => x.phase = "retired"
  <2> DEFINE y == Restored(g)
  <2>1. x \in {y, [y EXCEPT !.denied = TRUE], [y EXCEPT !.denied = TRUE, !.st = "failed"]}
    OBVIOUS
  <2> HIDE DEF g, y
  <2>2. /\ x \in Sessions /\ x.gen = y.gen /\ x.where = y.where /\ x.phase = y.phase /\ x.ops = y.ops
        /\ x.all = y.all /\ x.ret = y.ret /\ x.cur = y.cur /\ x.rev = y.rev
        /\ x.st \in {y.st, "failed"}
    BY <1>2, <2>1 DEF Sessions, y
  <2> QED BY <1>2, <2>2 DEF y, SessionFine, Covered, Newest
<1>4. rv \in [Holders -> Revocations] /\ rv[h] \in Revocations
  BY DEF IdentityInv, IdentityTypeOK
<1>5. PICK v \in Revocations : rv' = [rv EXCEPT ![h] = v] /\ v.pc = "none" /\ v.ask = "no" /\ ~v.cleanup
  <2>1. CASE rv' = rv
    BY <1>1, <1>4, <2>1
  <2>2. CASE AsksToRevoke(h)
    <3> DEFINE w == [rv[h] EXCEPT !.want = TRUE]
    <3>1. rv' = [rv EXCEPT ![h] = w]
      BY <2>2 DEF AsksToRevoke
    <3>2. w \in Revocations /\ w.pc = "none" /\ w.ask = "no" /\ ~w.cleanup
      BY <1>1, <1>4 DEF Revocations
    <3> HIDE DEF w
    <3> QED BY <3>1, <3>2
  <2> QED BY <2>1, <2>2
<1> HIDE DEF g
<1>6. RvFine(v, m, x) /\ PlaceFine(m, x, act[h])
  BY <1>1, <1>3, <1>5 DEF RvFine, PlaceFine, Acquiring, Generations
<1>7. MainFine(m, x, act[h], registry[g], broker[g])
  <2>1. CASE m.pc = "renewBegin"
    BY <2>1 DEF MainFine, Acquiring, Renewable
  <2>2. CASE m.pc # "renewBegin"
    BY <2>2, MainFree
  <2> QED BY <2>1, <2>2
<1>8. m.pc \notin Acquiring /\ m.pc # "acquiring"
  BY DEF Acquiring
<1>9. m.pc = "replace" => x.st # "retired"
  BY <1>3
<1>10. /\ UNCHANGED <<generation, act, registry, broker>>
       /\ ending' \in BOOLEAN /\ ending' = ending /\ acked' \in BOOLEAN /\ faults' \in 0 .. MaxFaults
       /\ intent' \in 0 .. MaxGeneration /\ intent' # 0 /\ cleaned' = cleaned
  BY <1>1 DEF fence, IdentityInv, IdentityTypeOK, Generations
<1>11. mem' = [mem EXCEPT ![h] = x]
  BY DEF Sets
<1>12. /\ x.where # "none" /\ SessionFine(x, registry[x.gen], broker[x.gen])
       /\ MainFine(m, x, act[h], registry[x.gen], broker[x.gen])
       /\ \A j \in Generations : j # x.gen => Closed(j)
  BY <1>1, <1>3, <1>7
<1> QED BY <1>1, <1>3, <1>5, <1>6, <1>8, <1>9, <1>10, <1>11, <1>12, SwapStep

\* The earlier generation is taken up to be retired, or the new one begins.
LEMMA RecoverPriorKeeps ==
  ASSUME IdentityInv, NEW h \in Holders, RecoverPrior(h)
  PROVE  IdentityInv'
<1> DEFINE s == Restored(Selected(h))
<1>1. /\ CanRecover(h) /\ UNCHANGED <<fence, registry, broker, cleaned, faults>>
      /\ \/ Sets(h, [s EXCEPT !.denied = TRUE, !.st = "failed"]) /\ UNCHANGED <<main, rv>>
         \/ Sets(h, s) /\ UNCHANGED <<main, rv>>
         \/ s.phase # "retired" /\ Sets(h, s) /\ Goes(h, "replace") /\ AsksToRevoke(h)
         \/ IsCurrent(act[h]) /\ s.phase = "retired" /\ StartsAcquisition(h) /\ UNCHANGED rv
  BY DEF RecoverPrior
<1>2. /\ main[h].pc = "idle" /\ main[h] \in MainStates /\ main = [main EXCEPT ![h] = main[h]]
  BY <1>1, RecoverFinds DEF IdentityInv, IdentityTypeOK
<1>3. CASE /\ Sets(h, s) \/ Sets(h, [s EXCEPT !.denied = TRUE, !.st = "failed"])
           /\ UNCHANGED <<main, rv>>
  BY <1>1, <1>2, <1>3, TakesUp
<1>4. CASE s.phase # "retired" /\ Sets(h, s) /\ Goes(h, "replace") /\ AsksToRevoke(h)
  <2>1. PICK m \in MainStates : m.pc = "replace" /\ main' = [main EXCEPT ![h] = m]
    BY <1>4, GoesTo
  <2> QED BY <1>1, <1>4, <2>1, TakesUp
<1>5. CASE IsCurrent(act[h]) /\ s.phase = "retired" /\ StartsAcquisition(h) /\ UNCHANGED rv
  <2>1. s.phase = registry[Selected(h)].phase
    BY <1>1, RecoverFinds, RestoredFine
  <2>2. \A j \in Generations : Closed(j)
    BY <1>1, <1>5, <2>1, RecoverFinds
  <2> QED BY <1>1, <1>5, <2>2, RecoverFinds, StartStep DEF fence
<1> QED BY <1>1, <1>3, <1>4, <1>5

\* The end of a replacement.
LEMMA ReplaceKeeps ==
  ASSUME IdentityInv, NEW h \in Holders, Replace(h)
  PROVE  IdentityInv'
<1>1. /\ main[h].pc = "replace" /\ rv[h].pc = "none" /\ ~rv[h].want
      /\ \/ mem[h].st = "retired" /\ IsCurrent(act[h]) /\ StartsAcquisition(h)
         \/ Goes(h, "idle") /\ UNCHANGED mem
      /\ UNCHANGED <<generation, act, intent, acked, ending, rv, registry, broker, cleaned, faults>>
  BY DEF Replace, fence
<1>2. /\ mem[h].where # "none" /\ act[h] \in Generations /\ intent # 0
      /\ intent \in 0 .. MaxGeneration /\ acked \in BOOLEAN /\ rv[h].ask = "no" /\ ~rv[h].cleanup
  <2>1. act[h] \in 0 .. MaxGeneration /\ act[h] # 0
    BY <1>1, ActsOnSession DEF IdentityInv, IdentityTypeOK, PlaceFine
  <2>2. act[h] \in Generations
    BY <2>1 DEF Generations
  <2> QED BY <1>1, <2>2, ActsOnSession DEF IdentityInv, IdentityTypeOK, RvFine
<1>3. CASE mem[h].st = "retired" /\ IsCurrent(act[h]) /\ StartsAcquisition(h)
  <2>1. \A j \in Generations : j < act[h] => Closed(j)
    BY <1>1, <1>3 DEF IdentityInv, Replacing
  <2> QED BY <1>1, <1>2, <1>3, <2>1, StartStep
<1>4. CASE Goes(h, "idle") /\ UNCHANGED mem
  <2>1. Fewer /\ Fits(h, mem[h]) /\ Writes(h, mem[h], mem[h]) /\ faults' \in 0 .. MaxFaults
    BY <1>1, <1>2, <1>4, BrokerSame, SameFits, Untouched, StrikesCount
  <2>2. Marks(mem[h].ops, mem[h].ops)
    BY DEF Marks
  <2>3. Onward(h, "idle", mem[h], mem[h])
    BY <1>1, OtherwiseOn DEF Pending, Acquiring
  <2> QED BY <1>1, <1>2, <1>4, <2>1, <2>2, <2>3, FreeStep
<1> QED BY <1>1, <1>3, <1>4

\* A session of the host's own generation is taken up.
LEMMA RecoverCurrentKeeps ==
  ASSUME IdentityInv, NEW h \in Holders, RecoverCurrent(h)
  PROVE  IdentityInv'
<1> DEFINE s == Restored(Selected(h))
<1>1. /\ CanRecover(h) /\ UNCHANGED <<fence, registry, broker, cleaned, faults>>
      /\ \/ Sets(h, [s EXCEPT !.denied = TRUE, !.st = "failed"]) /\ UNCHANGED <<main, rv>>
         \/ Sets(h, [s EXCEPT !.denied = TRUE]) /\ AsksToRevoke(h) /\ UNCHANGED main
         \/ /\ Renewable(s) /\ Sets(h, s) /\ UNCHANGED rv
            /\ main' = [main EXCEPT ![h] = [pc |-> "renewBegin", role |-> 1]]
         \/ Sets(h, s) /\ Goes(h, "reactivate") /\ UNCHANGED rv
         \/ Sets(h, s) /\ UNCHANGED <<main, rv>>
  BY DEF RecoverCurrent
<1>2. /\ main[h].pc = "idle" /\ main[h] \in MainStates /\ main = [main EXCEPT ![h] = main[h]]
  BY <1>1, RecoverFinds DEF IdentityInv, IdentityTypeOK
<1>3. CASE /\ Sets(h, s) \/ Sets(h, [s EXCEPT !.denied = TRUE, !.st = "failed"])
           /\ UNCHANGED <<main, rv>>
  BY <1>1, <1>2, <1>3, TakesUp
<1>4. CASE Sets(h, [s EXCEPT !.denied = TRUE]) /\ AsksToRevoke(h) /\ UNCHANGED main
  BY <1>1, <1>2, <1>4, TakesUp
<1>5. CASE /\ Renewable(s) /\ Sets(h, s) /\ UNCHANGED rv
           /\ main' = [main EXCEPT ![h] = [pc |-> "renewBegin", role |-> 1]]
  <2>1. [pc |-> "renewBegin", role |-> 1] \in MainStates
    BY DEF MainStates, Renewing, Roles
  <2> QED BY <1>1, <1>5, <2>1, TakesUp
<1>6. CASE Sets(h, s) /\ Goes(h, "reactivate") /\ UNCHANGED rv
  <2>1. PICK m \in MainStates : m.pc = "reactivate" /\ main' = [main EXCEPT ![h] = m]
    BY <1>6, GoesTo
  <2> QED BY <1>1, <1>6, <2>1, TakesUp
<1> QED BY <1>1, <1>3, <1>4, <1>5, <1>6

\* A complete set is activated.
LEMMA ReactivateKeeps ==
  ASSUME IdentityInv, NEW h \in Holders, Reactivate(h)
  PROVE  IdentityInv'
<1> DEFINE t == [mem[h] EXCEPT !.seen = TRUE, !.phase = "active"]
           s == [t EXCEPT !.st = "active", !.denied = FALSE, !.timed = TRUE]
<1>1. /\ main[h].pc = "reactivate" /\ Goes(h, "idle")
      /\ UNCHANGED <<generation, act, intent, ending, rv, broker, cleaned>>
      /\ \/ Save(s) /\ Sets(h, Saved(s)) /\ acked' = TRUE
         \/ SaveFails(s) /\ Sets(h, t) /\ UNCHANGED acked
  BY DEF Reactivate
<1>2. mem[h].where # "none" /\ mem[h] \in Sessions /\ acked \in BOOLEAN
  BY <1>1, ActsOnSession DEF IdentityInv, IdentityTypeOK
<1>3. Fewer
  BY <1>1, BrokerSame
<1>4. /\ t \in Sessions /\ s \in Sessions
      /\ \A x \in {s, t} :
           /\ x.gen = mem[h].gen /\ x.rev = mem[h].rev /\ x.where = mem[h].where
           /\ x.cur = mem[h].cur /\ x.all = mem[h].all /\ x.ret = mem[h].ret /\ x.ops = mem[h].ops
  BY <1>2 DEF Sessions, Phases
<1> HIDE DEF s, t
<1>5. \A x \in {s, t} : Fits(h, x) /\ x.ops = mem[h].ops /\ x.all = mem[h].all /\ Marks(mem[h].ops, x.ops)
  <2>1. Kept(h, s) /\ Kept(h, t)
    BY <1>4 DEF Kept, Marks
  <2> QED BY <1>2, <1>3, <1>4, <2>1, KeptFits DEF Kept
<1>6. faults' \in 0 .. MaxFaults /\ acked' \in BOOLEAN
  BY <1>1, <1>2, SaveDoes
<1>7. Writes(h, s, s) \/ Writes(h, s, t)
  BY <1>1, SaveDoes DEF Writes, Sets
<1>8. \A x, y : Onward(h, "idle", x, y)
  BY <1>1, OtherwiseOn DEF Pending, Acquiring
<1> QED BY <1>1, <1>2, <1>3, <1>5, <1>6, <1>7, <1>8, FreeStep

-----------------------------------------------------------------------------
(* Claims, expiries, and the end of a process. *)

\* The places of a host.
LEMMA OtherHolder ==
  ASSUME NEW h \in Holders
  PROVE  Other(h) \in Holders /\ Other(h) # h
BY DEF Other, Holders

\* The values without a session are as they should be.
LEMMA BlankFine ==
  ASSUME NEW m, NEW a
  PROVE  /\ NoSession.where = "none" /\ Resting.pc = "idle" /\ NoRevocation.pc = "none"
         /\ ~NoRevocation.want /\ NoRevocation.ask = "no" /\ ~NoRevocation.cleanup
         /\ PlaceFine(Resting, NoSession, a) /\ RvFine(NoRevocation, m, NoSession)
BY DEF NoSession, Resting, NoRevocation, PlaceFine, RvFine, Acquiring

\* The process ends: its sessions are gone.
LEMMA ProcessEndsKeeps ==
  ASSUME IdentityInv, NEW h \in Holders, ProcessEnds(h)
  PROVE  IdentityInv'
<1>1. /\ faults' \in 0 .. MaxFaults /\ \E k \in {h, Other(h)} : mem[k].where # "none"
      /\ mem' = [mem EXCEPT ![h] = NoSession, ![Other(h)] = NoSession]
      /\ main' = [main EXCEPT ![h] = Resting, ![Other(h)] = Resting]
      /\ rv' = [rv EXCEPT ![h] = NoRevocation, ![Other(h)] = NoRevocation]
      /\ UNCHANGED <<generation, act, intent, acked, ending, registry, broker, cleaned>>
  BY StrikesCount DEF ProcessEnds, fence, Strikes
<1>2. /\ mem \in [Holders -> Sessions] /\ main \in [Holders -> MainStates]
      /\ rv \in [Holders -> Revocations] /\ Other(h) \in Holders
  BY OtherHolder DEF IdentityInv, IdentityTypeOK
<1>3. /\ \A k \in {h, Other(h)} : mem'[k] = NoSession /\ main'[k] = Resting /\ rv'[k] = NoRevocation
      /\ \A k \in Holders \ {h, Other(h)} : mem'[k] = mem[k] /\ main'[k] = main[k] /\ rv'[k] = rv[k]
  BY <1>1, <1>2
<1>4. intent' # 0
  BY <1>1, <1>2, IntentFirst
<1>5. IdentityTypeOK' /\ Owners'
  BY <1>1, <1>2, Blank DEF IdentityInv, IdentityTypeOK, Owners
<1>6. ASSUME NEW k \in Holders PROVE HostFine(k)'
  <2>1. CASE k \in {h, Other(h)}
    BY <1>3, <2>1, BlankFine DEF HostFine
  <2>2. CASE k \notin {h, Other(h)}
    BY <1>1, <1>3, <2>2 DEF HostFine, IdentityInv
  <2> QED BY <2>1, <2>2
<1>7. ASSUME NEW k \in Holders,
             \/ mem'[k].where = "pending" \/ main'[k].pc \in Acquiring \cup {"replace"}
             \/ rv'[k].ask = "wait" \/ Due(k)'
      PROVE  mem'[k] = mem[k] /\ main'[k] = main[k] /\ rv'[k] = rv[k] /\ act'[k] = act[k]
  <2>1. k \notin {h, Other(h)}
    BY <1>3, <1>7, BlankFine DEF Due, Acquiring
  <2> QED BY <1>1, <1>3, <2>1
<1>8. \A k \in Holders : Due(k)' => Due(k) /\ mem'[k].gen = mem[k].gen
  BY <1>7 DEF Due
<1> QED BY <1>1, <1>4, <1>5, <1>6, <1>7, <1>8, SettleStep

\* A claim: the host that claims has nothing under way.
LEMMA ClaimKeeps ==
  ASSUME IdentityInv, NEW h \in Holders, Claim(h)
  PROVE  IdentityInv'
<1>1. /\ generation < MaxGeneration /\ cleaned = {}
      /\ main[h].pc \in {"idle"} \cup Renewing
      /\ generation' = generation + 1 /\ act' = [act EXCEPT ![h] = generation + 1]
      /\ UNCHANGED <<intent, acked, ending, mem, main, rv, registry, broker, cleaned, faults>>
  BY DEF Claim
<1>14. main[h].pc \notin Acquiring \cup Pending \cup {"replace"}
  BY <1>1 DEF Renewing, Acquiring, Pending
<1>2. /\ act \in [Holders -> 0 .. MaxGeneration] /\ generation \in 0 .. MaxGeneration
      /\ IdentityTypeOK /\ Owners /\ Exclusive /\ Replacing /\ Cleaning /\ Fresh
  BY DEF IdentityInv, IdentityTypeOK
<1>3. /\ act'[h] = generation + 1 /\ \A k \in Holders \ {h} : act'[k] = act[k]
      /\ act' \in [Holders -> 0 .. MaxGeneration] /\ generation' \in 0 .. MaxGeneration
  BY <1>1, <1>2
<1>4. \A k \in Holders \ {h} : act'[k] < generation + 1
  BY <1>2, <1>3 DEF Owners
<1>5. Owners'
  <2>1. \A k \in Holders : act'[k] <= generation'
    BY <1>1, <1>2, <1>3, <1>4
  <2>2. ASSUME NEW i \in Holders, NEW k \in Holders, act'[i] = act'[k], act'[i] # 0 PROVE i = k
    BY <1>2, <1>3, <1>4, <2>2 DEF Owners
  <2> QED BY <2>1, <2>2 DEF Owners
<1>6. ASSUME NEW k \in Holders PROVE HostFine(k)'
  <2>1. HostFine(k)
    BY DEF IdentityInv
  <2>2. CASE k = h
    <3>1. \A n, row : MainFine(main[h], mem[h], act[h], n, row) => MainFine(main[h], mem[h], act'[h], n, row)
      BY <1>14 DEF MainFine
    <3>2. PlaceFine(main[h], mem[h], act'[h])
      BY <1>14, <2>1, <2>2 DEF PlaceFine, HostFine
    <3>3. mem[h].where # "none" =>
            MainFine(main[h], mem[h], act'[h], registry[mem[h].gen], broker[mem[h].gen])
      BY <2>1, <2>2, <3>1 DEF HostFine
    <3> QED BY <1>1, <2>1, <2>2, <3>2, <3>3 DEF HostFine
  <2>3. CASE k # h
    BY <1>1, <1>3, <2>1, <2>3 DEF HostFine
  <2> QED BY <2>2, <2>3
<1>7. \A j \in Generations : (Closed(j) <=> Closed(j)') /\ (Begun(j) <=> Begun(j)')
  BY <1>1 DEF Closed, Begun, Live
<1>8. Exclusive'
  <2>1. \A j \in Generations : j <= generation => j <= generation'
    BY <1>1, <1>2 DEF Generations
  <2> QED BY <1>2, <1>7, <2>1 DEF Exclusive
<1>9. Replacing'
  BY <1>1, <1>2, <1>3, <1>7, <1>14 DEF Replacing
<1>10. ASSUME NEW X PROVE Still(X) => Still(X)'
  BY <1>1, <1>3, <1>4, <1>14 DEF Still
<1>11. Cleaning' /\ Fresh'
  BY <1>1, <1>2, <1>7, <1>10 DEF Cleaning, ClosedBut, Due, Fresh
<1>12. IdentityTypeOK'
  BY <1>1, <1>2, <1>3 DEF IdentityTypeOK
<1>13. \A g \in Generations : Sealed(registry'[g], broker'[g])
  BY <1>1 DEF IdentityInv
<1> QED BY <1>5, <1>6, <1>8, <1>9, <1>11, <1>12, <1>13 DEF IdentityInv

\* A lease runs out.
LEMMA ExpiresKeeps ==
  ASSUME IdentityInv, NEW g \in Generations, NEW r \in Roles, Expires(g, r)
  PROVE  IdentityInv'
<1>1. /\ UNCHANGED <<generation, act, intent, acked, ending, mem, main, rv, registry, cleaned>>
      /\ Fewer /\ faults' \in 0 .. MaxFaults
  BY BrokerRevokes, StrikesCount DEF Expires, fence
<1>2. /\ registry' \in [Generations -> Snapshots]
      /\ \A j \in Generations : Sealed(registry'[j], broker'[j])
  BY <1>1, UnstoredFine
<1>3. ASSUME NEW k \in Holders PROVE HostFine(k)'
  <2>1. HostFine(k) /\ main[k] \in MainStates
    BY DEF IdentityInv, IdentityTypeOK
  <2>2. ASSUME mem[k].where # "none"
        PROVE  /\ SessionFine(mem[k], registry[mem[k].gen], broker'[mem[k].gen])
               /\ MainFine(main[k], mem[k], act[k], registry[mem[k].gen], broker'[mem[k].gen])
    <3>1. /\ SessionFine(mem[k], registry[mem[k].gen], broker[mem[k].gen]) /\ mem[k].gen \in Generations
          /\ MainFine(main[k], mem[k], act[k], registry[mem[k].gen], broker[mem[k].gen])
      BY <2>1, <2>2 DEF HostFine, SessionFine
    <3>2. \A q \in Roles : broker'[mem[k].gen][q].state = "live" => broker[mem[k].gen][q].state = "live"
      BY <1>1, <3>1 DEF Fewer, Live
    <3>3. main[k].role \in Roles
      BY <2>1 DEF MainStates
    <3>4. SessionFine(mem[k], registry[mem[k].gen], broker'[mem[k].gen])
      BY <3>1, <3>2, CoveredLess DEF SessionFine
    <3> QED BY <3>1, <3>2, <3>3, <3>4 DEF MainFine
  <2> QED BY <1>1, <2>1, <2>2 DEF HostFine
<1>4. \A j \in Generations : (Closed(j) => Closed(j)') /\ (Begun(j)' => Begun(j))
  BY <1>1 DEF Closed, Begun, Fewer
<1>5. Exclusive' /\ Replacing' /\ Cleaning' /\ Fresh' /\ Owners'
  <2>1. Exclusive /\ Replacing /\ Cleaning /\ Fresh /\ Owners
    BY DEF IdentityInv
  <2>2. ASSUME NEW X PROVE Still(X) => Still(X)'
    BY <1>1 DEF Still
  <2>3. Exclusive'
    BY <1>1, <1>4, <2>1 DEF Exclusive
  <2>4. Replacing'
    BY <1>1, <1>4, <2>1 DEF Replacing
  <2>5. Cleaning'
    BY <1>1, <1>4, <2>1, <2>2 DEF Cleaning, ClosedBut, Due
  <2> QED BY <1>1, <2>1, <2>3, <2>4, <2>5 DEF Fresh, Owners
<1>6. IdentityTypeOK'
  BY <1>1, <1>2 DEF IdentityInv, IdentityTypeOK, Fewer
<1> QED BY <1>2, <1>3, <1>5, <1>6 DEF IdentityInv

-----------------------------------------------------------------------------
(* Denial. *)

\* The session of a host, denied or failed.
LEMMA DeniedFits ==
  ASSUME IdentityInv, NEW h \in Holders, mem[h].where # "none", Fewer, registry' = registry,
         NEW t \in {mem[h], [mem[h] EXCEPT !.denied = TRUE],
                    [mem[h] EXCEPT !.denied = TRUE, !.st = "failed"]},
         mem' = [mem EXCEPT ![h] = t]
  PROVE  /\ Fits(h, t) /\ Kept(h, t) /\ t.ops = mem[h].ops /\ t.st \in {mem[h].st, "failed"}
         /\ t.all = mem[h].all /\ t.where = mem[h].where /\ Writes(h, t, t) /\ mem'[h] = t
<1>1. mem[h] \in Sessions /\ mem \in [Holders -> Sessions]
  BY DEF IdentityInv, IdentityTypeOK
<1>2. /\ t \in Sessions /\ t.gen = mem[h].gen /\ t.rev = mem[h].rev /\ t.where = mem[h].where
      /\ t.cur = mem[h].cur /\ t.all = mem[h].all /\ t.ret = mem[h].ret /\ t.ops = mem[h].ops
      /\ t.st \in {mem[h].st, "failed"}
  BY <1>1 DEF Sessions
<1>3. mem'[h] = t
  BY <1>1
<1>4. Kept(h, t)
  BY <1>2 DEF Kept, Marks
<1>5. Fits(h, t) /\ Writes(h, t, t)
  BY <1>2, <1>4, KeptFits DEF Writes
<1> QED BY <1>2, <1>3, <1>4, <1>5

\* The revocation that a host is asked for.
LEMMA AskFields ==
  ASSUME IdentityInv, NEW h \in Holders, AsksToRevoke(h)
  PROVE  \E v \in Revocations :
           /\ rv' = [rv EXCEPT ![h] = v] /\ v.cleanup = rv[h].cleanup /\ v.ask = rv[h].ask
           /\ RvFine(v, main[h], mem[h])
<1> DEFINE v == [rv[h] EXCEPT !.want = TRUE]
<1>1. rv[h] \in Revocations /\ RvFine(rv[h], main[h], mem[h])
  BY DEF IdentityInv, IdentityTypeOK, HostFine
<1>2. /\ v \in Revocations /\ v.cleanup = rv[h].cleanup /\ v.ask = rv[h].ask /\ v.pc = rv[h].pc
      /\ v.todo = rv[h].todo /\ v.lease = rv[h].lease
  BY <1>1 DEF Revocations
<1>3. rv' = [rv EXCEPT ![h] = v]
  BY DEF AsksToRevoke
<1> HIDE DEF v
<1>4. RvFine(v, main[h], mem[h])
  BY <1>1, <1>2 DEF RvFine
<1> QED BY <1>2, <1>3, <1>4

\* A session is denied, or a cleanup asks for it, while main does whatever it does.
LEMMA DenyStep ==
  ASSUME IdentityInv, NEW h \in Holders, mem[h].where # "none",
         UNCHANGED <<generation, act, intent, acked, main, registry, broker, cleaned>>,
         ending' \in BOOLEAN, ending => ending', faults' \in 0 .. MaxFaults,
         NEW t \in {mem[h], [mem[h] EXCEPT !.denied = TRUE],
                    [mem[h] EXCEPT !.denied = TRUE, !.st = "failed"]},
         mem' = [mem EXCEPT ![h] = t],
         NEW v \in Revocations, rv' = [rv EXCEPT ![h] = v], RvFine(v, main[h], mem[h]),
         v.ask = "wait" => rv[h].ask = "wait" \/ (Still({h})' /\ ClosedBut(mem[h].gen)),
         v.ask = "due" \/ v.cleanup => Due(h) \/ (Still({})' /\ ClosedBut(mem[h].gen))
  PROVE  IdentityInv'
<1>1. Fewer
  BY BrokerSame
<1>2. /\ Fits(h, t) /\ Kept(h, t) /\ t.ops = mem[h].ops /\ t.st \in {mem[h].st, "failed"}
      /\ t.where = mem[h].where /\ Writes(h, t, t) /\ mem'[h] = t
  BY <1>1, DeniedFits
<1>3. cleaned' \subseteq 0 .. MaxGeneration
  BY DEF IdentityInv, IdentityTypeOK
<1>4. /\ mem'[h].st = "retired" => mem[h].st = "retired" \/ Closed(mem[h].gen)
      /\ cleaned' # {} => cleaned # {} \/ (Due(h) /\ Closed(mem[h].gen))
  BY <1>2
<1> QED BY <1>1, <1>2, <1>3, <1>4, RvStep

\* The authority is found gone, or the run is aborted.
LEMMA LosesKeeps ==
  ASSUME IdentityInv, NEW h \in Holders, TickLoses(h) \/ Abort(h)
  PROVE  IdentityInv'
<1> DEFINE t == [mem[h] EXCEPT !.denied = TRUE]
<1>1. mem[h].where # "none"
  BY DEF TickLoses, Abort, Usable
<1>2. /\ UNCHANGED <<generation, act, intent, acked, ending, main, registry, broker, cleaned>>
      /\ mem' = [mem EXCEPT ![h] = t] /\ AsksToRevoke(h) /\ faults' \in 0 .. MaxFaults
  BY StrikesCount DEF TickLoses, Abort, Loses, fence
<1>3. ending' \in BOOLEAN
  BY <1>2 DEF IdentityInv, IdentityTypeOK
<1>4. PICK v \in Revocations :
        /\ rv' = [rv EXCEPT ![h] = v] /\ v.cleanup = rv[h].cleanup /\ v.ask = rv[h].ask
        /\ RvFine(v, main[h], mem[h])
  BY <1>2, AskFields
<1>5. t \in {mem[h], t, [mem[h] EXCEPT !.denied = TRUE, !.st = "failed"]}
  OBVIOUS
<1> QED BY <1>1, <1>2, <1>3, <1>4, <1>5, DenyStep DEF Due

-----------------------------------------------------------------------------
(* Renewal. *)

\* The timer starts a renewal, within the bound on versions.
LEMMA TickRenewsKeeps ==
  ASSUME IdentityInv, NEW h \in Holders, TickRenews(h)
  PROVE  IdentityInv'
<1> DEFINE m == [pc |-> "renewBegin", role |-> 1]
<1>1. /\ mem[h].where # "none" /\ main[h].pc = "idle" /\ Renewable(mem[h]) /\ main' = [main EXCEPT ![h] = m]
      /\ UNCHANGED <<generation, act, intent, acked, ending, mem, rv, registry, broker, cleaned, faults>>
  BY DEF TickRenews, Usable, fence
<1>2. acked \in BOOLEAN /\ mem'[h] = mem[h]
  BY <1>1 DEF IdentityInv, IdentityTypeOK
<1>3. Fewer /\ Fits(h, mem[h]) /\ Writes(h, mem[h], mem[h]) /\ faults' \in 0 .. MaxFaults
  BY <1>1, BrokerSame, SameFits, Untouched, StrikesCount
<1>4. Marks(mem[h].ops, mem[h].ops)
  BY DEF Marks
<1>5. /\ m \in MainStates /\ m.pc = "renewBegin"
      /\ MainFine(m, mem'[h], act[h], registry'[mem[h].gen], broker'[mem[h].gen])
  BY <1>1, <1>2 DEF MainStates, Renewing, Roles, MainFine, Acquiring, Renewable
<1>6. Onward(h, "renewBegin", mem[h], mem[h])
  BY <1>1, OtherwiseOn DEF Pending, Acquiring
<1> HIDE DEF m
<1> QED BY <1>1, <1>2, <1>3, <1>4, <1>5, <1>6, MainStep

\* The catch of #tick.
LEMMA RenewFailsKeeps ==
  ASSUME IdentityInv, NEW h \in Holders, RenewFails(h)
  PROVE  IdentityInv'
<1> DEFINE t == [mem[h] EXCEPT !.denied = TRUE]
<1>1. /\ main[h].pc = "renewFailing" /\ Goes(h, "idle") /\ AsksToRevoke(h)
      /\ mem' = [mem EXCEPT ![h] = t]
      /\ UNCHANGED <<generation, act, intent, acked, ending, registry, broker, cleaned, faults>>
  BY DEF RenewFails, Loses, fence
<1>2. mem[h].where # "none" /\ acked \in BOOLEAN
  BY <1>1, ActsOnSession DEF IdentityInv, IdentityTypeOK
<1>3. Fewer /\ faults' \in 0 .. MaxFaults
  BY <1>1, BrokerSame, StrikesCount
<1>4. /\ Fits(h, t) /\ Kept(h, t) /\ t.ops = mem[h].ops /\ t.all = mem[h].all /\ Writes(h, t, t)
  BY <1>1, <1>2, <1>3, DeniedFits
<1>5. rv' = [rv EXCEPT ![h].want = TRUE] /\ Marks(mem[h].ops, t.ops)
  BY <1>1, <1>4 DEF AsksToRevoke, Kept
<1>6. Onward(h, "idle", t, t)
  BY <1>1, OtherwiseOn DEF Pending, Acquiring
<1> HIDE DEF t
<1> QED BY <1>1, <1>2, <1>3, <1>4, <1>5, <1>6, FreeStep

\* A session with a marker more, and one that holds the current lease of a role
\* for retired.
Marked(s, m) == [s EXCEPT !.ops = @ \cup {m}]
Gone(s, r) == [s EXCEPT !.ret = @ \cup {<<r, s.cur[r]>>}]

\* The marker of a renewal or a revocation is written only of a lease that is
\* recorded.
LEMMA MarkTyped ==
  ASSUME NEW x \in Sessions, NEW k \in {"renew", "revoke"}, NEW r, NEW v,
         CanSave(Marked(x, <<k, r, v>>))
  PROVE  <<r, v>> \in Leases
<1> DEFINE s == Marked(x, <<k, r, v>>)
           n == Snapshot(s)
<1>1. n.ops = x.ops \cup {<<k, r, v>>} /\ n.all = x.all
  BY DEF Snapshot, Sessions, Marked
<1>2. WellFormed(n)
  BY DEF CanSave
<1>3. x.all \subseteq Leases
  BY DEF Sessions
<1> HIDE DEF n
<1>4. \A m \in n.ops : m[1] # "acquire" => <<m[2], m[3]>> \in n.all
  BY <1>2 DEF WellFormed
<1> DEFINE m == <<k, r, v>>
<1>5. m[1] # "acquire" /\ m[2] = r /\ m[3] = v
  OBVIOUS
<1>6. m \in n.ops
  BY <1>1
<1> HIDE DEF m
<1> QED BY <1>1, <1>3, <1>4, <1>5, <1>6

\* With such a marker more a session is as good as before.
LEMMA MarkedFits ==
  ASSUME IdentityInv, NEW h \in Holders, mem[h].where # "none", Fewer,
         NEW k \in {"renew", "revoke"}, NEW r, NEW v, <<r, v>> \in Leases
  PROVE  LET s == Marked(mem[h], <<k, r, v>>)
         IN  /\ Fits(h, s) /\ Kept(h, s) /\ Marks(mem[h].ops, s.ops) /\ s \in Sessions
             /\ s.gen = mem[h].gen /\ s.cur = mem[h].cur /\ s.all = mem[h].all /\ s.ret = mem[h].ret
             /\ s.st = mem[h].st /\ s.where = mem[h].where
<1> DEFINE s == Marked(mem[h], <<k, r, v>>)
<1>1. mem[h] \in Sessions
  BY DEF IdentityInv, IdentityTypeOK
<1>2. <<k, r, v>> \in Markers
  BY DEF Markers, Leases
<1>3. /\ s \in Sessions /\ s.ops = mem[h].ops \cup {<<k, r, v>>}
      /\ s.gen = mem[h].gen /\ s.rev = mem[h].rev /\ s.where = mem[h].where
      /\ s.cur = mem[h].cur /\ s.all = mem[h].all /\ s.ret = mem[h].ret /\ s.st = mem[h].st
  BY <1>1, <1>2 DEF Sessions, Marked
<1> HIDE DEF s
<1>4. Kept(h, s) /\ Marks(mem[h].ops, s.ops)
  BY <1>3 DEF Kept, Marks
<1> QED BY <1>3, <1>4, KeptFits DEF s

\* And without it.
LEMMA UnmarkedFits ==
  ASSUME NEW h \in Holders, NEW x, Fits(h, x), NEW k \in {"renew", "revoke"}, NEW r, NEW v
  PROVE  LET u == Unmarked(x, <<k, r, v>>)
         IN  /\ Fits(h, u) /\ u.all = x.all /\ u.cur = x.cur /\ u.ret = x.ret /\ Marks(x.ops, u.ops)
             /\ u \in Sessions /\ u.st = x.st /\ u.gen = x.gen /\ u.where = x.where
             /\ Kept(h, x) => Kept(h, u)
<1> DEFINE u == Unmarked(x, <<k, r, v>>)
<1>1. /\ u \in Sessions /\ u.ops = x.ops \ {<<k, r, v>>} /\ u.gen = x.gen /\ u.rev = x.rev
      /\ u.where = x.where /\ u.cur = x.cur /\ u.all = x.all /\ u.ret = x.ret /\ u.st = x.st
  BY UnmarkedFields DEF Fits
<1> HIDE DEF u
<1>2. \A q : <<"acquire", q, 0>> \in u.ops <=> <<"acquire", q, 0>> \in x.ops
  BY <1>1
<1>3. Fits(h, u)
  <2>1. Newest(u)
    BY <1>1 DEF Fits, Newest
  <2>2. mem[h].rev = registry[mem[h].gen].rev => Covered(u, broker'[u.gen])
    BY <1>1, <1>2 DEF Fits, Covered
  <2> QED BY <1>1, <2>1, <2>2 DEF Fits
<1>4. Marks(x.ops, u.ops) /\ (Kept(h, x) => Kept(h, u))
  BY <1>1, <1>2 DEF Marks, Kept
<1> QED BY <1>1, <1>3, <1>4 DEF u

\* The marker of a renewal is written.
LEMMA BeginRenewKeeps ==
  ASSUME IdentityInv, NEW h \in Holders, BeginRenew(h)
  PROVE  IdentityInv'
<1> DEFINE r == main[h].role
           g == mem[h].gen
           c == mem[h].cur[r]
           s == Marked(mem[h], <<"renew", r, c>>)
<1>1. /\ main[h].pc = "renewBegin" /\ UNCHANGED <<generation, act, intent, acked, ending, rv, broker, cleaned>>
      /\ \/ Goes(h, "renewFailing") /\ UNCHANGED <<mem, registry, faults>>
         \/ Save(s) /\ Sets(h, Saved(s)) /\ Goes(h, "renew")
         \/ SaveFails(s) /\ Goes(h, "renewFailing") /\ UNCHANGED mem
  BY DEF BeginRenew, RenewMarker, Marked, fence
<1>2. /\ mem[h].where # "none" /\ mem[h] \in Sessions /\ r \in Roles /\ acked \in BOOLEAN
      /\ \A q \in Roles : q >= r => mem[h].cur[q] < MaxVersion
  BY <1>1, ActsOnSession DEF MainFine, MainStates, IdentityInv, IdentityTypeOK
<1>3. Fewer /\ Fits(h, mem[h]) /\ faults' \in 0 .. MaxFaults
  BY <1>1, <1>2, BrokerSame, SameFits, SaveDoes, StrikesCount
<1>7. main[h].pc \notin Pending /\ \A x, y : Onward(h, "renewFailing", x, y)
  BY <1>1, OtherwiseOn DEF Pending, Acquiring
<1>4. ASSUME Stores(s)
      PROVE  /\ c # 0 /\ Fits(h, s) /\ Marks(mem[h].ops, s.ops) /\ s \in Sessions
             /\ s.gen = g /\ s.cur = mem[h].cur /\ s.all = mem[h].all
  <2>1. <<r, c>> \in Leases
    BY <1>2, <1>4, MarkTyped DEF Stores
  <2>2. c # 0
    BY <2>1 DEF Leases
  <2> QED BY <1>2, <1>3, <2>1, <2>2, MarkedFits
<1> HIDE DEF s
<1>5. CASE Save(s) /\ Sets(h, Saved(s)) /\ Goes(h, "renew")
  <2>1. PICK m \in MainStates : m.pc = "renew" /\ m.role = r /\ main' = [main EXCEPT ![h] = m]
    BY <1>5, GoesTo
  <2>2. Stores(s) /\ mem' = [mem EXCEPT ![h] = Saved(s)]
    BY <1>5, SaveDoes DEF Sets
  <2>3. Writes(h, s, mem[h]) /\ mem'[h] = Saved(s)
    BY <2>2 DEF Writes, IdentityInv, IdentityTypeOK
  <2>4. mem'[h].cur = mem[h].cur
    BY <1>4, <2>2, <2>3, SnapshotFields
  <2>5. m.pc \notin Acquiring /\ Onward(h, m.pc, s, mem[h])
    BY <1>7, <2>1, OtherwiseOn DEF Pending, Acquiring
  <2>6. MainFine(m, mem'[h], act[h], registry'[g], broker'[g])
    BY <1>2, <1>4, <2>1, <2>2, <2>4, <2>5 DEF MainFine
  <2> QED BY <1>1, <1>2, <1>3, <1>4, <2>1, <2>2, <2>3, <2>5, <2>6, MainStep
<1>6. CASE Goes(h, "renewFailing") /\ UNCHANGED mem /\ (registry' = registry \/ SaveFails(s))
  <2>1. CASE Stores(s)
    <3>1. Writes(h, s, mem[h])
      BY <1>6, <2>1, Untouched
    <3> QED BY <1>1, <1>2, <1>3, <1>4, <1>6, <1>7, <2>1, <3>1, FreeStep
  <2>2. CASE ~Stores(s)
    <3>1. registry' = registry
      BY <1>6, <2>2, SaveDoes
    <3>2. Writes(h, mem[h], mem[h]) /\ Marks(mem[h].ops, mem[h].ops)
      BY <1>6, <3>1, Untouched DEF Marks
    <3> QED BY <1>1, <1>2, <1>3, <1>6, <1>7, <3>2, FreeStep
  <2> QED BY <2>1, <2>2
<1> QED BY <1>1, <1>5, <1>6

\* A session that holds a lease for retired which is not live.
LEMMA GoneFits ==
  ASSUME IdentityInv, NEW h \in Holders, mem[h].where # "none", Fewer, NEW r \in Roles,
         mem[h].cur[r] # 0, broker'[mem[h].gen][r].state # "live"
  PROVE  LET x == Gone(mem[h], r)
         IN  Fits(h, x) /\ x.ops = mem[h].ops /\ x.all = mem[h].all /\ x.cur = mem[h].cur
<1> DEFINE x == Gone(mem[h], r)
           g == mem[h].gen
           c == mem[h].cur[r]
<1>1. mem[h] \in Sessions /\ SessionFine(mem[h], registry[g], broker[g]) /\ g \in Generations
  BY ActsOnSession
<1>2. <<r, c>> \in Leases
  <2>1. mem[h].cur \in [Roles -> 0 .. MaxVersion]
    BY <1>1 DEF Sessions
  <2> QED BY <2>1 DEF Leases
<1>3. /\ x \in Sessions /\ x.ops = mem[h].ops /\ x.gen = g /\ x.rev = mem[h].rev
      /\ x.where = mem[h].where /\ x.cur = mem[h].cur /\ x.all = mem[h].all
      /\ x.ret = mem[h].ret \cup {<<r, c>>}
  BY <1>1, <1>2 DEF Sessions, Gone
<1> HIDE DEF x
<1>4. Newest(x)
  <2>1. mem[h].cur \in [Roles -> 0 .. MaxVersion]
    BY <1>1 DEF Sessions
  <2>2. c <= c
    BY <2>1
  <2> HIDE DEF c
  <2> QED BY <1>1, <1>3, <2>2 DEF SessionFine, Newest, c
<1>5. ASSUME mem[h].rev = registry[g].rev PROVE Covered(x, broker'[x.gen])
  <2>1. Covered(mem[h], broker[g])
    BY <1>1, <1>5 DEF SessionFine
  <2> SUFFICES ASSUME NEW q \in Roles, broker'[g][q].state = "live", <<"acquire", q, 0>> \notin x.ops
               PROVE  \E v \in 1 .. MaxVersion : <<q, v>> \in x.all \ x.ret
    BY <1>3 DEF Covered
  <2>2. q # r /\ broker[g][q].state = "live"
    BY <1>1 DEF Fewer, Live
  <2>3. PICK v \in 1 .. MaxVersion : <<q, v>> \in mem[h].all \ mem[h].ret
    BY <1>3, <2>1, <2>2 DEF Covered
  <2> QED BY <1>3, <2>2, <2>3
<1> QED BY <1>3, <1>4, <1>5 DEF Fits, x

\* renew of the broker.
LEMMA CallRenewKeeps ==
  ASSUME IdentityInv, NEW h \in Holders, CallRenew(h)
  PROVE  IdentityInv'
<1> DEFINE r == main[h].role
           g == mem[h].gen
           c == mem[h].cur[r]
           gone == Gone(mem[h], r)
<1>1. /\ main[h].pc = "renew" /\ UNCHANGED <<generation, act, intent, acked, ending, rv, cleaned>>
      /\ \/ Definitive(h, mem[h], <<"renew", r, c>>, "renewFailing") /\ UNCHANGED broker
         \/ broker' = RemoteRenew(g, r) /\ Goes(h, "renewed") /\ UNCHANGED <<mem, registry, faults>>
         \/ /\ broker[g][r].state # "live"
            /\ Definitive(h, gone, <<"renew", r, c>>, "renewFailing") /\ UNCHANGED broker
         \/ /\ broker' \in {broker, RemoteRenew(g, r)} /\ Strikes
            /\ Goes(h, "renewFailing") /\ UNCHANGED <<mem, registry>>
  BY DEF CallRenew, RenewMarker, Gone, fence
<1>2. /\ mem[h].where # "none" /\ mem[h] \in Sessions /\ r \in Roles /\ acked \in BOOLEAN
      /\ g \in Generations /\ c # 0
      /\ MainFine(main[h], mem[h], act[h], registry[g], broker[g])
  BY <1>1, ActsOnSession DEF MainFine, MainStates, IdentityInv, IdentityTypeOK
<1>3. Fewer
  BY <1>1, <1>2, BrokerSame, BrokerRenews
<1>4. Fits(h, mem[h]) /\ Marks(mem[h].ops, mem[h].ops)
  BY <1>2, <1>3, SameFits DEF Marks
<1>9. main[h].pc \notin Pending /\ \A x, y : Onward(h, "renewFailing", x, y)
  BY <1>1, OtherwiseOn DEF Pending, Acquiring
<1> HIDE DEF gone, c
<1>5. CASE Definitive(h, mem[h], <<"renew", r, c>>, "renewFailing")
  <2>1. Fits(h, Unmarked(mem[h], <<"renew", r, c>>))
    BY <1>4, UnmarkedFits
  <2>2. Marks(mem[h].ops, Unmarked(mem[h], <<"renew", r, c>>).ops)
    BY <1>4, UnmarkedFits
  <2> QED BY <1>1, <1>2, <1>3, <1>4, <1>5, <1>9, <2>1, <2>2, DefinitiveStep
<1>6. CASE broker' = RemoteRenew(g, r) /\ Goes(h, "renewed") /\ UNCHANGED <<mem, registry, faults>>
  <2>1. PICK m \in MainStates : m.pc = "renewed" /\ m.role = r /\ main' = [main EXCEPT ![h] = m]
    BY <1>6, GoesTo
  <2>2. m.pc \notin Acquiring /\ Onward(h, m.pc, mem[h], mem[h])
    BY <1>9, <2>1, OtherwiseOn DEF Pending, Acquiring
  <2>3. Writes(h, mem[h], mem[h]) /\ faults' \in 0 .. MaxFaults
    BY <1>6, Untouched, StrikesCount
  <2>4. MainFine(m, mem'[h], act[h], registry'[g], broker'[g])
    BY <1>1, <1>2, <1>6, <2>1, <2>2 DEF MainFine
  <2> QED BY <1>1, <1>2, <1>3, <1>4, <2>1, <2>2, <2>3, <2>4, MainStep
<1>7. CASE /\ broker[g][r].state # "live" /\ UNCHANGED broker
           /\ Definitive(h, gone, <<"renew", r, c>>, "renewFailing")
  <2>1. Fits(h, gone) /\ gone.ops = mem[h].ops /\ gone.all = mem[h].all
    BY <1>2, <1>3, <1>7, GoneFits DEF gone, c
  <2>2. /\ Fits(h, Unmarked(gone, <<"renew", r, c>>))
        /\ Marks(mem[h].ops, Unmarked(gone, <<"renew", r, c>>).ops)
    BY <2>1, UnmarkedFits
  <2> QED BY <1>1, <1>2, <1>3, <1>7, <1>9, <2>1, <2>2, DefinitiveStep
<1>8. CASE Strikes /\ Goes(h, "renewFailing") /\ UNCHANGED <<mem, registry>>
  <2>1. Writes(h, mem[h], mem[h]) /\ faults' \in 0 .. MaxFaults
    BY <1>8, Untouched, StrikesCount
  <2> QED BY <1>1, <1>2, <1>3, <1>4, <1>8, <1>9, <2>1, FreeStep
<1> QED BY <1>1, <1>5, <1>6, <1>7, <1>8

\* The renewed lease takes the place of the old one, or is given back.
LEMMA RenewReturnsKeeps ==
  ASSUME IdentityInv, NEW h \in Holders, RenewReturns(h)
  PROVE  IdentityInv'
<1> DEFINE r == main[h].role
           g == mem[h].gen
           s == mem[h]
           c == mem[h].cur[r]
           gone == Gone(s, r)
           t == [gone EXCEPT !.cur[r] = c + 1, !.all = @ \cup {<<r, c + 1>>}]
<1>1. /\ main[h].pc = "renewed" /\ UNCHANGED <<generation, act, intent, acked, ending, rv, cleaned>>
      /\ \/ Sets(h, t) /\ Goes(h, "renewRecord") /\ UNCHANGED <<registry, broker, faults>>
         \/ broker' = RemoteRevoke(g, r) /\ Definitive(h, gone, <<"renew", r, c>>, "renewFailing")
         \/ /\ broker' \in {broker, RemoteRevoke(g, r)} /\ Strikes
            /\ Goes(h, "renewFailing") /\ UNCHANGED <<mem, registry>>
  BY DEF RenewReturns, RenewMarker, Gone, fence
<1>2. /\ s.where # "none" /\ s \in Sessions /\ r \in Roles /\ acked \in BOOLEAN
      /\ g \in Generations /\ c # 0 /\ \A q \in Roles : q >= r => s.cur[q] < MaxVersion
      /\ SessionFine(s, registry[g], broker[g])
  BY <1>1, ActsOnSession DEF MainFine, MainStates, IdentityInv, IdentityTypeOK
<1>3. Fewer
  BY <1>1, <1>2, BrokerSame, BrokerRevokes
<1>4. Fits(h, s)
  BY <1>2, <1>3, SameFits
<1>8. main[h].pc \notin Pending /\ \A x, y : Onward(h, "renewFailing", x, y)
  BY <1>1, OtherwiseOn DEF Pending, Acquiring
<1>5. CASE Sets(h, t) /\ Goes(h, "renewRecord") /\ UNCHANGED <<registry, broker, faults>>
  <2>1. PICK m \in MainStates : m.pc = "renewRecord" /\ m.role = r /\ main' = [main EXCEPT ![h] = m]
    BY <1>5, GoesTo
  <2>2. m.pc \notin Acquiring /\ Onward(h, m.pc, t, t)
    BY <1>8, <2>1, OtherwiseOn DEF Pending, Acquiring
  <2>3. s.cur \in [Roles -> 0 .. MaxVersion] /\ s.all \cup s.ret \subseteq Leases
    BY <1>2 DEF Sessions
  <2>4. c \in 1 .. MaxVersion /\ c < MaxVersion /\ c + 1 \in 1 .. MaxVersion
    <3>1. c \in 0 .. MaxVersion
      BY <1>2, <2>3
    <3>2. r >= r
      BY <1>2 DEF Roles
    <3>3. c < MaxVersion
      BY <1>2, <3>2
    <3> HIDE DEF c
    <3> QED BY <1>2, <3>1, <3>3
  <2>5. <<r, c>> \in Leases /\ <<r, c + 1>> \in Leases
    BY <1>2, <2>4 DEF Leases
  <2>6. /\ t \in Sessions /\ t.gen = g /\ t.rev = s.rev /\ t.where = s.where /\ t.ops = s.ops
        /\ t.all = s.all \cup {<<r, c + 1>>} /\ t.ret = s.ret \cup {<<r, c>>}
        /\ t.cur = [s.cur EXCEPT ![r] = c + 1]
    <3> DEFINE cur == [s.cur EXCEPT ![r] = c + 1]
               all == s.all \cup {<<r, c + 1>>}
               ret == s.ret \cup {<<r, c>>}
    <3>1. cur \in [Roles -> 0 .. MaxVersion] /\ all \in SUBSET Leases /\ ret \in SUBSET Leases
      <4>1. c + 1 \in 0 .. MaxVersion
        BY <2>4
      <4> HIDE DEF c
      <4> QED BY <2>3, <2>5, <4>1
    <3>2. t = [s EXCEPT !.cur = cur, !.all = all, !.ret = ret]
      BY <1>2 DEF Gone, Sessions
    <3> HIDE DEF cur, all, ret, t, s
    <3>3. /\ t \in Sessions /\ t.gen = s.gen /\ t.rev = s.rev /\ t.where = s.where /\ t.ops = s.ops
          /\ t.all = all /\ t.ret = ret /\ t.cur = cur
      BY <1>2, <3>1, <3>2 DEF Sessions
    <3> QED BY <3>3 DEF cur, all, ret, s
  <2> HIDE DEF t, c
  <2>7. \A l \in s.all \cup s.ret : s.cur[l[1]] = 0 \/ l[2] <= s.cur[l[1]]
    BY <1>2 DEF SessionFine, Newest
  <2>8. \A l \in s.all \cup s.ret : l[1] \in Roles /\ l[2] \in 1 .. MaxVersion
    BY <2>3 DEF Leases
  <2>9. Newest(t)
    <3> SUFFICES ASSUME NEW l \in t.all \cup t.ret PROVE t.cur[l[1]] = 0 \/ l[2] <= t.cur[l[1]]
      BY DEF Newest
    <3>1. CASE l \in s.all \cup s.ret
      <4>1. CASE l[1] = r
        <5>1. l[2] <= c
          BY <1>2, <2>7, <3>1, <4>1 DEF c
        <5>2. t.cur[l[1]] = c + 1
          BY <1>2, <2>3, <2>6, <4>1
        <5> QED BY <2>4, <2>8, <3>1, <5>1, <5>2
      <4>2. CASE l[1] # r
        BY <2>3, <2>6, <2>7, <2>8, <3>1, <4>2
      <4> QED BY <4>1, <4>2
    <3>2. CASE l \in {<<r, c>>, <<r, c + 1>>}
      <4>1. t.cur[l[1]] = c + 1
        BY <1>2, <2>3, <2>6, <3>2
      <4>2. l[2] \in {c, c + 1}
        BY <3>2
      <4> QED BY <2>4, <4>1, <4>2
    <3> QED BY <2>6, <3>1, <3>2
  <2>10. <<r, c + 1>> \notin t.ret
    <3>1. <<r, c + 1>> \notin s.ret
      <4> SUFFICES ASSUME <<r, c + 1>> \in s.ret PROVE FALSE
        OBVIOUS
      <4>1. c + 1 <= c
        BY <1>2, <2>7 DEF c
      <4> QED BY <2>4, <4>1
    <3>2. c + 1 # c
      BY <2>4
    <3> QED BY <2>6, <3>1, <3>2
  <2>11. ASSUME s.rev = registry[g].rev PROVE Covered(t, broker'[g])
    <3>1. Covered(s, broker[g])
      BY <1>2, <2>11 DEF SessionFine
    <3> SUFFICES ASSUME NEW q \in Roles, broker'[g][q].state = "live", <<"acquire", q, 0>> \notin t.ops
                 PROVE  \E v \in 1 .. MaxVersion : <<q, v>> \in t.all \ t.ret
      BY DEF Covered
    <3>2. CASE q = r
      BY <2>4, <2>6, <2>10, <3>2
    <3>3. CASE q # r
      <4>1. PICK v \in 1 .. MaxVersion : <<q, v>> \in s.all \ s.ret
        BY <1>5, <2>6, <3>1 DEF Covered
      <4> QED BY <2>6, <3>3, <4>1
    <3> QED BY <3>2, <3>3
  <2>12. Fits(h, t) /\ Marks(s.ops, t.ops)
    BY <1>2, <2>6, <2>9, <2>11 DEF Fits, Marks
  <2>13. Writes(h, t, t) /\ mem'[h] = t
    BY <1>5 DEF Writes, Sets, IdentityInv, IdentityTypeOK
  <2>14. MainFine(m, mem'[h], act[h], registry'[g], broker'[g])
    <3>1. \A q \in Roles : q > r => t.cur[q] = s.cur[q] /\ q >= r
      BY <1>2, <2>3, <2>6 DEF Roles
    <3> QED BY <1>2, <2>1, <2>2, <2>13, <3>1 DEF MainFine
  <2>15. faults' \in 0 .. MaxFaults
    BY <1>5, StrikesCount
  <2> QED BY <1>1, <1>2, <1>3, <2>1, <2>2, <2>6, <2>12, <2>13, <2>14, <2>15, MainStep
<1> HIDE DEF gone, c, t
<1>6. CASE broker' = RemoteRevoke(g, r) /\ Definitive(h, gone, <<"renew", r, c>>, "renewFailing")
  <2>1. broker'[g][r].state # "live"
    BY <1>2, <1>6, BrokerRevokes
  <2>2. Fits(h, gone) /\ gone.ops = mem[h].ops /\ gone.all = mem[h].all
    BY <1>2, <1>3, <2>1, GoneFits DEF gone, c
  <2>3. /\ Fits(h, Unmarked(gone, <<"renew", r, c>>))
        /\ Marks(mem[h].ops, Unmarked(gone, <<"renew", r, c>>).ops)
    BY <2>2, UnmarkedFits
  <2> QED BY <1>1, <1>2, <1>3, <1>6, <1>8, <2>2, <2>3, DefinitiveStep
<1>7. CASE Strikes /\ Goes(h, "renewFailing") /\ UNCHANGED <<mem, registry>>
  <2>1. Writes(h, s, s) /\ faults' \in 0 .. MaxFaults /\ Marks(s.ops, s.ops)
    BY <1>7, Untouched, StrikesCount DEF Marks
  <2> QED BY <1>1, <1>2, <1>3, <1>4, <1>7, <1>8, <2>1, FreeStep
<1> QED BY <1>1, <1>5, <1>6, <1>7

\* The renewal is recorded in place of its marker.
LEMMA RecordRenewKeeps ==
  ASSUME IdentityInv, NEW h \in Holders, RecordRenew(h)
  PROVE  IdentityInv'
<1> DEFINE r == main[h].role
           g == mem[h].gen
           c == mem[h].cur[r] - 1
           over == mem[h].denied \/ mem[h].st # "active"
           u == Unmarked(mem[h], <<"renew", r, c>>)
           s == [u EXCEPT !.timed = @ \/ (~over /\ r = NRoles)]
           m == IF over THEN [main[h] EXCEPT !.pc = "renewFailing"]
                ELSE IF r < NRoles THEN [pc |-> "renewBegin", role |-> r + 1]
                ELSE Resting
<1>1. /\ main[h].pc = "renewRecord" /\ UNCHANGED <<generation, act, intent, ending, rv, broker, cleaned>>
      /\ \/ /\ Save(s) /\ Sets(h, Saved(s)) /\ main' = [main EXCEPT ![h] = m]
            /\ acked' \in {acked, TRUE}
         \/ SaveFails(s) /\ Goes(h, "renewFailing") /\ UNCHANGED <<mem, acked>>
  BY DEF RecordRenew, IdentityInv, IdentityTypeOK
<1>2. /\ mem[h].where # "none" /\ mem[h] \in Sessions /\ r \in Roles /\ acked \in BOOLEAN
      /\ acked' \in BOOLEAN /\ main[h] \in MainStates
      /\ \A q \in Roles : q > r => mem[h].cur[q] < MaxVersion
  BY <1>1, ActsOnSession DEF MainFine, MainStates, IdentityInv, IdentityTypeOK
<1>3. Fewer /\ Fits(h, mem[h]) /\ faults' \in 0 .. MaxFaults
  BY <1>1, <1>2, BrokerSame, SameFits, SaveDoes
<1>4. m \in MainStates /\ m.pc \in {"renewFailing", "renewBegin", "idle"}
      /\ (m.pc = "renewBegin" => m.role = r + 1)
  <2>1. r < NRoles => r + 1 \in Roles
    BY <1>2 DEF Roles
  <2>2. Resting \in MainStates /\ Resting.pc = "idle"
    BY Blank DEF Resting
  <2>3. /\ [main[h] EXCEPT !.pc = "renewFailing"] \in MainStates
        /\ [main[h] EXCEPT !.pc = "renewFailing"].pc = "renewFailing"
    BY <1>2 DEF MainStates, Renewing
  <2>4. r < NRoles => [pc |-> "renewBegin", role |-> r + 1] \in MainStates
    BY <2>1 DEF MainStates, Renewing
  <2> HIDE DEF over
  <2> QED BY <2>2, <2>3, <2>4
<1>8. main[h].pc \notin Pending /\ \A x, y : Onward(h, "renewFailing", x, y)
  BY <1>1, OtherwiseOn DEF Pending, Acquiring
<1> HIDE DEF c, m
<1>5. /\ Fits(h, s) /\ s.all = mem[h].all /\ s.cur = mem[h].cur /\ s \in Sessions
      /\ Marks(mem[h].ops, s.ops)
  <2>1. /\ Fits(h, u) /\ u.all = mem[h].all /\ u.cur = mem[h].cur /\ u \in Sessions
        /\ Marks(mem[h].ops, u.ops)
    BY <1>3, UnmarkedFits
  <2> HIDE DEF u, over
  <2>2. (u.timed \/ (~over /\ r = NRoles)) \in BOOLEAN
    OBVIOUS
  <2>3. /\ s \in Sessions /\ s.gen = u.gen /\ s.rev = u.rev /\ s.where = u.where /\ s.ops = u.ops
        /\ s.cur = u.cur /\ s.all = u.all /\ s.ret = u.ret
    BY <2>1, <2>2 DEF Sessions
  <2> HIDE DEF s
  <2> QED BY <2>1, <2>3 DEF Fits, Newest, Covered
<1> HIDE DEF s
<1>6. CASE Save(s) /\ Sets(h, Saved(s)) /\ main' = [main EXCEPT ![h] = m]
  <2>1. Writes(h, s, mem[h])
    BY <1>6, SaveDoes DEF Writes, Sets
  <2>2. mem'[h].cur = mem[h].cur
    <3>1. mem'[h] = Saved(s)
      BY <1>6 DEF Sets, IdentityInv, IdentityTypeOK
    <3> QED BY <1>5, <3>1, SnapshotFields
  <2>3. m.pc \notin Acquiring /\ Onward(h, m.pc, s, mem[h])
    BY <1>4, <1>8, OtherwiseOn DEF Pending, Acquiring
  <2>4. MainFine(m, mem'[h], act[h], registry'[g], broker'[g])
    <3>1. CASE m.pc = "renewBegin"
      <4>1. \A q \in Roles : q >= r + 1 => q > r
        BY <1>2 DEF Roles
      <4> QED BY <1>2, <1>4, <2>2, <2>3, <3>1, <4>1 DEF MainFine
    <3>2. CASE m.pc # "renewBegin"
      BY <1>4, <3>2, MainFree
    <3> QED BY <3>1, <3>2
  <2> QED BY <1>1, <1>2, <1>3, <1>4, <1>5, <1>6, <2>1, <2>3, <2>4, MainStep
<1>7. CASE SaveFails(s) /\ Goes(h, "renewFailing") /\ UNCHANGED mem
  <2>1. Writes(h, s, mem[h])
    BY <1>7, SaveDoes, Untouched
  <2> QED BY <1>1, <1>2, <1>3, <1>5, <1>7, <1>8, <2>1, FreeStep
<1> QED BY <1>1, <1>6, <1>7

-----------------------------------------------------------------------------
(* Revocation. *)

\* Denial first, then the phase, then the leases there are by now.
LEMMA StartRevocationKeeps ==
  ASSUME IdentityInv, NEW h \in Holders, NEW mine \in BOOLEAN, StartRevocation(h, mine)
  PROVE  IdentityInv'
<1> DEFINE s == [mem[h] EXCEPT !.denied = TRUE, !.st = "revoking", !.phase = "revoking"]
           v(ok) == [rv[h] EXCEPT !.pc = "next", !.todo = s.all \ s.ret, !.ok = ok, !.cleanup = mine,
                                  !.want = mine /\ @, !.ask = IF mine THEN "no" ELSE @]
<1>1. /\ rv[h].pc = "none" /\ (IF mine THEN rv[h].ask = "due" ELSE rv[h].want)
      /\ faults' \in 0 .. MaxFaults
      /\ UNCHANGED <<generation, act, intent, acked, ending, main, broker, cleaned>>
      /\ \/ Stores(s) /\ mem' = [mem EXCEPT ![h] = Saved(s)] /\ rv' = [rv EXCEPT ![h] = v(TRUE)]
         \/ (Stores(s) \/ registry' = registry) /\ mem' = [mem EXCEPT ![h] = s] /\ rv' = [rv EXCEPT ![h] = v(FALSE)]
  <2>1. /\ rv[h].pc = "none" /\ (IF mine THEN rv[h].ask = "due" ELSE rv[h].want)
        /\ UNCHANGED <<generation, act, intent, acked, ending, main, broker, cleaned>>
        /\ \/ Save(s) /\ Sets(h, Saved(s)) /\ rv' = [rv EXCEPT ![h] = v(TRUE)]
           \/ SaveFails(s) /\ Sets(h, s) /\ rv' = [rv EXCEPT ![h] = v(FALSE)]
    BY DEF StartRevocation, fence
  <2> HIDE DEF s, v
  <2> QED BY <2>1, SaveDoes DEF Sets
<1>2. /\ mem[h].where # "none" /\ mem[h] \in Sessions /\ rv[h] \in Revocations
      /\ rv \in [Holders -> Revocations] /\ ending \in BOOLEAN /\ cleaned \subseteq 0 .. MaxGeneration
      /\ RvFine(rv[h], main[h], mem[h])
  BY <1>1, ActsOnSession DEF IdentityInv, IdentityTypeOK
<1>3. Fewer
  BY <1>1, BrokerSame
<1>4. /\ s \in Sessions /\ s.gen = mem[h].gen /\ s.rev = mem[h].rev /\ s.where = mem[h].where
      /\ s.cur = mem[h].cur /\ s.all = mem[h].all /\ s.ret = mem[h].ret /\ s.ops = mem[h].ops
      /\ s.st = "revoking"
  BY <1>2 DEF Sessions, Phases
<1>5. PICK ok \in BOOLEAN : rv' = [rv EXCEPT ![h] = v(ok)]
  BY <1>1
<1> DEFINE w == v(ok)
<1>6. /\ w \in Revocations /\ w.pc = "next" /\ w.todo = s.all \ s.ret /\ w.cleanup = mine
      /\ w.ask = IF mine THEN "no" ELSE rv[h].ask
  <2>1. s.all \ s.ret \in SUBSET Leases /\ (mine /\ rv[h].want) \in BOOLEAN
    BY <1>4 DEF Sessions
  <2>2. (IF mine THEN "no" ELSE rv[h].ask) \in {"no", "wait", "due"}
    BY <1>2 DEF Revocations
  <2> HIDE DEF s
  <2> QED BY <1>2, <1>5, <2>1, <2>2 DEF Revocations
<1>7. rv' = [rv EXCEPT ![h] = w]
  BY <1>5
<1> HIDE DEF s, v, w
<1>8. Kept(h, s)
  BY <1>4 DEF Kept, Marks
<1>9. Fits(h, s)
  BY <1>2, <1>3, <1>4, <1>8, KeptFits
<1>10. Writes(h, s, s)
  BY <1>1 DEF Writes
<1>11. RvFine(w, main[h], mem[h])
  BY <1>1, <1>2, <1>4, <1>6 DEF RvFine
<1>12. mem'[h].st # "retired"
  <2>1. mem'[h] \in {s, Saved(s)}
    BY <1>1 DEF IdentityInv, IdentityTypeOK
  <2> QED BY <1>4, <2>1, SnapshotFields
<1>13. /\ w.ask = "wait" => rv[h].ask = "wait"
       /\ w.ask = "due" \/ w.cleanup => Due(h)
       /\ cleaned' # {} => cleaned # {}
  BY <1>1, <1>6 DEF Due
<1> QED BY <1>1, <1>2, <1>3, <1>4, <1>6, <1>7, <1>8, <1>9, <1>10, <1>11, <1>12, <1>13, RvStep

\* The marker of a revocation is written, or the lease passed over.
LEMMA BeginRevokeKeeps ==
  ASSUME IdentityInv, NEW h \in Holders, BeginRevoke(h)
  PROVE  IdentityInv'
<1>1. /\ rv[h].pc = "next" /\ UNCHANGED <<generation, act, intent, acked, ending, main, broker, cleaned>>
  BY DEF BeginRevoke, fence
<1>2. /\ mem[h].where # "none" /\ mem[h] \in Sessions /\ rv[h] \in Revocations
      /\ rv \in [Holders -> Revocations] /\ ending \in BOOLEAN /\ cleaned \subseteq 0 .. MaxGeneration
      /\ RvFine(rv[h], main[h], mem[h]) /\ rv[h].todo \subseteq mem[h].all /\ mem[h].all \subseteq Leases
  BY <1>1, ActsOnSession DEF IdentityInv, IdentityTypeOK, RvFine, Sessions
<1>3. Fewer /\ Fits(h, mem[h]) /\ Kept(h, mem[h])
  BY <1>1, <1>2, BrokerSame, SameFits
<1>4. CASE rv' = [rv EXCEPT ![h].pc = "final"] /\ UNCHANGED <<mem, registry, faults>>
  <2> DEFINE v == [rv[h] EXCEPT !.pc = "final"]
  <2>1. /\ v \in Revocations /\ v.pc = "final" /\ v.todo = rv[h].todo /\ v.cleanup = rv[h].cleanup
        /\ v.ask = rv[h].ask
    BY <1>2 DEF Revocations
  <2>2. rv' = [rv EXCEPT ![h] = v]
    BY <1>4
  <2> HIDE DEF v
  <2>3. RvFine(v, main[h], mem[h])
    BY <1>2, <2>1 DEF RvFine
  <2>4. Writes(h, mem[h], mem[h]) /\ faults' \in 0 .. MaxFaults
    BY <1>4, Untouched, StrikesCount
  <2>5. mem'[h].st = mem[h].st
    BY <1>4
  <2> QED BY <1>1, <1>2, <1>3, <2>1, <2>2, <2>3, <2>4, <2>5, RvStep DEF Due
<1>5. ASSUME NEW l \in rv[h].todo,
             LET s == Marked(mem[h], <<"revoke", l[1], l[2]>>)
             IN \/ Save(s) /\ Sets(h, Saved(s))
                   /\ rv' = [rv EXCEPT ![h].pc = "revoke", ![h].lease = l, ![h].todo = @ \ {l}]
                \/ SaveFails(s) /\ UNCHANGED mem
                   /\ rv' = [rv EXCEPT ![h].todo = @ \ {l}, ![h].ok = FALSE]
      PROVE  IdentityInv'
  <2> DEFINE s == Marked(mem[h], <<"revoke", l[1], l[2]>>)
  <2>1. l \in Leases /\ l = <<l[1], l[2]>> /\ l \in mem[h].all
    BY <1>2 DEF Leases
  <2>2. Fits(h, s) /\ Kept(h, s) /\ s \in Sessions /\ s.st = mem[h].st /\ s.where = mem[h].where
    BY <1>2, <1>3, <2>1, MarkedFits
  <2>3. PICK v \in Revocations :
          rv' = [rv EXCEPT ![h] = v] /\ RvFine(v, main[h], mem[h]) /\ v.cleanup = rv[h].cleanup
          /\ v.ask = rv[h].ask
    <3>1. CASE rv' = [rv EXCEPT ![h].pc = "revoke", ![h].lease = l, ![h].todo = @ \ {l}]
      <4> DEFINE v == [rv[h] EXCEPT !.pc = "revoke", !.lease = l, !.todo = @ \ {l}]
      <4>1. /\ v \in Revocations /\ v.pc = "revoke" /\ v.lease = l /\ v.todo = rv[h].todo \ {l}
            /\ v.cleanup = rv[h].cleanup /\ v.ask = rv[h].ask
        BY <1>2, <2>1 DEF Revocations
      <4>2. rv' = [rv EXCEPT ![h] = v]
        BY <1>2, <3>1
      <4> HIDE DEF v
      <4>3. RvFine(v, main[h], mem[h])
        BY <1>2, <2>1, <4>1 DEF RvFine
      <4> QED BY <4>1, <4>2, <4>3
    <3>2. CASE rv' = [rv EXCEPT ![h].todo = @ \ {l}, ![h].ok = FALSE]
      <4> DEFINE v == [rv[h] EXCEPT !.todo = @ \ {l}, !.ok = FALSE]
      <4>1. /\ v \in Revocations /\ v.pc = "next" /\ v.todo = rv[h].todo \ {l}
            /\ v.cleanup = rv[h].cleanup /\ v.ask = rv[h].ask
        BY <1>1, <1>2 DEF Revocations
      <4>2. rv' = [rv EXCEPT ![h] = v]
        BY <1>2, <3>2
      <4> HIDE DEF v
      <4>3. RvFine(v, main[h], mem[h])
        BY <1>2, <4>1 DEF RvFine
      <4> QED BY <4>1, <4>2, <4>3
    <3> QED BY <1>5, <3>1, <3>2
  <2> HIDE DEF s
  <2>4. (Save(s) /\ Sets(h, Saved(s))) \/ (SaveFails(s) /\ UNCHANGED mem)
    BY <1>5 DEF s
  <2>5. Writes(h, s, mem[h]) /\ faults' \in 0 .. MaxFaults
    BY <2>4, SaveDoes, Untouched DEF Writes, Sets
  <2>6. mem'[h].st = mem[h].st
    <3>1. mem'[h] \in {mem[h], Saved(s)}
      BY <2>4 DEF Sets, IdentityInv, IdentityTypeOK
    <3> QED BY <2>2, <3>1, SnapshotFields
  <2> QED BY <1>1, <1>2, <1>3, <2>2, <2>3, <2>5, <2>6, RvStep DEF Due
<1> QED BY <1>4, <1>5 DEF BeginRevoke, Marked

\* A lease that is not live any more is held for retired.
LEMMA DoneFits ==
  ASSUME IdentityInv, NEW h \in Holders, mem[h].where # "none", Fewer, NEW l \in mem[h].all,
         broker'[mem[h].gen][l[1]].state # "live", NEW done,
         done = [mem[h] EXCEPT !.ret = @ \cup {l}]
  PROVE  Fits(h, done) /\ Kept(h, done) /\ done.ops = mem[h].ops /\ done.st = mem[h].st
         /\ done.where = mem[h].where
<1>1. mem[h] \in Sessions /\ mem[h].all \subseteq Leases
  BY DEF IdentityInv, IdentityTypeOK, Sessions
<1>2. /\ done \in Sessions /\ done.gen = mem[h].gen /\ done.rev = mem[h].rev
      /\ done.where = mem[h].where /\ done.cur = mem[h].cur /\ done.all = mem[h].all
      /\ done.ret = mem[h].ret \cup {l} /\ done.ops = mem[h].ops /\ done.st = mem[h].st
  BY <1>1 DEF Sessions
<1>3. Kept(h, done)
  BY <1>2 DEF Kept, Marks
<1> QED BY <1>2, <1>3, KeptFits

\* The lease is revoked, or may be; the verdict on it is recorded, or not.
LEMMA RevokeKeeps ==
  ASSUME IdentityInv, NEW h \in Holders, Revoke(h)
  PROVE  IdentityInv'
<1> DEFINE l == rv[h].lease
           g == mem[h].gen
           k == <<"revoke", l[1], l[2]>>
           done == [mem[h] EXCEPT !.ret = @ \cup {l}]
           after(ok) == rv' = [rv EXCEPT ![h].pc = "next", ![h].ok = @ /\ ok]
           records(s) == \/ Save(Unmarked(s, k)) /\ Sets(h, Saved(Unmarked(s, k)))
                         \/ SaveFails(Unmarked(s, k)) /\ Sets(h, s)
<1>1. /\ rv[h].pc = "revoke" /\ UNCHANGED <<generation, act, intent, acked, ending, main, cleaned>>
      /\ \E ok \in BOOLEAN : after(ok)
      /\ \/ broker' = RemoteRevoke(g, l[1]) /\ records(done)
         \/ UNCHANGED broker /\ Refused(h, k)
         \/ broker' \in {broker, RemoteRevoke(g, l[1])} /\ Strikes /\ UNCHANGED <<mem, registry>>
  BY DEF Revoke, fence
<1>2. /\ mem[h].where # "none" /\ mem[h] \in Sessions /\ rv[h] \in Revocations /\ g \in Generations
      /\ rv \in [Holders -> Revocations] /\ ending \in BOOLEAN /\ cleaned \subseteq 0 .. MaxGeneration
      /\ RvFine(rv[h], main[h], mem[h]) /\ l \in mem[h].all /\ l[1] \in Roles
  <2>1. l \in mem[h].all /\ mem[h].all \subseteq Leases
    BY <1>1, ActsOnSession DEF RvFine, Sessions
  <2>2. l[1] \in Roles
    BY <2>1 DEF Leases
  <2> QED BY <1>1, <2>1, <2>2, ActsOnSession DEF IdentityInv, IdentityTypeOK
<1>3. PICK ok \in BOOLEAN : after(ok)
  BY <1>1
<1> DEFINE v == [rv[h] EXCEPT !.pc = "next", !.ok = @ /\ ok]
<1>4. /\ v \in Revocations /\ v.pc = "next" /\ v.todo = rv[h].todo /\ v.cleanup = rv[h].cleanup
      /\ v.ask = rv[h].ask
  <2>1. (rv[h].ok /\ ok) \in BOOLEAN
    OBVIOUS
  <2> QED BY <1>2, <2>1 DEF Revocations
<1>5. rv' = [rv EXCEPT ![h] = v]
  BY <1>2, <1>3
<1> HIDE DEF v, after, done, k, l
<1>6. RvFine(v, main[h], mem[h])
  BY <1>1, <1>2, <1>4 DEF RvFine
<1>7. Fewer
  BY <1>1, <1>2, BrokerSame, BrokerRevokes
<1>8. Fits(h, mem[h]) /\ Kept(h, mem[h])
  BY <1>2, <1>7, SameFits
<1>9. CASE broker' = RemoteRevoke(g, l[1]) /\ records(done)
  <2> DEFINE s == Unmarked(done, k)
  <2>1. broker'[g][l[1]].state # "live"
    BY <1>2, <1>9, BrokerRevokes
  <2>2. Fits(h, done) /\ Kept(h, done) /\ done.ops = mem[h].ops /\ done.st = mem[h].st
        /\ done.where = mem[h].where
    BY <1>2, <1>7, <2>1, DoneFits DEF done
  <2>3. Fits(h, s) /\ Kept(h, s) /\ s \in Sessions /\ s.st = mem[h].st /\ s.where = mem[h].where
    BY <2>2, UnmarkedFits DEF k
  <2>4. (Save(s) /\ Sets(h, Saved(s))) \/ (SaveFails(s) /\ Sets(h, done))
    BY <1>9
  <2> HIDE DEF s, records
  <2>5. Writes(h, s, done) /\ faults' \in 0 .. MaxFaults
    BY <2>4, SaveDoes DEF Writes, Sets
  <2>6. mem'[h].st = mem[h].st
    <3>1. mem'[h] \in {done, Saved(s)}
      BY <2>4 DEF Sets, IdentityInv, IdentityTypeOK
    <3> QED BY <2>2, <2>3, <3>1, SnapshotFields
  <2> QED BY <1>1, <1>2, <1>4, <1>5, <1>6, <1>7, <2>2, <2>3, <2>5, <2>6, RvStep DEF Due
<1>10. CASE UNCHANGED broker /\ Refused(h, k)
  <2> DEFINE s == Unmarked(mem[h], k)
  <2>1. Fits(h, s) /\ Kept(h, s) /\ s \in Sessions /\ s.st = mem[h].st /\ s.where = mem[h].where
    BY <1>8, UnmarkedFits DEF k
  <2>2. Writes(h, s, mem[h]) /\ faults' \in 0 .. MaxFaults
    BY <1>10, RefusedWrites
  <2> HIDE DEF s
  <2>3. mem'[h].st = mem[h].st
    <3>1. mem'[h] \in {mem[h], Saved(s)}
      BY <2>2 DEF Writes, IdentityInv, IdentityTypeOK
    <3> QED BY <2>1, <3>1, SnapshotFields
  <2> QED BY <1>1, <1>2, <1>4, <1>5, <1>6, <1>7, <1>8, <2>1, <2>2, <2>3, RvStep DEF Due
<1>11. CASE Strikes /\ UNCHANGED <<mem, registry>>
  <2>1. Writes(h, mem[h], mem[h]) /\ faults' \in 0 .. MaxFaults /\ mem'[h].st = mem[h].st
    BY <1>11, Untouched, StrikesCount
  <2> QED BY <1>1, <1>2, <1>4, <1>5, <1>6, <1>7, <1>8, <2>1, RvStep DEF Due
<1> QED BY <1>1, <1>9, <1>10, <1>11

\* The verdict of a revocation: it is retired only when nothing is live.
LEMMA FinishRevocationKeeps ==
  ASSUME IdentityInv, NEW h \in Holders, FinishRevocation(h)
  PROVE  IdentityInv'
<1> DEFINE whole == rv[h].ok /\ mem[h].ops = {} /\ mem[h].all \subseteq mem[h].ret
           end == IF whole THEN "retired" ELSE "failed"
           s == [mem[h] EXCEPT !.st = end, !.phase = end]
           t == [s EXCEPT !.st = "failed", !.phase = "failed"]
           v == [NoRevocation EXCEPT !.want = rv[h].want, !.ask = rv[h].ask]
<1>1. /\ rv[h].pc = "final" /\ rv' = [rv EXCEPT ![h] = v]
      /\ UNCHANGED <<generation, act, intent, acked, ending, main, broker>>
      /\ \/ /\ Save(s) /\ Sets(h, Saved(s))
            /\ cleaned' = IF whole /\ rv[h].cleanup THEN cleaned \cup {act[h]} ELSE cleaned
         \/ SaveFails(s) /\ Sets(h, t) /\ UNCHANGED cleaned
  BY DEF FinishRevocation, fence
<1>2. /\ mem[h].where # "none" /\ mem[h] \in Sessions /\ rv[h] \in Revocations
      /\ ending \in BOOLEAN /\ cleaned \subseteq 0 .. MaxGeneration /\ act[h] \in 0 .. MaxGeneration
      /\ RvFine(rv[h], main[h], mem[h])
  BY <1>1, ActsOnSession DEF IdentityInv, IdentityTypeOK
<1>3. Fewer /\ faults' \in 0 .. MaxFaults
  BY <1>1, BrokerSame, SaveDoes
<1>4. /\ v \in Revocations /\ v.pc = "none" /\ ~v.cleanup /\ v.ask = rv[h].ask
  BY <1>2, Blank DEF NoRevocation, Revocations
<1> HIDE DEF whole, v
<1>5. end \in {"retired", "failed"}
  OBVIOUS
<1>6. /\ s \in Sessions /\ s.gen = mem[h].gen /\ s.rev = mem[h].rev /\ s.where = mem[h].where
      /\ s.cur = mem[h].cur /\ s.all = mem[h].all /\ s.ret = mem[h].ret /\ s.ops = mem[h].ops
      /\ s.st = end
  <2> HIDE DEF end
  <2> QED BY <1>2, <1>5 DEF Sessions, Phases
<1>7. /\ t \in Sessions /\ t.gen = mem[h].gen /\ t.rev = mem[h].rev /\ t.where = mem[h].where
      /\ t.cur = mem[h].cur /\ t.all = mem[h].all /\ t.ret = mem[h].ret /\ t.ops = mem[h].ops
      /\ t.st = "failed"
  <2> HIDE DEF s
  <2> QED BY <1>6 DEF Sessions, Phases
<1> HIDE DEF s, t
<1>8. Kept(h, s) /\ Kept(h, t)
  BY <1>6, <1>7 DEF Kept, Marks
<1>9. Fits(h, s) /\ Fits(h, t)
  BY <1>2, <1>3, <1>6, <1>7, <1>8, KeptFits
<1>10. Writes(h, s, t)
  BY <1>1, SaveDoes DEF Writes, Sets
<1>11. ASSUME whole, Save(s) PROVE Closed(mem[h].gen)
  <2>1. mem[h].rev = registry[mem[h].gen].rev
    BY <1>6, <1>11 DEF Save, CanSave
  <2> QED BY <1>2, <1>11, <2>1, WholeIsClosed DEF whole
<1>12. ASSUME mem'[h].st = "retired" PROVE Closed(mem[h].gen)
  <2>1. mem'[h] = t \/ (mem'[h] = Saved(s) /\ Save(s))
    BY <1>1 DEF Sets, IdentityInv, IdentityTypeOK
  <2>2. Save(s) /\ s.st = "retired"
    BY <1>6, <1>7, <1>12, <2>1, SnapshotFields
  <2> QED BY <1>6, <1>11, <2>2
<1>13. /\ cleaned' \subseteq 0 .. MaxGeneration
       /\ cleaned' # {} => cleaned # {} \/ (Due(h) /\ Closed(mem[h].gen))
  BY <1>1, <1>2, <1>11 DEF Due
<1>14. RvFine(v, main[h], mem[h])
  BY <1>2, <1>4 DEF RvFine
<1>15. ending' \in BOOLEAN /\ (ending => ending') /\ (v.ask = "wait" => rv[h].ask = "wait")
       /\ (v.ask = "due" \/ v.cleanup => Due(h))
  BY <1>1, <1>2, <1>4 DEF Due
<1>16. mem'[h].st = "retired" => mem[h].st = "retired" \/ Closed(mem[h].gen)
  BY <1>12
<1>17. t.ops = mem[h].ops /\ UNCHANGED <<generation, act, intent, acked, main>> /\ rv' = [rv EXCEPT ![h] = v]
  BY <1>1, <1>7
<1> QED BY <1>2, <1>3, <1>4, <1>6, <1>7, <1>8, <1>9, <1>10, <1>13, <1>14, <1>15, <1>16, <1>17, RvStep

-----------------------------------------------------------------------------
(* Cleanup. *)

\* Only the owner of a generation acts under it, so that nobody else acquires
\* or replaces when it does not.
LEMMA OwnerStill ==
  ASSUME IdentityInv, NEW h \in Holders, MayCleanUp(h)
  PROVE  \A k \in Holders : act[k] = generation => k = h
BY DEF IdentityInv, IdentityTypeOK, Owners, MayCleanUp, IsCurrent

\* A generation that has not begun is closed.
LEMMA UnbegunIsClosed ==
  ASSUME IdentityInv, NEW j \in Generations, ~Begun(j)
  PROVE  Closed(j)
<1>1. ASSUME NEW k \in Holders, main[k].pc = "acquiring" PROVE mem[k].gen # j
  <2>1. mem[k].where = "pending"
    BY <1>1 DEF IdentityInv, HostFine, PlaceFine, Acquiring
  <2> QED BY <2>1 DEF Begun
<1> QED BY <1>1 DEF Begun, Closed

\* A cleanup comes during an acquisition, which is the only one there is.
LEMMA DenyAcquisitionKeeps ==
  ASSUME IdentityInv, NEW h \in Holders, DenyAcquisition(h)
  PROVE  IdentityInv'
<1> DEFINE v == [rv[h] EXCEPT !.ask = "wait"]
<1>1. /\ MayCleanUp(h) /\ mem[h].where = "pending" /\ ending' = TRUE /\ rv' = [rv EXCEPT ![h] = v]
      /\ UNCHANGED <<generation, act, intent, acked, mem, main, registry, broker, cleaned, faults>>
  BY DEF DenyAcquisition
<1>2. /\ act[h] = generation /\ rv[h].ask = "no" /\ ~rv[h].cleanup /\ main[h].pc # "replace"
      /\ PlaceFine(main[h], mem[h], act[h]) /\ RvFine(rv[h], main[h], mem[h]) /\ rv[h] \in Revocations
      /\ mem[h].gen \in Generations
  BY <1>1, ActsOnSession DEF MayCleanUp, IsCurrent
<1>3. /\ v \in Revocations /\ v.ask = "wait" /\ v.pc = rv[h].pc /\ v.todo = rv[h].todo
      /\ v.lease = rv[h].lease /\ ~v.cleanup
  BY <1>2 DEF Revocations
<1> HIDE DEF v
<1>4. RvFine(v, main[h], mem[h])
  BY <1>2, <1>3 DEF RvFine
<1>5. Still({h})'
  BY <1>1, <1>2, OwnerStill DEF Still
<1>6. ClosedBut(mem[h].gen)
  <2>1. mem[h].gen = generation /\ Begun(mem[h].gen)
    BY <1>1, <1>2 DEF PlaceFine, Begun
  <2>2. \A j \in Generations : Begun(j) => j <= generation
    BY DEF IdentityInv, Exclusive
  <2>3. \A j \in Generations : j < generation => Closed(j)
    BY <1>2, <2>1 DEF IdentityInv, Exclusive
  <2>4. \A j \in Generations : j > generation => Closed(j)
    BY <1>2, <2>1, <2>2, UnbegunIsClosed DEF Generations
  <2> QED BY <1>2, <2>1, <2>3, <2>4 DEF ClosedBut, Generations
<1>7. mem' = [mem EXCEPT ![h] = mem[h]] /\ faults' \in 0 .. MaxFaults
  BY <1>1 DEF IdentityInv, IdentityTypeOK
<1> QED BY <1>1, <1>3, <1>4, <1>5, <1>6, <1>7, DenyStep

\* The acquisition it waits for is through: the cleanup is due, or not to be.
LEMMA CleanupContinuesKeeps ==
  ASSUME IdentityInv, NEW h \in Holders, CleanupContinues(h)
  PROVE  IdentityInv'
<1> DEFINE t == [mem[h] EXCEPT !.denied = TRUE]
<1>1. /\ rv[h].ask = "wait" /\ main[h].pc = "idle"
      /\ UNCHANGED <<generation, act, intent, acked, ending, main, registry, broker, cleaned, faults>>
      /\ \/ rv' = [rv EXCEPT ![h].ask = "no"] /\ UNCHANGED mem
         \/ rv' = [rv EXCEPT ![h].ask = "due"] /\ mem' = [mem EXCEPT ![h] = t]
  BY DEF CleanupContinues, fence
<1>2. /\ mem[h].where # "none" /\ rv[h] \in Revocations /\ RvFine(rv[h], main[h], mem[h])
      /\ rv \in [Holders -> Revocations] /\ ending \in BOOLEAN /\ mem = [mem EXCEPT ![h] = mem[h]]
  BY <1>1, ActsOnSession DEF IdentityInv, IdentityTypeOK
<1>3. faults' \in 0 .. MaxFaults
  BY <1>1, StrikesCount
<1>4. ASSUME NEW a \in {"no", "due"}, rv' = [rv EXCEPT ![h].ask = a]
      PROVE  \E v \in Revocations :
               /\ rv' = [rv EXCEPT ![h] = v] /\ v.ask = a /\ v.cleanup = rv[h].cleanup
               /\ RvFine(v, main[h], mem[h])
  <2> DEFINE v == [rv[h] EXCEPT !.ask = a]
  <2>1. /\ v \in Revocations /\ v.ask = a /\ v.pc = rv[h].pc /\ v.todo = rv[h].todo
        /\ v.lease = rv[h].lease /\ v.cleanup = rv[h].cleanup
    BY <1>2 DEF Revocations
  <2>2. rv' = [rv EXCEPT ![h] = v]
    BY <1>4
  <2> HIDE DEF v
  <2>3. RvFine(v, main[h], mem[h])
    BY <1>1, <1>2, <2>1 DEF RvFine, Pending, Acquiring
  <2> QED BY <2>1, <2>2, <2>3
<1>5. Still({})' /\ ClosedBut(mem[h].gen)
  <2>1. Still({h}) /\ ClosedBut(mem[h].gen)
    BY <1>1 DEF IdentityInv, Cleaning
  <2> QED BY <1>1, <2>1 DEF Still, Acquiring
<1>6. CASE rv' = [rv EXCEPT ![h].ask = "no"] /\ UNCHANGED mem
  <2>1. PICK v \in Revocations :
          /\ rv' = [rv EXCEPT ![h] = v] /\ v.ask = "no" /\ v.cleanup = rv[h].cleanup
          /\ RvFine(v, main[h], mem[h])
    BY <1>4, <1>6
  <2>2. /\ mem' = [mem EXCEPT ![h] = mem[h]] /\ ending' = ending
        /\ v.ask = "due" \/ v.cleanup => Due(h)
    BY <1>1, <1>2, <1>6, <2>1 DEF Due
  <2>4. v.ask # "wait" /\ UNCHANGED <<generation, act, intent, acked, main, registry, broker, cleaned>>
    BY <1>1, <2>1
  <2> HIDE DEF t
  <2> QED BY <1>2, <1>3, <2>1, <2>2, <2>4, DenyStep
<1>7. CASE rv' = [rv EXCEPT ![h].ask = "due"] /\ mem' = [mem EXCEPT ![h] = t]
  <2>1. PICK v \in Revocations :
          /\ rv' = [rv EXCEPT ![h] = v] /\ v.ask = "due" /\ v.cleanup = rv[h].cleanup
          /\ RvFine(v, main[h], mem[h])
    BY <1>4, <1>7
  <2>2. t \in {mem[h], t, [mem[h] EXCEPT !.denied = TRUE, !.st = "failed"]}
    OBVIOUS
  <2> QED BY <1>1, <1>2, <1>3, <1>5, <1>7, <2>1, <2>2, DenyStep
<1> QED BY <1>1, <1>6, <1>7

\* A cleanup is refused: the session in the maps is denied.
LEMMA CleanupRefusedKeeps ==
  ASSUME IdentityInv, NEW h \in Holders, CleanupRefused(h)
  PROVE  IdentityInv'
<1> DEFINE t == [mem[h] EXCEPT !.denied = TRUE, !.st = "failed"]
<1>1. /\ ending' = TRUE /\ (Strikes \/ faults' = faults)
      /\ mem' = IF InMaps(h) THEN [mem EXCEPT ![h] = t] ELSE mem
      /\ UNCHANGED <<generation, act, intent, acked, main, rv, registry, broker, cleaned>>
  BY DEF CleanupRefused
<1>2. faults' \in 0 .. MaxFaults
  BY <1>1, StrikesCount
<1>3. CASE InMaps(h)
  <2>1. /\ mem[h].where # "none" /\ rv[h] \in Revocations /\ RvFine(rv[h], main[h], mem[h])
        /\ rv' = [rv EXCEPT ![h] = rv[h]]
    BY <1>1, <1>3, ActsOnSession DEF InMaps, IdentityInv, IdentityTypeOK
  <2>2. t \in {mem[h], [mem[h] EXCEPT !.denied = TRUE], t}
    OBVIOUS
  <2> QED BY <1>1, <1>2, <1>3, <2>1, <2>2, DenyStep DEF Due
<1>4. CASE ~InMaps(h)
  <2>1. mem' = mem
    BY <1>1, <1>4
  <2>2. IdentityTypeOK' /\ Owners' /\ Fresh'
    BY <1>1, <1>2, <2>1 DEF IdentityInv, IdentityTypeOK, Owners, Fresh
  <2>3. ASSUME NEW X PROVE Still(X) => Still(X)'
    BY <1>1, <2>1 DEF Still
  <2>4. \A g \in Generations : (Closed(g) <=> Closed(g)') /\ (Begun(g) <=> Begun(g)')
    BY <1>1, <2>1 DEF Closed, Begun, Live
  <2>5. Exclusive' /\ Replacing' /\ Cleaning'
    BY <1>1, <2>1, <2>3, <2>4 DEF IdentityInv, Exclusive, Replacing, Cleaning, ClosedBut, Due
  <2>6. \A k \in Holders : HostFine(k)'
    BY <1>1, <2>1 DEF IdentityInv, HostFine
  <2>7. \A g \in Generations : Sealed(registry'[g], broker'[g])
    BY <1>1 DEF IdentityInv
  <2> QED BY <2>2, <2>5, <2>6, <2>7 DEF IdentityInv
<1> QED BY <1>3, <1>4

\* A cleanup has read the whole lineage: all but one generation are retired.
LEMMA OneUnretired ==
  ASSUME Cardinality(Unretired) <= 1, NEW g \in Unretired
  PROVE  Unretired = {g}
<1>1. IsFiniteSet(Generations)
  BY FS_Interval DEF Generations
<1>2. Unretired \in SUBSET Generations
  BY DEF Unretired, Lineage
<1>3. IsFiniteSet(Unretired)
  BY <1>1, <1>2, FS_Subset
<1>4. /\ IsFiniteSet(Unretired \ {g}) /\ Cardinality(Unretired \ {g}) = Cardinality(Unretired) - 1
  BY <1>3, FS_RemoveElement
<1>5. Cardinality(Unretired) \in Nat /\ Cardinality(Unretired \ {g}) \in Nat
  BY <1>3, <1>4, FS_CardinalityType
<1>6. Cardinality(Unretired \ {g}) = 0
  BY <1>4, <1>5
<1>7. Unretired \ {g} = {}
  BY <1>4, <1>6, FS_EmptySet
<1> QED BY <1>7

\* The session that a cleanup loads takes a place of its host.
LEMMA TakesPlace ==
  ASSUME IdentityInv, NEW h \in Holders, MayCleanUp(h), mem[h].where # "pending", ending' = TRUE,
         UNCHANGED <<generation, intent, acked, registry, broker, faults>>,
         NEW k \in Holders, k = h \/ mem[h].where # "none",
         NEW g \in Lineage, NEW x \in Sessions, x.where = "session", x.gen = g,
         SessionFine(x, registry[g], broker[g]), NEW a \in {"no", "due"},
         mem' = [mem EXCEPT ![h].where = "apart", ![k] = x], act' = [act EXCEPT ![h] = 0, ![k] = act[h]],
         main' = [main EXCEPT ![k] = Resting], rv' = [rv EXCEPT ![k] = [NoRevocation EXCEPT !.ask = a]],
         a = "due" => \A j \in Generations : j # g => Closed(j),
         cleaned' = cleaned
           \/ (cleaned' = cleaned \cup {act[h]} /\ \A j \in Generations : Closed(j))
  PROVE  IdentityInv'
<1> DEFINE y == [mem[h] EXCEPT !.where = "apart"]
           v == [NoRevocation EXCEPT !.ask = a]
<1>1. /\ mem \in [Holders -> Sessions] /\ main \in [Holders -> MainStates] /\ rv \in [Holders -> Revocations]
      /\ act \in [Holders -> 0 .. MaxGeneration] /\ cleaned \subseteq 0 .. MaxGeneration
      /\ Owners /\ HostFine(h)
  BY DEF IdentityInv, IdentityTypeOK
<1>2. /\ act[h] = generation /\ act[h] # 0 /\ rv[h].ask = "no" /\ ~rv[h].cleanup /\ main[h].pc # "replace"
      /\ main[h].pc \notin Acquiring
  BY <1>1 DEF MayCleanUp, IsCurrent, HostFine, PlaceFine
<1>3. /\ y \in Sessions /\ y.where = "apart" /\ y.gen = mem[h].gen /\ y.rev = mem[h].rev
      /\ y.cur = mem[h].cur /\ y.all = mem[h].all /\ y.ret = mem[h].ret /\ y.ops = mem[h].ops
  BY <1>1 DEF Sessions
<1>4. /\ v \in Revocations /\ v.pc = "none" /\ v.ask = a /\ ~v.cleanup
  BY Blank DEF NoRevocation, Revocations
<1>5. /\ mem'[k] = x /\ main'[k] = Resting /\ rv'[k] = v /\ act'[k] = act[h]
      /\ h # k => mem'[h] = y /\ main'[h] = main[h] /\ rv'[h] = rv[h] /\ act'[h] = 0
      /\ \A i \in Holders \ {h, k} :
           mem'[i] = mem[i] /\ main'[i] = main[i] /\ rv'[i] = rv[i] /\ act'[i] = act[i]
  <2>1. mem' = [mem EXCEPT ![h] = y, ![k] = x]
    OBVIOUS
  <2> HIDE DEF y, v
  <2> QED BY <1>1, <2>1 DEF v
<1> HIDE DEF y, v
<1>6. IdentityTypeOK'
  <2>1. /\ mem' \in [Holders -> Sessions] /\ main' \in [Holders -> MainStates]
        /\ rv' \in [Holders -> Revocations]
    BY <1>1, <1>3, <1>4, Blank DEF y, v
  <2>2. act' \in [Holders -> 0 .. MaxGeneration] /\ cleaned' \subseteq 0 .. MaxGeneration
    BY <1>1
  <2> QED BY <2>1, <2>2 DEF IdentityInv, IdentityTypeOK
<1>15. act'[k] = act[h] /\ \A i \in Holders : i # k => act'[i] = IF i = h THEN 0 ELSE act[i]
  BY <1>1
<1>7. \A i \in Holders : act'[i] = generation => i = k
  BY <1>2, <1>15, OwnerStill
<1>8. Owners'
  <2>1. \A i \in Holders : act'[i] = 0 \/ i = k \/ (i \in Holders \ {h, k} /\ act'[i] = act[i])
    BY <1>15
  <2>2. \A i \in Holders : act'[i] <= generation
    BY <1>1, <1>2, <1>5, <2>1 DEF Owners
  <2>3. ASSUME NEW i \in Holders, NEW j \in Holders, act'[i] = act'[j], act'[i] # 0 PROVE i = j
    BY <1>1, <1>2, <1>5, <1>7, <2>1, <2>3 DEF Owners
  <2> QED BY <2>2, <2>3 DEF Owners
<1>9. Still({})'
  <2>1. main'[k].pc = "idle"
    BY <1>5 DEF Resting
  <2> QED BY <1>7, <2>1 DEF Still, Acquiring
<1>10. ASSUME NEW i \in Holders PROVE HostFine(i)'
  <2>1. CASE i = k
    <3>1. MainFine(Resting, x, act[h], registry[g], broker[g])
      BY MainFree DEF Resting
    <3>2. PlaceFine(Resting, x, act[h]) /\ RvFine(v, Resting, x)
      BY <1>4 DEF PlaceFine, RvFine, Resting, Acquiring, Pending
    <3> QED BY <1>5, <2>1, <3>1, <3>2 DEF HostFine
  <2>2. CASE i = h /\ h # k
    <3> DEFINE n == registry[mem[h].gen]
               row == broker[mem[h].gen]
    <3>1. SessionFine(mem[h], n, row) /\ MainFine(main[h], mem[h], act[h], n, row) /\ RvFine(rv[h], main[h], mem[h])
      BY <1>1, <2>2 DEF HostFine
    <3>2. SessionFine(y, n, row)
      BY <1>3, <3>1 DEF SessionFine, Newest, Covered
    <3>3. MainFine(main[h], y, 0, n, row)
      BY <1>2, <1>3, <3>1 DEF MainFine, Below, Unasked
    <3>4. PlaceFine(main[h], y, 0) /\ RvFine(rv[h], main[h], y)
      BY <1>2, <1>3, <3>1 DEF PlaceFine, RvFine
    <3> QED BY <1>3, <1>5, <2>2, <3>2, <3>3, <3>4 DEF HostFine
  <2>3. CASE i \notin {h, k}
    BY <1>5, <2>3 DEF HostFine, IdentityInv
  <2> QED BY <2>1, <2>2, <2>3
<1>11. ASSUME NEW i \in Holders,
              \/ mem'[i].where = "pending" \/ main'[i].pc \in Acquiring \cup {"replace"}
              \/ rv'[i].ask = "wait"
       PROVE  mem'[i] = mem[i] /\ main'[i] = main[i] /\ rv'[i] = rv[i] /\ act'[i] = act[i]
  <2>1. i # k
    BY <1>4, <1>5, <1>11 DEF Resting, Acquiring
  <2>2. i # h
    BY <1>2, <1>3, <1>5, <1>11, <2>1
  <2> QED BY <1>5, <2>1, <2>2
<1>12. ASSUME NEW i \in Holders, Due(i)'
       PROVE  \/ Due(i) /\ mem'[i].gen = mem[i].gen
              \/ Still({})' /\ \A j \in Generations : j # mem'[i].gen => Closed(j)
  <2>1. CASE i = k
    BY <1>4, <1>5, <1>9, <1>12, <2>1 DEF Due
  <2>2. CASE i = h /\ h # k
    BY <1>2, <1>5, <1>12, <2>2 DEF Due
  <2>3. CASE i \notin {h, k}
    BY <1>5, <1>12, <2>3 DEF Due
  <2> QED BY <2>1, <2>2, <2>3
<1>13. intent' # 0
  BY IntentFirst
<1>14. cleaned' # {} => cleaned # {} \/ (Still({})' /\ \A j \in Generations : Closed(j))
  BY <1>9
<1> QED BY <1>6, <1>8, <1>10, <1>11, <1>12, <1>13, <1>14, SettleStep

\* The cleanup of a terminal run.
LEMMA CleanupKeeps ==
  ASSUME IdentityInv, NEW h \in Holders, Cleanup(h)
  PROVE  IdentityInv'
<1> DEFINE g == Remaining(h)
           s == Restored(g)
           k == IF AtWork(h) THEN Other(h) ELSE h
           d == [s EXCEPT !.denied = TRUE]
           takes(x, ask) ==
             /\ mem' = [mem EXCEPT ![h].where = "apart", ![k] = x] /\ act' = [act EXCEPT ![h] = 0, ![k] = act[h]]
             /\ main' = [main EXCEPT ![k] = Resting] /\ rv' = [rv EXCEPT ![k] = [NoRevocation EXCEPT !.ask = ask]]
<1>1. /\ MayCleanUp(h) /\ mem[h].where # "pending" /\ ending' = TRUE
      /\ Lineage # {} /\ Cardinality(Unretired) <= 1
      /\ Unretired # {} \/ InMaps(h) => g \in Lineage
      /\ UNCHANGED <<generation, intent, acked, registry, broker, faults>>
      /\ \/ /\ Unretired = {} /\ ~InMaps(h)
            /\ cleaned' = cleaned \cup {act[h]} /\ UNCHANGED <<act, mem, main, rv>>
         \/ /\ Unretired = {} /\ InMaps(h) /\ takes(s, "no") /\ cleaned' = cleaned \cup {act[h]}
         \/ Unretired # {} /\ takes(d, "due") /\ UNCHANGED cleaned
  BY DEF Cleanup, Cleanable
<1>2. k \in Holders /\ (k = h \/ mem[h].where # "none")
  BY OtherHolder DEF AtWork
<1>3. Unretired = {} => \A j \in Generations : Closed(j)
  BY RetiredIsClosed
<1>4. Unretired # {} => \A j \in Generations : j # g => Closed(j)
  <2>1. Unretired # {} => g \in Unretired
    BY DEF Remaining
  <2> HIDE DEF g
  <2>2. Unretired # {} => Unretired = {g}
    BY <1>1, <2>1, OneUnretired
  <2> QED BY <2>2, RetiredIsClosed
<1>5. ASSUME g \in Lineage
      PROVE  \A x \in {s, d} : /\ x \in Sessions /\ x.where = "session" /\ x.gen = g
                               /\ SessionFine(x, registry[g], broker[g])
  <2> HIDE DEF g
  <2>1. s \in Sessions /\ s.gen = g /\ s.where = "session" /\ SessionFine(s, registry[g], broker[g])
    BY <1>5, RestoredFine
  <2> HIDE DEF s
  <2>2. /\ d \in Sessions /\ d.gen = s.gen /\ d.where = s.where /\ d.ops = s.ops
        /\ d.all = s.all /\ d.ret = s.ret /\ d.cur = s.cur /\ d.rev = s.rev
    BY <2>1 DEF Sessions
  <2> HIDE DEF d
  <2>3. SessionFine(d, registry[g], broker[g])
    BY <2>1, <2>2 DEF SessionFine, Covered, Newest
  <2> QED BY <2>1, <2>2, <2>3
<1> HIDE DEF g, s, d, k
<1>6. CASE /\ Unretired = {} /\ ~InMaps(h)
           /\ cleaned' = cleaned \cup {act[h]} /\ UNCHANGED <<act, mem, main, rv>>
  <2>1. IdentityTypeOK' /\ Owners'
    BY <1>1, <1>6 DEF IdentityInv, IdentityTypeOK, Owners
  <2>2. Still({})'
    <3>1. main[h].pc \notin Acquiring /\ main[h].pc # "replace"
      BY <1>1 DEF MayCleanUp, IdentityInv, HostFine, PlaceFine
    <3> QED BY <1>1, <1>6, <3>1, OwnerStill DEF Still
  <2>3. \A i \in Holders : HostFine(i)'
    BY <1>1, <1>6 DEF IdentityInv, HostFine
  <2>4. \A i \in Holders : Due(i)' => Due(i) /\ mem'[i].gen = mem[i].gen
    BY <1>6 DEF Due
  <2>5. intent' # 0
    BY <1>1, IntentFirst
  <2> QED BY <1>1, <1>3, <1>6, <2>1, <2>2, <2>3, <2>4, <2>5, SettleStep
<1>7. CASE Unretired = {} /\ InMaps(h) /\ takes(s, "no") /\ cleaned' = cleaned \cup {act[h]}
  <2>1. g \in Lineage
    BY <1>1, <1>7
  <2> QED BY <1>1, <1>2, <1>3, <1>5, <1>7, <2>1, TakesPlace
<1>8. CASE Unretired # {} /\ takes(d, "due") /\ UNCHANGED cleaned
  <2>1. g \in Lineage
    BY <1>1, <1>8
  <2> QED BY <1>1, <1>2, <1>4, <1>5, <1>8, <2>1, TakesPlace
<1> QED BY <1>1, <1>6, <1>7, <1>8

-----------------------------------------------------------------------------
(* The invariant and what follows from it. *)

\* Nothing is sealed, live or in memory at the start.
LEMMA IdentityStarts == IdentityInit => IdentityInv
<1> SUFFICES ASSUME IdentityInit PROVE IdentityInv
  OBVIOUS
<1>1. /\ generation = 0 /\ act = [h \in Holders |-> 0] /\ intent = 0 /\ acked = FALSE /\ ending = FALSE
      /\ mem = [h \in Holders |-> NoSession] /\ main = [h \in Holders |-> Resting]
      /\ rv = [h \in Holders |-> NoRevocation] /\ registry = [g \in Generations |-> NoSnapshot]
      /\ broker = [g \in Generations |-> [r \in Roles |-> [state |-> "none", ver |-> 0]]]
      /\ cleaned = {} /\ faults = 0
  BY DEF IdentityInit
<1>2. /\ NoSnapshot \in Snapshots /\ NoSnapshot.rev = 0 /\ NoSnapshot.ops = {}
      /\ NoSnapshot.all = {} /\ NoSnapshot.ret = {} /\ NoSnapshot.phase = "acquiring"
  <2>1. [r \in Roles |-> 0] \in [Roles -> 0 .. MaxVersion]
    OBVIOUS
  <2> QED BY <2>1 DEF NoSnapshot, Snapshots, Phases
<1>3. NoSession \in Sessions /\ Resting \in MainStates /\ NoRevocation \in Revocations
  BY Blank
<1>4. /\ NoSession.where = "none" /\ Resting.pc = "idle" /\ NoRevocation.pc = "none"
      /\ ~NoRevocation.want /\ NoRevocation.ask = "no" /\ ~NoRevocation.cleanup
      /\ PlaceFine(Resting, NoSession, 0) /\ RvFine(NoRevocation, Resting, NoSession)
  BY BlankFine
<1>5. [state |-> "none", ver |-> 0] \in [state : {"none", "live", "gone"}, ver : Nat]
  OBVIOUS
<1>6. IdentityTypeOK
  <2> DEFINE rows == [Roles -> [state : {"none", "live", "gone"}, ver : Nat]]
  <2>1. [r \in Roles |-> [state |-> "none", ver |-> 0]] \in rows
    BY <1>5
  <2> HIDE DEF rows
  <2>2. broker \in [Generations -> rows]
    BY <1>1, <2>1
  <2>3. /\ generation \in 0 .. MaxGeneration /\ intent \in 0 .. MaxGeneration
        /\ cleaned \subseteq 0 .. MaxGeneration /\ faults \in 0 .. MaxFaults
    BY <1>1
  <2>5. {acked, ending} \subseteq BOOLEAN
    BY <1>1
  <2>6. 0 \in 0 .. MaxGeneration
    OBVIOUS
  <2>7. act \in [Holders -> 0 .. MaxGeneration]
    BY <1>1, <2>6
  <2>4. /\ mem \in [Holders -> Sessions] /\ main \in [Holders -> MainStates]
        /\ rv \in [Holders -> Revocations] /\ registry \in [Generations -> Snapshots]
    BY <1>1, <1>2, <1>3
  <2> QED BY <2>2, <2>3, <2>4, <2>5, <2>7 DEF IdentityTypeOK, rows
<1>7. \A g \in Generations, r \in Roles : broker[g][r].state = "none"
  BY <1>1
<1>8. \A h \in Holders : mem[h] = NoSession /\ main[h] = Resting /\ rv[h] = NoRevocation /\ act[h] = 0
  BY <1>1
<1>9. \A g \in Generations : Sealed(registry[g], broker[g])
  <2> SUFFICES ASSUME NEW g \in Generations PROVE Sealed(registry[g], broker[g])
    OBVIOUS
  <2>1. registry[g] = NoSnapshot
    BY <1>1
  <2> QED BY <1>2, <1>7, <2>1 DEF Sealed, Covered, Newest
<1>10. \A h \in Holders : HostFine(h)
  BY <1>4, <1>8 DEF HostFine
<1>11. \A g \in Generations : ~Begun(g)
  BY <1>4, <1>7, <1>8 DEF Begun, Live, Acquiring
<1>12. Owners /\ Exclusive /\ Replacing /\ Cleaning /\ Fresh
  <2>1. Owners
    BY <1>1, <1>8 DEF Owners
  <2>2. Exclusive /\ Replacing /\ Cleaning
    BY <1>1, <1>4, <1>8, <1>11 DEF Exclusive, Replacing, Cleaning, Due
  <2>3. Fresh
    BY <1>1, <1>2, <1>4 DEF Fresh
  <2> QED BY <2>1, <2>2, <2>3
<1> QED BY <1>6, <1>9, <1>10, <1>12 DEF IdentityInv

\* Every step of every host, and every expiry at the broker, keeps it.
LEMMA IdentityKeeps ==
  ASSUME IdentityInv, [IdentityNext]_identityVars
  PROVE  IdentityInv'
<1>1. CASE UNCHANGED identityVars
  <2>1. UNCHANGED <<generation, act, intent, acked, mem, main, rv, registry, broker, ending, cleaned, faults>>
    BY <1>1 DEF identityVars
  <2>2. IdentityTypeOK' /\ Owners' /\ Fresh'
    BY <2>1 DEF IdentityInv, IdentityTypeOK, Owners, Fresh
  <2>7. ASSUME NEW X PROVE Still(X) => Still(X)'
    BY <2>1 DEF Still
  <2>3. \A g \in Generations : (Closed(g) <=> Closed(g)') /\ (Begun(g) <=> Begun(g)')
    BY <2>1 DEF Closed, Begun, Live
  <2>4. Exclusive' /\ Replacing' /\ Cleaning'
    BY <2>1, <2>3, <2>7 DEF IdentityInv, Exclusive, Replacing, Cleaning, ClosedBut, Due
  <2>5. \A h \in Holders : HostFine(h)'
    BY <2>1 DEF IdentityInv, HostFine
  <2>6. \A g \in Generations : Sealed(registry'[g], broker'[g])
    BY <2>1 DEF IdentityInv
  <2> QED BY <2>2, <2>4, <2>5, <2>6 DEF IdentityInv
<1>2. ASSUME NEW h \in Holders,
             \/ Claim(h) \/ ProcessEnds(h) \/ AcquireFresh(h) \/ PersistFirst(h) \/ BeginAcquire(h)
             \/ CallAcquire(h) \/ RemoteAcquires(h) \/ AcquireReturns(h) \/ RecordAcquire(h)
             \/ Activate(h) \/ AcquireFails(h) \/ RollbackEnds(h) \/ RecoverPrior(h) \/ Replace(h)
             \/ RecoverCurrent(h) \/ Reactivate(h)
      PROVE  IdentityInv'
  BY <1>2, ClaimKeeps, ProcessEndsKeeps, AcquireFreshKeeps, PersistFirstKeeps, BeginAcquireKeeps,
     CallAcquireKeeps, RemoteAcquiresKeeps, AcquireReturnsKeeps, RecordAcquireKeeps, ActivateKeeps,
     AcquireFailsKeeps, RollbackEndsKeeps, RecoverPriorKeeps, ReplaceKeeps, RecoverCurrentKeeps,
     ReactivateKeeps
<1>3. ASSUME NEW h \in Holders,
             \/ TickLoses(h) \/ TickRenews(h) \/ BeginRenew(h) \/ CallRenew(h) \/ RenewReturns(h)
             \/ RecordRenew(h) \/ RenewFails(h) \/ Abort(h) \/ BeginRevoke(h)
             \/ (\E mine \in BOOLEAN : StartRevocation(h, mine)) \/ Revoke(h) \/ FinishRevocation(h)
             \/ Cleanup(h) \/ CleanupRefused(h) \/ DenyAcquisition(h) \/ CleanupContinues(h)
      PROVE  IdentityInv'
  BY <1>3, LosesKeeps, TickRenewsKeeps, BeginRenewKeeps, CallRenewKeeps, RenewReturnsKeeps,
     RecordRenewKeeps, RenewFailsKeeps, StartRevocationKeeps, BeginRevokeKeeps, RevokeKeeps,
     FinishRevocationKeeps, CleanupKeeps, CleanupRefusedKeeps, DenyAcquisitionKeeps,
     CleanupContinuesKeeps
<1>4. ASSUME NEW g \in Generations, NEW r \in Roles, Expires(g, r) PROVE IdentityInv'
  BY <1>4, ExpiresKeeps
<1> QED BY <1>1, <1>2, <1>3, <1>4 DEF IdentityNext

\* The inductive invariant of the identities of a run.
THEOREM IdentityInvariant == IdentitySpec => []IdentityInv
BY IdentityStarts, IdentityKeeps, PTL DEF IdentitySpec

\* The sessions, snapshots, activities and leases stay within their types.
THEOREM IdentityTyping == IdentitySpec => []IdentityTypeOK
<1>1. IdentityInv => IdentityTypeOK
  BY DEF IdentityInv
<1> QED BY <1>1, IdentityInvariant, PTL

\* Every lease the broker has live is known to the sealed registry, through
\* every crash, lost reply and failed write of identity-lifecycle.ts.
THEOREM LiveLeasesAreRecorded == IdentitySpec => []LiveIsRecorded
<1>1. IdentityInv => LiveIsRecorded
  <2> SUFFICES ASSUME IdentityInv, NEW g \in Generations, NEW r \in Roles, broker[g][r].state = "live"
               PROVE  \/ \E m \in registry[g].ops : m[2] = r
                      \/ \E v \in 1 .. MaxVersion : <<r, v>> \in registry[g].all \ registry[g].ret
    BY DEF LiveIsRecorded
  <2>1. Covered(registry[g], broker[g])
    BY DEF IdentityInv, Sealed
  <2>2. CASE <<"acquire", r, 0>> \in registry[g].ops
    <3> DEFINE m == <<"acquire", r, 0>>
    <3>1. m[2] = r /\ m \in registry[g].ops
      BY <2>2
    <3> HIDE DEF m
    <3> QED BY <3>1
  <2> QED BY <2>1, <2>2 DEF Covered
<1> QED BY <1>1, IdentityInvariant, PTL

\* The leases of two generations are never live together, whatever becomes of
\* the owner that is replaced.
THEOREM GenerationsDoNotOverlap == IdentitySpec => []OneGenerationLive
<1>1. IdentityInv => OneGenerationLive
  <2> SUFFICES ASSUME IdentityInv, NEW g \in Generations, NEW k \in Generations,
                      NEW r \in Roles, NEW q \in Roles, Live(g, r), Live(k, q)
               PROVE  g = k
    BY DEF OneGenerationLive, Live
  <2>1. Begun(g) /\ Begun(k) /\ ~Closed(g) /\ ~Closed(k)
    BY DEF Begun, Closed
  <2>2. ~(g < k) /\ ~(k < g)
    BY <2>1 DEF IdentityInv, Exclusive
  <2> QED BY <2>2 DEF Generations
<1> QED BY <1>1, IdentityInvariant, PTL

\* A cleanup that reports success leaves nothing live, and nothing can become
\* live after it.
THEOREM CleanupsAreComplete == IdentitySpec => []CleanupIsComplete
<1>1. IdentityInv => CleanupIsComplete
  BY DEF IdentityInv, Cleaning, Closed, Live, CleanupIsComplete
<1> QED BY <1>1, IdentityInvariant, PTL
=============================================================================
