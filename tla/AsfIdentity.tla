----------------------------- MODULE AsfIdentity -----------------------------
(***************************************************************************)
(* The provider identities of one ASF run                                  *)
(* (src/src/asf/identity-lifecycle.ts): leases for the required roles,     *)
(* acquired from a remote broker (src/src/identity/ctxlane-broker.ts),     *)
(* renewed on a timer, and revoked when authority is lost.  Every broker   *)
(* call is bracketed by a marker in a sealed registry                      *)
(* (src/src/identity/protected-lease-registry.ts), so that whoever comes   *)
(* after a crash knows what may be live.                                   *)
(*                                                                         *)
(* A host's controller keeps one session in its maps.  Two activities      *)
(* touch a session: main acquires or renews, role by role, and rv revokes, *)
(* lease by lease; both give up control at every registry write and every  *)
(* broker call.  A cleanup loads a session of its own from the registry;   *)
(* what is still at work on the one it replaces goes on, so that a host    *)
(* has two places for sessions.                                            *)
(*                                                                         *)
(* Abstractions.  A lease is <<role, version>>; renewing it gives the same *)
(* lease at the broker a new version.  Roles are 1 .. NRoles in the order  *)
(* of ASF_REQUIRED_IDENTITY_ROLES.  Profiles, principals and digests agree *)
(* (a malformed answer is retired by the broker's adapter and is the       *)
(* "retired" failure here).  Revocations asked for while one is running    *)
(* are one more pass.  What the controller reads and decides without a     *)
(* wait on the registry's writes or the broker is one step.                *)
(***************************************************************************)
EXTENDS Integers, FiniteSets

CONSTANTS Hosts,
          NRoles,           \* required roles
          MaxGeneration,    \* bound on claims
          MaxVersion,       \* bound on renewals of a lease
          MaxFaults         \* bound on crashes, aborts, expiries, refusals, lost replies, failed writes

ASSUME AsfIdentityAssumption ==
  {NRoles, MaxGeneration, MaxVersion} \subseteq Nat \ {0} /\ MaxFaults \in Nat

Holders == Hosts \X {1, 2}    \* the places for sessions
Other(h) == <<h[1], 3 - h[2]>>

Roles == 1 .. NRoles
Generations == 1 .. MaxGeneration
Leases == Roles \X (1 .. MaxVersion)
Phases == {"acquiring", "active", "revoking", "retired", "failed"}
Markers == {<<"acquire", r, 0>> : r \in Roles}
             \cup ({"renew", "revoke"} \X Roles \X (1 .. MaxVersion))

VARIABLES generation,   \* the durable ownership fence of the run
          act,          \* act[h]: the generation the host works under whose maps hold h, or 0
          intent,       \* generation of the identity intent, 0 if there is none
          acked,        \* the runner holds an acquisition observation
          mem,          \* mem[h]: the session at h
          main,         \* main[h]: its acquisition or renewal
          rv,           \* rv[h]: its revocation
          registry,     \* registry[g]: the sealed snapshot of a generation
          broker,       \* broker[g][r]: the lease as the broker has it
          ending,       \* the terminal plan is sealed and cleanup has begun
          cleaned,      \* cleanups that reported success
          faults

identityVars == <<generation, act, intent, acked, mem, main, rv, registry, broker, ending,
          cleaned, faults>>
fence == <<generation, act, intent, acked, ending>>

NoSession == [where |-> "none", gen |-> 0, st |-> "active", denied |-> FALSE,
              cur |-> [r \in Roles |-> 0], all |-> {}, ret |-> {}, ops |-> {},
              phase |-> "acquiring", rev |-> 0, seen |-> FALSE, timed |-> FALSE]
NoSnapshot == [phase |-> "acquiring", cur |-> [r \in Roles |-> 0], all |-> {},
               ret |-> {}, ops |-> {}, rev |-> 0, seen |-> FALSE]
Resting == [pc |-> "idle", role |-> 1]
NoRevocation == [pc |-> "none", want |-> FALSE, ask |-> "no", todo |-> {}, lease |-> <<1, 1>>,
                 ok |-> TRUE, cleanup |-> FALSE]

\* Where the controller has a session: among the acquisitions under way, among
\* the sessions, or only in the hands of what is at work on it.
Sessions == [where : {"none", "pending", "session", "apart"}, gen : 0 .. MaxGeneration,
             st : {"active", "revoking", "retired", "failed"}, denied : BOOLEAN,
             cur : [Roles -> 0 .. MaxVersion], all : SUBSET Leases, ret : SUBSET Leases,
             ops : SUBSET Markers, phase : Phases, rev : Nat, seen : BOOLEAN, timed : BOOLEAN]
Snapshots == [phase : Phases, cur : [Roles -> 0 .. MaxVersion], all : SUBSET Leases,
              ret : SUBSET Leases, ops : SUBSET Markers, rev : Nat, seen : BOOLEAN]
Renewing == {"renewBegin", "renew", "renewed", "renewRecord", "renewFailing"}
MainStates == [pc : {"idle", "replace", "persist", "begin", "acquire", "acquiring", "acquired",
                     "record", "activate", "failing", "rollback", "reactivate"} \cup Renewing,
               role : Roles]
\* A cleanup waits for an acquisition, then it is due, and then it is the pass
\* under way.
Revocations == [pc : {"none", "next", "revoke", "final"}, want : BOOLEAN,
                ask : {"no", "wait", "due"}, todo : SUBSET Leases, lease : Leases, ok : BOOLEAN,
                cleanup : BOOLEAN]

IdentityTypeOK ==
  /\ generation \in 0 .. MaxGeneration /\ intent \in 0 .. MaxGeneration
  /\ {acked, ending} \subseteq BOOLEAN
  /\ act \in [Holders -> 0 .. MaxGeneration] /\ cleaned \subseteq 0 .. MaxGeneration
  /\ mem \in [Holders -> Sessions] /\ main \in [Holders -> MainStates]
  /\ rv \in [Holders -> Revocations]
  /\ registry \in [Generations -> Snapshots]
  /\ broker \in [Generations -> [Roles -> [state : {"none", "live", "gone"}, ver : Nat]]]
  /\ faults \in 0 .. MaxFaults

IdentityInit ==
  /\ generation = 0 /\ act = [h \in Holders |-> 0] /\ intent = 0 /\ acked = FALSE /\ ending = FALSE
  /\ mem = [h \in Holders |-> NoSession] /\ main = [h \in Holders |-> Resting]
  /\ rv = [h \in Holders |-> NoRevocation]
  /\ registry = [g \in Generations |-> NoSnapshot]
  /\ broker = [g \in Generations |-> [r \in Roles |-> [state |-> "none", ver |-> 0]]]
  /\ cleaned = {} /\ faults = 0

-----------------------------------------------------------------------------
(* The registry. *)

\* #persistSession: what a session writes; a retired lease has no role.
Snapshot(s) ==
  [phase |-> s.phase, all |-> s.all, ret |-> s.ret, ops |-> s.ops, seen |-> s.seen,
   rev |-> s.rev + 1,
   cur |-> [r \in Roles |-> IF <<r, s.cur[r]>> \in s.ret THEN 0 ELSE s.cur[r]]]

\* parseSnapshot, which every write goes through.
WellFormed(n) ==
  /\ \A m \in n.ops : m[1] # "acquire" => <<m[2], m[3]>> \in n.all
  /\ n.phase = "active" => n.seen /\ \A r \in Roles : n.cur[r] # 0
  /\ n.phase = "retired" => n.ops = {} /\ n.all \subseteq n.ret

\* #saveWhileLocked: the revision is compared under an exclusive lock.
CanSave(s) == registry[s.gen].rev = s.rev /\ WellFormed(Snapshot(s))
Saved(s) == [s EXCEPT !.rev = @ + 1]
Save(s) == CanSave(s) /\ registry' = [registry EXCEPT ![s.gen] = Snapshot(s)] /\ UNCHANGED faults

\* A save that reports an error; after the rename the file is there all the same.
SaveFails(s) ==
  \/ ~CanSave(s) /\ UNCHANGED <<registry, faults>>
  \/ /\ faults < MaxFaults /\ faults' = faults + 1
     /\ \/ UNCHANGED registry
        \/ CanSave(s) /\ registry' = [registry EXCEPT ![s.gen] = Snapshot(s)]

Lineage == {g \in Generations : registry[g].rev > 0}
Unretired == {g \in Lineage : registry[g].phase # "retired"}

\* #sessionFromProtectedSnapshot.
Restored(g) ==
  LET n == registry[g]
      active == n.phase \in {"active", "acquiring"}
  IN [where |-> "session", gen |-> g, cur |-> n.cur, all |-> n.all, ret |-> n.ret, ops |-> n.ops,
      phase |-> n.phase, rev |-> n.rev, seen |-> n.seen, timed |-> FALSE, denied |-> ~active,
      st |-> IF active THEN "active" ELSE IF n.phase = "retired" THEN "retired" ELSE "failed"]

\* The leases a session has for its roles.
Current(s) == {<<r, s.cur[r]>> : r \in {q \in Roles : s.cur[q] # 0}}

\* #hasCompleteCurrentLeaseSet.
Complete(s) == (\A r \in Roles : s.cur[r] # 0) /\ s.all \subseteq s.ret \cup Current(s)

\* The bound on renewals.
Renewable(s) == \A r \in Roles : s.cur[r] < MaxVersion

\* #assertProtectedPriorLeases: which histories may be retired at all.
Retirable(s) ==
  /\ s.all \subseteq s.ret \cup Current(s)
  /\ s.phase # "retired" => Current(s) \cap s.ret = {}
  /\ CASE s.phase = "acquiring" ->
            /\ ~s.seen /\ s.ops = {} /\ s.ret = {} /\ s.all = Current(s)
            /\ \A r \in Roles : s.cur[r] # 0 <=> r <= Cardinality(Current(s))
       [] s.phase = "retired" -> s.ops = {} /\ s.all \subseteq s.ret
       [] s.phase = "failed" -> FALSE
       [] OTHER -> /\ \A r \in Roles : \E v \in 1 .. MaxVersion : <<r, v>> \in s.all
                   /\ s.phase = "active" => Complete(s)

-----------------------------------------------------------------------------
(* Ownership. *)

\* #isCurrent.
IsCurrent(g) == g = generation

\* A host claims the run when its worker is through with the calls it waits for;
\* timers and revocations may be at work.
Claim(h) ==
  /\ generation < MaxGeneration /\ cleaned = {}
  /\ act[h] > 0 \/ (h[2] = 1 /\ act[Other(h)] = 0)
  /\ main[h].pc \in {"idle"} \cup Renewing /\ rv[h].ask = "no" /\ ~rv[h].cleanup
  /\ generation' = generation + 1 /\ act' = [act EXCEPT ![h] = generation + 1]
  /\ UNCHANGED <<intent, acked, ending, mem, main, rv, registry, broker, cleaned, faults>>

\* The process ends and another one takes its place: the next claim's, or one
\* that goes on under the same generation.
ProcessEnds(h) ==
  /\ faults < MaxFaults /\ faults' = faults + 1 /\ act[h] > 0
  /\ \E k \in {h, Other(h)} : mem[k].where # "none"
  /\ mem' = [mem EXCEPT ![h] = NoSession, ![Other(h)] = NoSession]
  /\ main' = [main EXCEPT ![h] = Resting, ![Other(h)] = Resting]
  /\ rv' = [rv EXCEPT ![h] = NoRevocation, ![Other(h)] = NoRevocation]
  /\ UNCHANGED <<fence, registry, broker, cleaned>>

-----------------------------------------------------------------------------
(* The broker. *)

RemoteAcquire(g, r) == [broker EXCEPT ![g][r] = [state |-> "live", ver |-> 1]]
RemoteRenew(g, r) == [broker EXCEPT ![g][r].ver = @ + 1]
RemoteRevoke(g, r) == [broker EXCEPT ![g][r].state = "gone"]
Strikes == faults < MaxFaults /\ faults' = faults + 1

\* A lease runs out.
Expires(g, r) ==
  /\ broker[g][r].state = "live" /\ Strikes
  /\ broker' = RemoteRevoke(g, r)
  /\ UNCHANGED <<fence, mem, main, rv, registry, cleaned>>

-----------------------------------------------------------------------------
(* Acquisition. *)

Goes(h, pc) == main' = [main EXCEPT ![h].pc = pc]
Sets(h, s) == mem' = [mem EXCEPT ![h] = s]
AsksToRevoke(h) == rv' = [rv EXCEPT ![h].want = TRUE]
NewSession(h) == [NoSession EXCEPT !.where = "pending", !.gen = act[h]]
StartsAcquisition(h) == Sets(h, NewSession(h)) /\ main' = [main EXCEPT ![h] = [pc |-> "persist", role |-> 1]]

\* An acquisition is denied by its session, or by a cleanup that waits for it.
Denied(h) == mem[h].denied \/ rv[h].ask = "wait"

\* acquireRequiredRoles under a new intent: #acquireFreshSession.
AcquireFresh(h) ==
  /\ main[h].pc = "idle" /\ mem[h].where = "none" /\ act[h] > 0 /\ IsCurrent(act[h])
  /\ intent = 0 /\ ~ending /\ intent' = act[h] /\ StartsAcquisition(h)
  /\ UNCHANGED <<generation, act, acked, ending, rv, registry, broker, cleaned, faults>>

\* The first write of a session.
PersistFirst(h) ==
  LET s == mem[h]
  IN /\ main[h].pc = "persist"
     /\ \/ Save(s) /\ Sets(h, Saved(s)) /\ Goes(h, "begin")
        \/ SaveFails(s) /\ Goes(h, "failing") /\ UNCHANGED mem
     /\ UNCHANGED <<fence, rv, broker, cleaned>>

\* Mutant: the marker is written only when the broker has answered.
BeginAcquireUnmarked(h) ==
  /\ main[h].pc = "begin"
  /\ IF Denied(h) THEN Goes(h, "failing") ELSE Goes(h, "acquire")
  /\ mem' = [mem EXCEPT ![h].ops = @ \cup {<<"acquire", main[h].role, 0>>}]
  /\ UNCHANGED <<fence, rv, registry, broker, cleaned, faults>>

\* #beginProtectedOperation for an acquisition.
BeginAcquire(h) ==
  LET s == [mem[h] EXCEPT !.ops = @ \cup {<<"acquire", main[h].role, 0>>}]
  IN /\ main[h].pc = "begin"
     /\ \/ Denied(h) /\ Goes(h, "failing") /\ UNCHANGED <<mem, registry, faults>>
        \/ ~Denied(h) /\ Save(s) /\ Sets(h, Saved(s)) /\ Goes(h, "acquire")
        \/ ~Denied(h) /\ SaveFails(s) /\ Goes(h, "failing") /\ UNCHANGED mem
     /\ UNCHANGED <<fence, rv, broker, cleaned>>

Unmarked(s, m) == [s EXCEPT !.ops = @ \ {m}]

\* A definitive failure of the broker takes the marker away; when that cannot
\* be written the marker stays.
Definitive(h, s, m, pc) ==
  /\ Goes(h, pc)
  /\ \/ Save(Unmarked(s, m)) /\ Sets(h, Saved(Unmarked(s, m)))
     \/ SaveFails(Unmarked(s, m)) /\ Sets(h, s)

\* A definitive refusal by ctxlane, whose marker is taken away if the session
\* may still write.
Refused(h, m) ==
  LET s == Unmarked(mem[h], m)
  IN /\ Strikes
     /\ IF CanSave(s) THEN registry' = [registry EXCEPT ![s.gen] = Snapshot(s)] /\ Sets(h, Saved(s))
        ELSE UNCHANGED <<registry, mem>>

\* acquire of the broker: the fence is read before anything is sent.
CallAcquire(h) ==
  LET s == mem[h]
  IN /\ main[h].pc = "acquire"
     /\ \/ IsCurrent(s.gen) /\ Goes(h, "acquiring") /\ UNCHANGED <<mem, registry, faults>>
        \/ ~IsCurrent(s.gen) /\ Definitive(h, s, <<"acquire", main[h].role, 0>>, "failing")
     /\ UNCHANGED <<fence, rv, broker, cleaned>>

\* ctxlane grants the lease or refuses it; the reply may be lost.
RemoteAcquires(h) ==
  LET s == mem[h]
      r == main[h].role
  IN /\ main[h].pc = "acquiring"
     /\ \/ broker' = RemoteAcquire(s.gen, r) /\ Goes(h, "acquired") /\ UNCHANGED <<mem, registry, faults>>
        \/ broker' \in {broker, RemoteAcquire(s.gen, r)} /\ Strikes /\ Goes(h, "failing")
             /\ UNCHANGED <<mem, registry>>
        \/ UNCHANGED broker /\ Refused(h, <<"acquire", r, 0>>) /\ Goes(h, "failing")
     /\ UNCHANGED <<fence, rv, cleaned>>

\* #assertCurrentOrRevoke, then the lease is kept in memory.
AcquireReturns(h) ==
  LET s == mem[h]
      r == main[h].role
  IN /\ main[h].pc = "acquired"
     /\ \/ /\ IsCurrent(s.gen)
           /\ Sets(h, [s EXCEPT !.cur[r] = 1, !.all = @ \cup {<<r, 1>>}])
           /\ Goes(h, "record") /\ UNCHANGED <<registry, broker, faults>>
        \/ /\ ~IsCurrent(s.gen) /\ broker' = RemoteRevoke(s.gen, r)
           /\ Definitive(h, s, <<"acquire", r, 0>>, "failing")
        \/ /\ ~IsCurrent(s.gen) /\ broker' \in {broker, RemoteRevoke(s.gen, r)} /\ Strikes
           /\ Goes(h, "failing") /\ UNCHANGED <<mem, registry>>
     /\ UNCHANGED <<fence, rv, cleaned>>

\* #completeProtectedOperation, and on to the next role.
RecordAcquire(h) ==
  LET s == Unmarked(mem[h], <<"acquire", main[h].role, 0>>)
  IN /\ main[h].pc = "record"
     /\ \/ /\ Save(s) /\ Sets(h, Saved(s))
           /\ main' = [main EXCEPT ![h] =
                         IF Denied(h) THEN [@ EXCEPT !.pc = "failing"]
                         ELSE IF @.role < NRoles THEN [pc |-> "begin", role |-> @.role + 1]
                         ELSE [@ EXCEPT !.pc = "activate"]]
        \/ SaveFails(s) /\ Goes(h, "failing") /\ UNCHANGED mem
     /\ UNCHANGED <<fence, rv, broker, cleaned>>

\* The end of #acquire: the fence and the denial are looked at once more, and
\* again nothing after the write, so that a cleanup that comes during the write
\* finds the acquisition made.
Activate(h) ==
  LET t == [mem[h] EXCEPT !.seen = TRUE, !.phase = "active"]
      s == [t EXCEPT !.where = "session", !.timed = TRUE]
  IN /\ main[h].pc = "activate"
     /\ \/ /\ ~IsCurrent(s.gen) \/ Denied(h)
           /\ Goes(h, "failing") /\ UNCHANGED <<mem, registry, faults, acked>>
        \/ /\ IsCurrent(s.gen) /\ ~s.denied /\ Save(s)
           /\ Sets(h, Saved(s)) /\ Goes(h, "idle") /\ acked' = TRUE
        \/ /\ IsCurrent(s.gen) /\ ~s.denied /\ SaveFails(s) /\ Sets(h, t) /\ Goes(h, "failing")
           /\ UNCHANGED acked
     /\ UNCHANGED <<generation, act, intent, ending, rv, broker, cleaned>>

\* The rollback of a failed acquisition, which is part of it; a session that
\* holds nothing is forgotten, but by a cleanup that waits.
AcquireFails(h) ==
  LET s == mem[h]
      holds == Current(s) # {} \/ s.ops # {}
  IN /\ main[h].pc = "failing"
     /\ \/ holds /\ Goes(h, "rollback") /\ AsksToRevoke(h) /\ UNCHANGED mem
        \/ /\ ~holds /\ rv[h].pc = "none" /\ ~rv[h].want /\ Goes(h, "idle") /\ UNCHANGED rv
           /\ Sets(h, IF rv[h].ask = "wait" THEN [s EXCEPT !.where = "apart"] ELSE NoSession)
     /\ UNCHANGED <<fence, registry, broker, cleaned, faults>>

\* The rollback is through: the acquisition is no longer under way.
RollbackEnds(h) ==
  /\ main[h].pc = "rollback" /\ rv[h].pc = "none" /\ ~rv[h].want
  /\ Goes(h, "idle") /\ Sets(h, [mem[h] EXCEPT !.where = "session"])
  /\ UNCHANGED <<fence, rv, registry, broker, cleaned, faults>>

-----------------------------------------------------------------------------
(* Recovery: acquireRequiredRoles under an intent that is already there. *)

\* #recoverProtectedSession: the snapshot of the current generation, or else
\* that of the intent's, and no other that is not retired.
Selected(h) == IF act[h] \in Lineage THEN act[h] ELSE intent
CanRecover(h) ==
  LET g == Selected(h)
  IN /\ main[h].pc = "idle" /\ mem[h].where = "none" /\ rv[h].pc = "none"
     /\ act[h] > 0 /\ ~ending
     /\ intent > 0 /\ ~acked /\ g \in Lineage /\ (g = act[h] \/ intent < act[h])
     /\ Unretired \subseteq {g} /\ \A k \in Lineage : k <= act[h]
     /\ g # act[h] => \A k \in Lineage : k <= intent

\* #replacePriorGenerationSession: retire the earlier generation, then acquire.
RecoverPrior(h) ==
  LET s == Restored(Selected(h))
  IN /\ CanRecover(h) /\ s.gen < act[h]
     /\ \/ /\ s.ops # {}
           /\ Sets(h, [s EXCEPT !.denied = TRUE, !.st = "failed"]) /\ UNCHANGED <<main, rv>>
        \/ /\ s.ops = {} /\ (~IsCurrent(act[h]) \/ ~Retirable(s))
           /\ Sets(h, s) /\ UNCHANGED <<main, rv>>
        \/ /\ s.ops = {} /\ IsCurrent(act[h]) /\ Retirable(s) /\ s.phase # "retired"
           /\ Sets(h, s) /\ Goes(h, "replace") /\ AsksToRevoke(h)
        \/ /\ s.ops = {} /\ IsCurrent(act[h]) /\ s.phase = "retired"
           /\ StartsAcquisition(h) /\ UNCHANGED rv
     /\ UNCHANGED <<fence, registry, broker, cleaned, faults>>

\* Mutant: the new generation is acquired whatever became of the old one.
ReplaceUnchecked(h) ==
  /\ main[h].pc = "replace" /\ rv[h].pc = "none" /\ ~rv[h].want /\ StartsAcquisition(h)
  /\ UNCHANGED <<fence, rv, registry, broker, cleaned, faults>>

\* The end of a replacement: every earlier lease must be retired, and the host
\* still be the owner.
Replace(h) ==
  /\ main[h].pc = "replace" /\ rv[h].pc = "none" /\ ~rv[h].want
  /\ \/ mem[h].st = "retired" /\ IsCurrent(act[h]) /\ StartsAcquisition(h)
     \/ (mem[h].st # "retired" \/ ~IsCurrent(act[h])) /\ Goes(h, "idle") /\ UNCHANGED mem
  /\ UNCHANGED <<fence, rv, registry, broker, cleaned, faults>>

\* The snapshot is of the host's own generation, and the fence is read once: an
\* active set is proved live by renewing it, a complete one is activated, other
\* leases are retired, and the rest is left as it is.
RecoverCurrent(h) ==
  LET s == Restored(Selected(h))
      whole == Complete(s) /\ s.phase \in {"active", "acquiring"}
      lost == s.phase # "retired" /\ ~whole /\ s.all # {}
  IN /\ CanRecover(h) /\ s.gen = act[h]
     /\ \/ /\ s.ops # {}
           /\ Sets(h, [s EXCEPT !.denied = TRUE, !.st = "failed"]) /\ UNCHANGED <<main, rv>>
        \/ /\ s.ops = {} /\ (~IsCurrent(act[h]) \/ lost)
           /\ Sets(h, [s EXCEPT !.denied = TRUE]) /\ AsksToRevoke(h) /\ UNCHANGED main
        \/ /\ s.ops = {} /\ IsCurrent(act[h]) /\ whole /\ s.phase = "active" /\ Renewable(s)
           /\ Sets(h, s) /\ main' = [main EXCEPT ![h] = [pc |-> "renewBegin", role |-> 1]]
           /\ UNCHANGED rv
        \/ /\ s.ops = {} /\ IsCurrent(act[h]) /\ whole /\ s.phase = "acquiring"
           /\ Sets(h, s) /\ Goes(h, "reactivate") /\ UNCHANGED rv
        \/ /\ s.ops = {} /\ IsCurrent(act[h]) /\ ~whole /\ ~lost
           /\ Sets(h, s) /\ UNCHANGED <<main, rv>>
     /\ UNCHANGED <<fence, registry, broker, cleaned, faults>>

\* The activation of a complete set: neither the fence nor a denial is looked at
\* any more, and nothing is rolled back when the write fails.
Reactivate(h) ==
  LET t == [mem[h] EXCEPT !.seen = TRUE, !.phase = "active"]
      s == [t EXCEPT !.st = "active", !.denied = FALSE, !.timed = TRUE]
  IN /\ main[h].pc = "reactivate" /\ Goes(h, "idle")
     /\ \/ Save(s) /\ Sets(h, Saved(s)) /\ acked' = TRUE
        \/ SaveFails(s) /\ Sets(h, t) /\ UNCHANGED acked
     /\ UNCHANGED <<generation, act, intent, ending, rv, broker, cleaned>>

-----------------------------------------------------------------------------
(* The timer: #tick and #renewAllRoles. *)

Usable(h) ==
  /\ mem[h].where \in {"session", "apart"} /\ mem[h].st = "active" /\ ~mem[h].denied
  /\ rv[h].ask # "wait"

\* #loseAuthority.
Loses(h) == mem' = [mem EXCEPT ![h].denied = TRUE] /\ AsksToRevoke(h)

\* A tick, a use of a lease or a late fence check finds the authority gone.
TickLoses(h) ==
  /\ Usable(h)
  /\ \/ mem[h].timed /\ main[h].pc = "idle"
     \/ mem[h].where = "session" /\ mem[h].gen = act[h]
  /\ ~IsCurrent(mem[h].gen) \/ \E r \in Roles : broker[mem[h].gen][r].state = "gone"
  /\ Loses(h)
  /\ UNCHANGED <<fence, main, registry, broker, cleaned, faults>>

TickRenews(h) ==
  /\ Usable(h) /\ mem[h].timed /\ main[h].pc = "idle" /\ IsCurrent(mem[h].gen)
  /\ Renewable(mem[h])
  /\ main' = [main EXCEPT ![h] = [pc |-> "renewBegin", role |-> 1]]
  /\ UNCHANGED <<fence, mem, rv, registry, broker, cleaned, faults>>

RenewMarker(h) == <<"renew", main[h].role, mem[h].cur[main[h].role]>>

BeginRenew(h) ==
  LET s == [mem[h] EXCEPT !.ops = @ \cup {RenewMarker(h)}]
      may == mem[h].st = "active" /\ ~mem[h].denied
  IN /\ main[h].pc = "renewBegin"
     /\ \/ ~may /\ Goes(h, "renewFailing") /\ UNCHANGED <<mem, registry, faults>>
        \/ may /\ Save(s) /\ Sets(h, Saved(s)) /\ Goes(h, "renew")
        \/ may /\ SaveFails(s) /\ Goes(h, "renewFailing") /\ UNCHANGED mem
     /\ UNCHANGED <<fence, rv, broker, cleaned>>

\* renew of the broker.
CallRenew(h) ==
  LET s == mem[h]
      r == main[h].role
      m == RenewMarker(h)
      gone == [s EXCEPT !.ret = @ \cup {<<r, s.cur[r]>>}]
  IN /\ main[h].pc = "renew"
     /\ \/ ~IsCurrent(s.gen) /\ Definitive(h, s, m, "renewFailing") /\ UNCHANGED broker
        \/ /\ IsCurrent(s.gen) /\ broker[s.gen][r].state = "live"
           /\ broker' = RemoteRenew(s.gen, r) /\ Goes(h, "renewed") /\ UNCHANGED <<mem, registry, faults>>
        \/ /\ IsCurrent(s.gen) /\ broker[s.gen][r].state # "live"
           /\ Definitive(h, gone, m, "renewFailing") /\ UNCHANGED broker
        \/ /\ IsCurrent(s.gen) /\ broker[s.gen][r].state = "live" /\ Strikes
           /\ broker' \in {broker, RemoteRenew(s.gen, r)}
           /\ Goes(h, "renewFailing") /\ UNCHANGED <<mem, registry>>
     /\ UNCHANGED <<fence, rv, cleaned>>

RenewReturns(h) ==
  LET s == mem[h]
      r == main[h].role
      new == s.cur[r] + 1
      gone == [s EXCEPT !.ret = @ \cup {<<r, s.cur[r]>>}]
  IN /\ main[h].pc = "renewed"
     /\ \/ /\ IsCurrent(s.gen)
           /\ Sets(h, [gone EXCEPT !.cur[r] = new, !.all = @ \cup {<<r, new>>}])
           /\ Goes(h, "renewRecord") /\ UNCHANGED <<registry, broker, faults>>
        \/ /\ ~IsCurrent(s.gen) /\ broker' = RemoteRevoke(s.gen, r)
           /\ Definitive(h, gone, RenewMarker(h), "renewFailing")
        \/ /\ ~IsCurrent(s.gen) /\ broker' \in {broker, RemoteRevoke(s.gen, r)} /\ Strikes
           /\ Goes(h, "renewFailing") /\ UNCHANGED <<mem, registry>>
     /\ UNCHANGED <<fence, rv, cleaned>>

RecordRenew(h) ==
  LET r == main[h].role
      lost == mem[h].denied \/ mem[h].st # "active"
      s == [Unmarked(mem[h], <<"renew", r, mem[h].cur[r] - 1>>)
              EXCEPT !.timed = @ \/ (~lost /\ r = NRoles)]
  IN /\ main[h].pc = "renewRecord"
     /\ \/ /\ Save(s) /\ Sets(h, Saved(s))
           /\ main' = [main EXCEPT ![h] =
                         IF lost THEN [@ EXCEPT !.pc = "renewFailing"]
                         ELSE IF r < NRoles THEN [pc |-> "renewBegin", role |-> r + 1]
                         ELSE Resting]
           /\ acked' = (acked \/ (~lost /\ r = NRoles))
        \/ SaveFails(s) /\ Goes(h, "renewFailing") /\ UNCHANGED <<mem, acked>>
     /\ UNCHANGED <<generation, act, intent, ending, rv, broker, cleaned>>

\* The catch of #tick.
RenewFails(h) ==
  /\ main[h].pc = "renewFailing" /\ Goes(h, "idle") /\ Loses(h)
  /\ UNCHANGED <<fence, registry, broker, cleaned, faults>>

\* #abortBinding: the run's signal fires.
Abort(h) ==
  /\ mem[h].where \in {"pending", "session"} /\ ~mem[h].denied /\ Loses(h) /\ Strikes
  /\ UNCHANGED <<fence, main, registry, broker, cleaned>>

-----------------------------------------------------------------------------
(* #performRevocation. *)

\* Denial first, then the phase, then the leases there are by now.  The pass is
\* the one a cleanup is due, or one that something else asked for.
StartRevocation(h, mine) ==
  LET s == [mem[h] EXCEPT !.denied = TRUE, !.st = "revoking", !.phase = "revoking"]
      start(ok) == rv' = [rv EXCEPT ![h] =
                            [@ EXCEPT !.pc = "next", !.todo = s.all \ s.ret, !.ok = ok,
                                      !.cleanup = mine, !.want = mine /\ rv[h].want,
                                      !.ask = IF mine THEN "no" ELSE rv[h].ask]]
  IN /\ rv[h].pc = "none" /\ IF mine THEN rv[h].ask = "due" ELSE rv[h].want
     /\ \/ Save(s) /\ Sets(h, Saved(s)) /\ start(TRUE)
        \/ SaveFails(s) /\ Sets(h, s) /\ start(FALSE)
     /\ UNCHANGED <<fence, main, broker, cleaned>>

BeginRevoke(h) ==
  /\ rv[h].pc = "next"
  /\ \/ rv[h].todo = {} /\ rv' = [rv EXCEPT ![h].pc = "final"] /\ UNCHANGED <<mem, registry, faults>>
     \/ \E l \in rv[h].todo :
          LET s == [mem[h] EXCEPT !.ops = @ \cup {<<"revoke", l[1], l[2]>>}]
          IN /\ \A x \in rv[h].todo : l[1] < x[1] \/ (l[1] = x[1] /\ l[2] <= x[2])
             /\ \/ Save(s) /\ Sets(h, Saved(s))
                   /\ rv' = [rv EXCEPT ![h].pc = "revoke", ![h].lease = l, ![h].todo = @ \ {l}]
                \/ SaveFails(s) /\ UNCHANGED mem
                   /\ rv' = [rv EXCEPT ![h].todo = @ \ {l}, ![h].ok = FALSE]
  /\ UNCHANGED <<fence, main, broker, cleaned>>

\* The revocation, whose failure may be definitive or not, and its record.
Revoke(h) ==
  LET l == rv[h].lease
      m == <<"revoke", l[1], l[2]>>
      done == [mem[h] EXCEPT !.ret = @ \cup {l}]
      after(ok) == rv' = [rv EXCEPT ![h].pc = "next", ![h].ok = @ /\ ok]
      records(s, ok) == \/ Save(Unmarked(s, m)) /\ Sets(h, Saved(Unmarked(s, m))) /\ after(ok)
                        \/ SaveFails(Unmarked(s, m)) /\ Sets(h, s) /\ after(FALSE)
  IN /\ rv[h].pc = "revoke"
     /\ \/ broker' = RemoteRevoke(mem[h].gen, l[1]) /\ records(done, TRUE)
        \/ UNCHANGED broker /\ Refused(h, m) /\ after(FALSE)
        \/ broker' \in {broker, RemoteRevoke(mem[h].gen, l[1])} /\ Strikes /\ after(FALSE)
             /\ UNCHANGED <<mem, registry>>
     /\ UNCHANGED <<fence, main, cleaned>>

\* The verdict, and for a cleanup its report.
FinishRevocation(h) ==
  LET whole == rv[h].ok /\ mem[h].ops = {} /\ mem[h].all \subseteq mem[h].ret
      end == IF whole THEN "retired" ELSE "failed"
      s == [mem[h] EXCEPT !.st = end, !.phase = end]
      ends == rv' = [rv EXCEPT ![h] = [NoRevocation EXCEPT !.want = rv[h].want, !.ask = rv[h].ask]]
  IN /\ rv[h].pc = "final" /\ ends
     /\ \/ /\ Save(s) /\ Sets(h, Saved(s))
           /\ cleaned' = IF whole /\ rv[h].cleanup THEN cleaned \cup {act[h]} ELSE cleaned
        \/ SaveFails(s) /\ Sets(h, [s EXCEPT !.st = "failed", !.phase = "failed"]) /\ UNCHANGED cleaned
     /\ UNCHANGED <<fence, main, broker>>

-----------------------------------------------------------------------------
(* #explicitRevoke: the cleanup of a terminal run. *)

InMaps(h) == mem[h].where = "session"

\* #sameProtectedSessionState.
Agrees(h, g) == InMaps(h) => Snapshot([mem[h] EXCEPT !.rev = @ - 1]) = registry[g] /\ mem[h].gen = g

\* The owner asks for one cleanup at a time, and not while the same controller
\* retires the leases of an earlier generation.
MayCleanUp(h) ==
  /\ act[h] > 0 /\ IsCurrent(act[h]) /\ rv[h].ask = "no" /\ ~rv[h].cleanup
  /\ main[h].pc # "replace"

\* A session behind what is sealed, with no call at the broker, writes nothing
\* more and calls nobody: what runs on it is without effect.
Spent(h) ==
  /\ mem[h].where # "none" /\ mem[h].rev # registry[mem[h].gen].rev
  /\ main[h].pc \notin {"acquire", "acquiring", "acquired", "renew", "renewed"} /\ rv[h].pc # "revoke"

\* Something goes on at h: it acquires, renews or revokes, or its timer is set.
AtWork(h) ==
  /\ mem[h].where # "none" /\ ~Spent(h)
  /\ \/ main[h].pc # "idle" \/ rv[h] # NoRevocation
     \/ mem[h].timed /\ mem[h].st = "active" /\ ~mem[h].denied

\* #loadExplicitRevocationSession: nothing may be sealed for a later generation,
\* at most one generation may be unretired, no marker may be open, and memory
\* must agree with what is sealed.
Remaining(h) == IF Unretired # {} THEN CHOOSE k \in Unretired : TRUE ELSE mem[h].gen
Cleanable(h) ==
  LET g == Remaining(h)
  IN /\ Lineage # {} /\ Cardinality(Unretired) <= 1 /\ \A k \in Lineage : k <= act[h]
     /\ Unretired # {} \/ InMaps(h) =>
          g \in Lineage /\ registry[g].ops = {} /\ Retirable(Restored(g)) /\ Agrees(h, g)

\* Mutant: the session in memory is trusted, and the lineage not read.
CleanupFromMemory(h) ==
  /\ MayCleanUp(h) /\ mem[h].where # "pending" /\ ending' = TRUE
  /\ \/ mem[h].where = "none" /\ cleaned' = cleaned \cup {act[h]} /\ UNCHANGED <<mem, rv>>
     \/ /\ InMaps(h) /\ mem[h].st = "active" /\ UNCHANGED <<mem, cleaned>>
        /\ rv' = [rv EXCEPT ![h].ask = "due"]
  /\ UNCHANGED <<generation, act, intent, acked, main, registry, broker, faults>>

\* No acquisition is under way.  What the lineage leaves to retire is loaded as
\* a session of its own, which takes the place of the one in the maps; that one
\* is dropped unless something is at work on it.
Cleanup(h) ==
  LET s == Restored(Remaining(h))
      k == IF AtWork(h) THEN Other(h) ELSE h
      takes(x, ask) ==
        /\ ~AtWork(k)
        /\ mem' = [mem EXCEPT ![h].where = "apart", ![k] = x] /\ act' = [act EXCEPT ![h] = 0, ![k] = act[h]]
        /\ main' = [main EXCEPT ![k] = Resting] /\ rv' = [rv EXCEPT ![k] = [NoRevocation EXCEPT !.ask = ask]]
  IN /\ MayCleanUp(h) /\ mem[h].where # "pending" /\ ending' = TRUE /\ Cleanable(h)
     /\ \/ /\ Unretired = {} /\ ~InMaps(h)
           /\ cleaned' = cleaned \cup {act[h]} /\ UNCHANGED <<act, mem, main, rv>>
        \/ /\ Unretired = {} /\ InMaps(h) /\ takes(s, "no") /\ cleaned' = cleaned \cup {act[h]}
        \/ Unretired # {} /\ takes([s EXCEPT !.denied = TRUE], "due") /\ UNCHANGED cleaned
     /\ UNCHANGED <<generation, intent, acked, registry, broker, faults>>

\* The lineage contradicts, or cannot be read: the session in the maps is denied.
CleanupRefused(h) ==
  /\ MayCleanUp(h) /\ mem[h].where # "pending" /\ ending' = TRUE
  /\ (~Cleanable(h) /\ UNCHANGED faults) \/ Strikes
  /\ mem' = IF InMaps(h) THEN [mem EXCEPT ![h].denied = TRUE, ![h].st = "failed"] ELSE mem
  /\ UNCHANGED <<generation, act, intent, acked, main, rv, registry, broker, cleaned>>

\* A cleanup that comes during an acquisition denies it and waits for its end.
DenyAcquisition(h) ==
  /\ MayCleanUp(h) /\ mem[h].where = "pending" /\ ending' = TRUE
  /\ rv' = [rv EXCEPT ![h].ask = "wait"]
  /\ UNCHANGED <<generation, act, intent, acked, mem, main, registry, broker, cleaned, faults>>

\* It then goes on with the session in memory, without a look at the lineage.
CleanupContinues(h) ==
  LET may == mem[h].ops = {} /\ Retirable(mem[h])
  IN /\ rv[h].ask = "wait" /\ main[h].pc = "idle"
     /\ \/ ~may /\ rv' = [rv EXCEPT ![h].ask = "no"] /\ UNCHANGED mem
        \/ may /\ rv' = [rv EXCEPT ![h].ask = "due"] /\ mem' = [mem EXCEPT ![h].denied = TRUE]
     /\ UNCHANGED <<fence, main, registry, broker, cleaned, faults>>

IdentityNext ==
  \/ \E h \in Holders :
       \/ Claim(h) \/ ProcessEnds(h) \/ AcquireFresh(h) \/ PersistFirst(h) \/ BeginAcquire(h)
       \/ CallAcquire(h) \/ RemoteAcquires(h) \/ AcquireReturns(h) \/ RecordAcquire(h)
       \/ Activate(h) \/ AcquireFails(h) \/ RollbackEnds(h)
       \/ RecoverPrior(h) \/ Replace(h) \/ RecoverCurrent(h) \/ Reactivate(h)
       \/ TickLoses(h) \/ TickRenews(h) \/ BeginRenew(h) \/ CallRenew(h) \/ RenewReturns(h)
       \/ RecordRenew(h) \/ RenewFails(h) \/ Abort(h) \/ BeginRevoke(h)
       \/ (\E mine \in BOOLEAN : StartRevocation(h, mine)) \/ Revoke(h) \/ FinishRevocation(h)
       \/ Cleanup(h) \/ CleanupRefused(h) \/ DenyAcquisition(h) \/ CleanupContinues(h)
  \/ \E g \in Generations, r \in Roles : Expires(g, r)
IdentitySpec == IdentityInit /\ [][IdentityNext]_identityVars

-----------------------------------------------------------------------------
(* Properties. *)

\* Every lease the broker has live is known to the sealed registry: as one that
\* is not retired, or through the marker of an operation nobody may repeat.
\* Whoever comes after a crash, a lost reply or a failed write finds it.
LiveIsRecorded ==
  \A g \in Generations, r \in Roles :
    broker[g][r].state = "live" =>
      \/ \E m \in registry[g].ops : m[2] = r
      \/ \E v \in 1 .. MaxVersion : <<r, v>> \in registry[g].all \ registry[g].ret

\* The leases of two generations are never live together: a new owner retires
\* its predecessor's first, also when the predecessor is still running.
OneGenerationLive ==
  \A g, k \in Generations : \A r, q \in Roles :
    broker[g][r].state = "live" /\ broker[k][q].state = "live" => g = k

\* A cleanup reports success only when no lease of the run is live any more.
CleanupIsComplete ==
  cleaned # {} => \A g \in Generations, r \in Roles : broker[g][r].state # "live"
=============================================================================
