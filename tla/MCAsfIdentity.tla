---------------------------- MODULE MCAsfIdentity ----------------------------
(* The provider identities of a run on a small instance.                   *)
EXTENDS AsfIdentity, TLC
HostSymmetry == Permutations(Hosts)

(* What no later step can tell apart is one state.  Of a session's revision *)
(* only matters whether it is the sealed one; a session that is in no map   *)
(* any more and at rest is gone, and one in the maps that is spent is only  *)
(* there; a role and a lease matter while they are worked on; the two       *)
(* places of a host are alike; and the versions at the broker are read by   *)
(* nobody.                                                                  *)
Free(h) == rv[h].ask = "no" /\ ~rv[h].cleanup
Gone(h) == mem[h].where = "apart" /\ ~AtWork(h) /\ (act[h] = 0 \/ Free(h))
Idles(h) == mem[h].where = "session" /\ Spent(h) /\ Free(h) /\ main[h].pc \in {"idle"} \cup Renewing
Session(h) ==
  CASE Gone(h) -> NoSession
    [] Idles(h) -> [NoSession EXCEPT !.where = "session", !.gen = mem[h].gen]
    [] OTHER -> [mem[h] EXCEPT !.rev = IF mem[h].gen > 0 /\ registry[mem[h].gen].rev = @ THEN 1 ELSE 0]
Doing(h) ==
  IF Gone(h) \/ Idles(h) THEN Resting
  ELSE [main[h] EXCEPT !.role = IF main[h].pc \in {"idle", "replace", "failing", "rollback", "activate",
                                                   "reactivate", "renewFailing"} THEN 1 ELSE @]
Retiring(h) ==
  IF Gone(h) \/ Idles(h) THEN NoRevocation
  ELSE [rv[h] EXCEPT !.lease = IF rv[h].pc = "revoke" THEN @ ELSE <<1, 1>>]
Place(h) == <<act[h], Session(h), Doing(h), Retiring(h)>>
View == <<generation, intent, acked, ending, cleaned, faults,
          [x \in Hosts |-> LET h == IF act[<<x, 2>>] > 0 THEN <<x, 2>> ELSE <<x, 1>>
                           IN <<Place(h), Place(Other(h))>>],
          [g \in Generations |-> [registry[g] EXCEPT !.rev = IF @ > 0 THEN 1 ELSE 0]],
          [g \in Generations |-> [r \in Roles |-> broker[g][r].state]]>>
=============================================================================
