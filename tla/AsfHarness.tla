----------------------------- MODULE AsfHarness -----------------------------
(***************************************************************************)
(* One provider invocation of an ASF run: the trusted harness              *)
(* (src/src/agent/trusted-harness.ts) races the host transport of the      *)
(* provider against its deadline, the cancellation of the run and a        *)
(* watchdog of the ownership fence, while the provider calls repository    *)
(* tools through the gateway (src/src/agent/tool-gateway.ts).              *)
(*                                                                         *)
(* Every "await isCurrent" is two steps, the answer of the durable fence   *)
(* and its use, so that a takeover may come in between.  The transport is  *)
(* host code of the operator and is free: it calls tools when it likes,    *)
(* stops answering, throws, or returns a stream of events with one defect. *)
(*                                                                         *)
(* Abstractions.  A digest, a binding and a MAC are the value they stand   *)
(* for.  Time is what matters of it: the age of the invocation and the     *)
(* rest of its lease.  The tokens, bytes, costs and time stamps of a       *)
(* result are left out; a call, an event and a tool are not.               *)
(***************************************************************************)
EXTENDS Naturals, FiniteSets, Sequences, SequencesExt

CONSTANTS Roles,       \* roles that are given work
          Tools,       \* registered tools the policy of the run admits
          MaxCalls,    \* max_tool_calls of a request
          MaxEvents,   \* max_events of a request
          Timeout,     \* timeout_ms of a request
          Terms,       \* what may be left of a lease when the work starts
          MaxGen,      \* bound on generations of ownership
          MaxExecs     \* bound on invocations

ASSUME AsfHarnessAssumption ==
  /\ {MaxCalls, MaxEvents, Timeout, MaxGen, MaxExecs} \subseteq Nat /\ Terms \subseteq Nat
  /\ Timeout > 0 /\ MaxGen > 0
  /\ Roles \subseteq {"implementer", "fixer", "local-reviewer", "pr-reviewer"}
  /\ Tools \subseteq {"repository.read", "repository.apply_patch", "repository.check"}

Gens == 1 .. MaxGen
Ids == 1 .. MaxCalls + 1
Stops == {"cancelled", "timeout", "stale-generation"}
Statuses == {"success", "failure", "cancelled", "timeout"}
LeaseIds == Gens \X {1, 2}

VARIABLES fence,     \* the generation that owns the run
          execs,     \* invocations begun
          aborted,   \* the caller's signal
          x,         \* the invocation
          tool,      \* the repository tool in flight
          result,    \* what execute returned or threw
          sessions,  \* sealed metadata of implementer sessions
          grants,    \* sessions the recovery policy let a new owner resume
          strays     \* tools this invocation started after its fence was lost

harnessVars == <<fence, execs, aborted, x, tool, result, sessions, grants, strays>>

NoInvocation ==
  [pc |-> "idle", role |-> "implementer", lease |-> <<1, 1>>, left |-> 0, age |-> 0, inv |-> 0,
   fresh |-> FALSE, tools |-> {}, current |-> FALSE, watch |-> "idle", stop |-> "none",
   abort |-> FALSE, cut |-> FALSE, calls |-> 0, seen |-> {}, done |-> <<>>, denied |-> FALSE,
   ended |-> TRUE, status |-> "none", count |-> 0, events |-> <<>>, ref |-> FALSE]
NoTool == [at |-> "none", id |-> 0, current |-> FALSE]
NoResult == [kind |-> "none", status |-> "none", calls |-> 0, events |-> <<>>]

Gen == x.lease[1]

\* #isCurrent: the durable fence is that of generation g.
IsCurrent(g) == fence = g

HarnessTypeOK ==
  /\ fence \in Gens /\ execs \in 0 .. MaxExecs /\ aborted \in BOOLEAN
  /\ x.pc \in {"idle", "entering", "running", "draining", "leaving", "settled"}
  /\ x.lease \in LeaseIds /\ x.stop \in Stops \cup {"none"}
  /\ x.watch \in {"idle", "current", "lost"} /\ x.calls \in 0 .. MaxCalls + 1
  /\ tool.at \in {"none", "asked", "answered", "sandbox", "ended", "confirmed"}
  /\ result.kind \in {"none", "refused", "returned"}
  /\ sessions \subseteq [lease : LeaseIds, inv : 1 .. MaxExecs]
  /\ grants \subseteq [session : sessions, to : Gens]
  /\ strays \in Nat

HarnessInit ==
  /\ fence = 1 /\ execs = 0 /\ aborted = FALSE /\ x = NoInvocation /\ tool = NoTool
  /\ result = NoResult /\ sessions = {} /\ grants = {} /\ strays = 0

-----------------------------------------------------------------------------
(* Before the transport starts. *)

\* #assertLease, with "left" of the lease: the whole timeout must fit, at
\* every look and not only at the first.
LeaseHolds(left) == left > 0 /\ Timeout <= left

\* #assertLimits: the events of the admitted tools fit in the event budget.
LimitsFit == MaxEvents >= MaxCalls * 2 + 3

\* #assertToolPolicy: nothing beyond the admitted authority, and no patch by
\* a role that reads.
ToolPolicy(role, tools) ==
  /\ tools \subseteq Tools
  /\ role \in {"local-reviewer", "pr-reviewer"} => "repository.apply_patch" \notin tools

NoCapability == [on |-> FALSE]
\* The capabilities a caller may hold: one an earlier invocation returned, or
\* one resolved from an authorization of the recovery policy.
Held == {[on |-> TRUE, session |-> s, granted |-> FALSE, to |-> s.lease[1]] : s \in sessions}
Resolved == {[on |-> TRUE, session |-> g.session, granted |-> TRUE, to |-> g.to] : g \in grants}

\* executeAuthorizedImplementerResume: the request repeats the authorization.
RequestBound(inv, lease, cap) ==
  (cap.on /\ cap.granted) => cap.session.inv = inv /\ cap.to = lease[1]

\* Mutant: the generation of a sealed session is not compared.
SessionOfAnyGeneration(role, inv, lease, cap) ==
  \/ ~cap.on
  \/ role = "implementer" /\ cap.session.inv = inv

\* #assertSession: a resumed session is bound to its invocation and to the
\* lease it had, or, for a new owner, to the authorization and to another
\* lease.
SessionBound(role, inv, lease, cap) ==
  \/ ~cap.on
  \/ /\ role = "implementer" /\ cap.session.inv = inv
     /\ LET sealed == cap.session.lease
            from == IF cap.granted THEN sealed[1] ELSE lease[1]
            to == IF cap.granted THEN cap.to ELSE lease[1]
        IN /\ sealed[1] = from /\ lease[1] = to
           /\ (from = to) <=> (sealed = lease)

\* execute, up to the first await.
Begin ==
  /\ x.pc = "idle" /\ execs < MaxExecs /\ execs' = execs + 1
  /\ \E role \in Roles, lease \in LeaseIds, left \in Terms,
        fresh \in IF "repository.check" \in Tools THEN BOOLEAN ELSE {FALSE},
        tools \in {Tools, Tools \ {"repository.apply_patch"}},
        cap \in {NoCapability} \cup Held \cup Resolved, inv \in 1 .. MaxExecs :
       /\ lease[1] <= fence /\ lease[2] <= execs + 1 /\ (cap.on \/ inv = execs + 1)
       /\ IF /\ RequestBound(inv, lease, cap) /\ LeaseHolds(left) /\ LimitsFit
             /\ ToolPolicy(role, tools) /\ SessionBound(role, inv, lease, cap)
          THEN /\ x' = [NoInvocation EXCEPT !.pc = "entering", !.role = role, !.lease = lease,
                                            !.left = left, !.inv = inv, !.fresh = fresh,
                                            !.tools = tools, !.current = IsCurrent(lease[1]),
                                            !.ended = FALSE]
               /\ result' = NoResult
          ELSE /\ x' = [NoInvocation EXCEPT !.pc = "settled"]
               /\ result' = [NoResult EXCEPT !.kind = "refused"]
  /\ UNCHANGED <<fence, aborted, tool, sessions, grants, strays>>

\* execute is over; a transport that was cut off may still call.
Settle(r) ==
  /\ x' = [NoInvocation EXCEPT !.pc = "settled", !.lease = x.lease, !.left = x.left,
                               !.tools = x.tools, !.ended = x.ended, !.calls = x.calls,
                               !.done = x.done]
  /\ result' = r
Refuse == Settle([NoResult EXCEPT !.kind = "refused"])

\* #cancelledResult: no event, no call.
CancelledResult == [NoResult EXCEPT !.kind = "returned", !.status = "cancelled"]

\* The fence has answered: the transport starts, unless the run was
\* cancelled before.
Enter ==
  /\ x.pc = "entering"
  /\ CASE ~x.current -> Refuse
       [] aborted /\ x.current -> Settle(CancelledResult)
       [] OTHER -> x' = [x EXCEPT !.pc = "running", !.current = FALSE] /\ UNCHANGED result
  /\ UNCHANGED <<fence, execs, aborted, tool, sessions, grants, strays>>

-----------------------------------------------------------------------------
(* The race. *)

\* The first outcome wins; the transport is told, and what it still runs is
\* waited for.  The watchdog does nothing any more.
Forced(kind) == [x EXCEPT !.pc = "draining", !.stop = kind, !.abort = TRUE, !.watch = "idle"]

\* forwardCancellation: the listener stays until the invocation has drained.
ForwardCancellation ==
  /\ ~aborted /\ x.pc \notin {"idle", "settled"} /\ aborted' = TRUE
  /\ x' = CASE x.pc = "running" -> Forced("cancelled")
            [] x.pc = "draining" -> [x EXCEPT !.abort = TRUE]
            [] OTHER -> x
  /\ UNCHANGED <<fence, execs, tool, result, sessions, grants, strays>>

\* deadlineTask.
Deadline ==
  /\ x.pc = "running" /\ x.age >= Timeout /\ x' = Forced("timeout")
  /\ UNCHANGED <<fence, execs, aborted, tool, result, sessions, grants, strays>>

\* scheduleFenceCheck: the watchdog asks, and acts on the answer it got.
WatchdogAsks ==
  /\ x.pc = "running" /\ x.watch = "idle"
  /\ x' = [x EXCEPT !.watch = IF IsCurrent(Gen) THEN "current" ELSE "lost"]
  /\ UNCHANGED <<fence, execs, aborted, tool, result, sessions, grants, strays>>
WatchdogActs ==
  /\ x.watch # "idle"
  /\ x' = IF x.watch = "lost" THEN Forced("stale-generation") ELSE [x EXCEPT !.watch = "idle"]
  /\ UNCHANGED <<fence, execs, aborted, tool, result, sessions, grants, strays>>

-----------------------------------------------------------------------------
(* Repository tools. *)

\* expectedAccess.
Access(name) ==
  CASE name = "repository.apply_patch" -> "write"
    [] name = "repository.check" -> "verification"
    [] OTHER -> "read"

\* RepositoryToolGateway.execute, before its first await: "scoped" says that
\* the paths of the request, and those its patch declares, are admitted.
Admits(name, scoped) ==
  /\ name \in x.tools /\ scoped
  /\ Access(name) = "write" => x.role \in {"implementer", "fixer"}
  /\ Access(name) = "verification" => x.fresh

\* transportActive.
SessionActive == x.pc = "running"

\* invokeTool: one call at a time, each counted, under an id of its own.  The
\* transport hears of a refusal; one of the harness ends the invocation if it
\* is thrown on.
InvokeTool ==
  /\ x.pc \notin {"idle", "entering"} /\ ~x.ended
  /\ \E id \in x.seen \cup {Cardinality(x.seen) + 1}, name \in Tools, scoped \in BOOLEAN :
       LET free == SessionActive /\ tool.at = "none" /\ LeaseHolds(x.left)
           n == x.calls + 1
           fits == free /\ n <= MaxCalls /\ id \notin x.seen
       IN /\ free \/ ~x.denied
          /\ x' = [x EXCEPT !.calls = IF free /\ x.calls <= MaxCalls THEN n ELSE x.calls,
                            !.seen = IF fits THEN x.seen \cup {id} ELSE x.seen,
                            !.denied = x.denied \/ ~fits]
          /\ tool' = IF fits /\ Admits(name, scoped)
                     THEN [NoTool EXCEPT !.at = "asked", !.id = id]
                     ELSE tool
  /\ UNCHANGED <<fence, execs, aborted, result, sessions, grants, strays>>

\* #isCurrent of the gateway, before the sandbox starts and after it ended.
GatewayAsks ==
  /\ tool.at \in {"asked", "ended"}
  /\ tool' = [tool EXCEPT !.at = IF tool.at = "asked" THEN "answered" ELSE "confirmed",
                          !.current = IsCurrent(Gen)]
  /\ UNCHANGED <<fence, execs, aborted, x, result, sessions, grants, strays>>

\* Mutant: the answer of the fence is not looked at.
RunToolUnfenced ==
  /\ tool.at = "answered"
  /\ tool' = IF x.abort THEN [tool EXCEPT !.at = "ended"] ELSE [tool EXCEPT !.at = "sandbox"]
  /\ strays' = IF tool'.at = "sandbox" /\ fence # Gen THEN strays + 1 ELSE strays
  /\ UNCHANGED <<fence, execs, aborted, x, result, sessions, grants>>

\* The sandbox starts, unless the fence is lost or the signal was raised.
RunTool ==
  /\ tool.at = "answered"
  /\ tool' = CASE ~tool.current -> NoTool
               [] tool.current /\ x.abort -> [tool EXCEPT !.at = "ended"]
               [] OTHER -> [tool EXCEPT !.at = "sandbox"]
  /\ strays' = IF tool'.at = "sandbox" /\ fence # Gen THEN strays + 1 ELSE strays
  /\ UNCHANGED <<fence, execs, aborted, x, result, sessions, grants>>

\* The sandbox ends: on its own, at its wall time, at the signal, or with an
\* error, which is a refusal unless the signal explains it.
SandboxEnds ==
  /\ tool.at = "sandbox"
  /\ tool' \in {[tool EXCEPT !.at = "ended"]} \cup (IF x.abort THEN {} ELSE {NoTool})
  /\ UNCHANGED <<fence, execs, aborted, x, result, sessions, grants, strays>>

\* The signed result of a tool, under the id of its request.
ToolResult == Append(x.done, tool.id)

\* The result is on record before the lease is looked at again.
CompleteTool ==
  /\ tool.at = "confirmed" /\ tool' = NoTool
  /\ x' = IF tool.current
          THEN [x EXCEPT !.done = ToolResult, !.denied = x.denied \/ ~LeaseHolds(x.left)]
          ELSE x
  /\ UNCHANGED <<fence, execs, aborted, result, sessions, grants, strays>>

-----------------------------------------------------------------------------
(* What the transport gives back. *)

Ev(type, id) == [type |-> type, id |-> id]

\* A request and a completion for each of the tools "done", in their order,
\* and the events around them.
ToolEvents(done) ==
  [i \in 1 .. 2 * Len(done) |-> Ev(IF i % 2 = 1 THEN "tool.requested" ELSE "tool.completed",
                                   done[(i + 1) \div 2])]
Stream(done, status) ==
  <<Ev("session.started", 0)>> \o ToolEvents(done) \o <<Ev("usage.updated", 0), Ev(status, 0)>>

\* One event lost, or one sent twice.
Defective(events) ==
  {RemoveAt(events, i) : i \in DOMAIN events}
    \cup {InsertAt(events, i, events[i]) : i \in DOMAIN events}

\* The transport is done: the session is over, also for a tool it left
\* running.
Over(left) ==
  [x EXCEPT !.pc = "draining", !.ended = TRUE, !.cut = left, !.abort = left, !.watch = "idle"]
Pending == tool.at # "none"
Returned(status, ref, count, events) ==
  [Over(FALSE) EXCEPT !.status = status, !.ref = ref, !.count = count, !.events = events]

TransportReturns ==
  /\ x.pc = "running"
  /\ IF Pending THEN x' = Over(TRUE)
     ELSE \/ \E status \in Statuses, ref \in BOOLEAN :
               x' = Returned(status, ref, x.calls, Stream(x.done, status))
          \/ \E events \in Defective(Stream(x.done, "success")) :
               x' = Returned("success", FALSE, x.calls, events)
          \/ x' = Returned("success", FALSE, x.calls + 1, Stream(x.done, "success"))
  /\ UNCHANGED <<fence, execs, aborted, tool, result, sessions, grants, strays>>

\* The transport throws: a refusal of the harness ends the invocation once
\* the pending tool is over, anything else is a failure without events.
TransportThrows ==
  /\ x.pc = "running"
  /\ x' \in {[Over(Pending) EXCEPT !.status = "failure", !.count = x.calls]}
       \cup (IF x.denied THEN {[Over(Pending) EXCEPT !.status = "refusal"]} ELSE {})
  /\ UNCHANGED <<fence, execs, aborted, tool, result, sessions, grants, strays>>

-----------------------------------------------------------------------------
(* After the race. *)

\* Mutant: the events of a forced stop are put together before the tool that
\* was running is over.
ForcedEarly == Stream(IF Len(x.done) = 0 THEN <<>> ELSE Front(x.done), x.stop)

\* #forcedTransportResult.
ForcedEvents == Stream(x.done, x.stop)

\* Mutants: nobody waits for a pending tool; the transport is waited for too.
NobodyWaits == TRUE
WaitsForTransport == tool.at = "none" /\ x.ended

\* Promise.allSettled of the pending tool calls.
Drained == ~Pending

\* The end of the "finally" block and what follows it, up to the last await.
Leave ==
  /\ x.pc = "draining" /\ Drained
  /\ IF x.cut \/ x.status = "refusal" \/ x.stop = "stale-generation" \/ ~LeaseHolds(x.left)
     THEN Refuse
     ELSE /\ x' = [x EXCEPT !.pc = "leaving", !.current = IsCurrent(Gen),
                    !.status = IF x.stop = "none" THEN x.status ELSE x.stop,
                    !.count = IF x.stop = "none" THEN x.count ELSE x.calls,
                    !.events = IF x.stop = "none" THEN x.events ELSE ForcedEvents]
          /\ UNCHANGED result
  /\ UNCHANGED <<fence, execs, aborted, tool, sessions, grants, strays>>

Types(events) == {events[i].type : i \in DOMAIN events}
Places(events, type, id) == {i \in DOMAIN events : events[i] = Ev(type, id)}
Completions(events) == {i \in DOMAIN events : events[i].type = "tool.completed"}
Reported(events) == {events[i].id : i \in Completions(events)}

\* The checks parseAsfProviderResult and #assertTransportResult share.
WellFormed(events) ==
  /\ \A i \in DOMAIN events : (events[i].type = "session.started") <=> i = 1
  /\ \A i \in DOMAIN events : events[i].type \in Statuses => i = Len(events)
  /\ \A id \in Ids : /\ Cardinality(Places(events, "tool.requested", id)) <= 1
                     /\ Cardinality(Places(events, "tool.completed", id)) <= 1
                     /\ \A i \in Places(events, "tool.completed", id) :
                          \E j \in Places(events, "tool.requested", id) : j < i

\* #assertTransportResult: the events agree with the tools that ran.
TransportSound ==
  /\ x.count = x.calls /\ x.calls <= MaxCalls /\ Len(x.events) <= MaxEvents
  /\ x.role # "implementer" => ~x.ref
  /\ WellFormed(x.events)
  /\ \A i \in DOMAIN x.events : x.events[i].type \in Statuses => x.events[i].type = x.status
  /\ \A id \in Reported(x.events) : \E i \in DOMAIN x.done : x.done[i] = id
  /\ x.stop # "none" \/ \A i \in DOMAIN x.done : x.done[i] \in Reported(x.events)

\* parseAsfProviderResult: every request has its completion, and success is a
\* complete stream.
Parses(status, events) ==
  /\ \A id \in Ids : Places(events, "tool.requested", id) # {} => id \in Reported(events)
  /\ status = "success" => {"session.started", "success"} \subseteq Types(events)

\* What the caller hears: a cancellation or a missed deadline after the race
\* still counts.
FinalStatus ==
  IF aborted THEN "cancelled" ELSE IF x.age > Timeout THEN "timeout" ELSE x.status
Renamed(events) ==
  [i \in DOMAIN events |-> IF events[i].type \in Statuses THEN Ev(FinalStatus, 0) ELSE events[i]]

\* A session that ended well enough can be resumed.
Resumable ==
  /\ x.role = "implementer" /\ x.ref /\ x.stop = "none"
  /\ FinalStatus \in {"success", "failure"}

\* #resumeMetadata: the session is sealed to its lease and its invocation.
Sealed == [lease |-> x.lease, inv |-> x.inv]

\* The end of execute.
Return ==
  /\ x.pc = "leaving"
  /\ IF x.current /\ TransportSound /\ Parses(FinalStatus, Renamed(x.events))
     THEN /\ Settle([kind |-> "returned", status |-> FinalStatus, calls |-> x.count,
                     events |-> Renamed(x.events)])
          /\ sessions' = IF Resumable THEN sessions \cup {Sealed} ELSE sessions
     ELSE Refuse /\ UNCHANGED sessions
  /\ UNCHANGED <<fence, execs, aborted, tool, grants, strays>>

-----------------------------------------------------------------------------
(* The run around the invocation. *)

\* The caller is done with the result; the next invocation has its own
\* signal.
Collect ==
  /\ x.pc = "settled" /\ tool = NoTool
  /\ x' = NoInvocation /\ result' = NoResult /\ aborted' = FALSE /\ strays' = 0
  /\ UNCHANGED <<fence, execs, tool, sessions, grants>>

\* Another owner claims the run.
Takeover ==
  /\ fence < MaxGen /\ fence' = fence + 1
  /\ UNCHANGED <<execs, aborted, x, tool, result, sessions, grants, strays>>

\* The recovery policy lets the owner resume a session of an earlier one.
Authorize ==
  /\ \E s \in sessions : s.lease[1] < fence /\ grants' = grants \cup {[session |-> s, to |-> fence]}
  /\ UNCHANGED <<fence, execs, aborted, x, tool, result, sessions, strays>>

Tick ==
  /\ x.pc \in {"running", "draining", "leaving"} /\ x.age <= Timeout
  /\ x' = [x EXCEPT !.age = @ + 1, !.left = IF @ = 0 THEN 0 ELSE @ - 1]
  /\ UNCHANGED <<fence, execs, aborted, tool, result, sessions, grants, strays>>

Works == GatewayAsks \/ RunTool \/ SandboxEnds \/ CompleteTool
HarnessNext ==
  \/ Begin \/ Enter \/ ForwardCancellation \/ Deadline \/ WatchdogAsks \/ WatchdogActs
  \/ InvokeTool \/ Works \/ TransportReturns \/ TransportThrows
  \/ Leave \/ Return \/ Collect \/ Takeover \/ Authorize \/ Tick

\* Time passes, the timers fire, a tool ends by itself or at its wall time,
\* and the harness goes on; the transport owes nothing.
HarnessSpec ==
  /\ HarnessInit /\ [][HarnessNext]_harnessVars
  /\ WF_harnessVars(Tick) /\ WF_harnessVars(Deadline) /\ WF_harnessVars(Works)
  /\ WF_harnessVars(Enter) /\ WF_harnessVars(Leave) /\ WF_harnessVars(Return)

-----------------------------------------------------------------------------
(* Properties. *)

\* When execute has returned or thrown, nothing it started is still running,
\* whatever won the race and whatever the transport calls afterwards.
SettledMeansQuiet == x.pc = "settled" => tool = NoTool

\* What is returned counts every call and names every tool that ran to its
\* end, also when the transport was cut off while a tool was running.
ResultAccountsForTools ==
  result.kind = "returned" =>
    /\ result.calls = x.calls
    /\ Reported(result.events) = {x.done[i] : i \in DOMAIN x.done}

\* An owner that has lost the fence starts at most the one tool that was
\* cleared before, and nothing it did then is ever part of a result.
StaleWorkIsContained == strays <= 1 /\ (strays > 0 => result.kind # "returned")

\* A session resumed by another generation than the one that left it was
\* granted to exactly that generation.
ResumeIsBound ==
  [][(x.pc = "idle" /\ x'.pc = "entering" /\ x'.inv < execs') =>
       \/ \E s \in sessions : s.inv = x'.inv /\ s.lease = x'.lease
       \/ \E g \in grants : g.session.inv = x'.inv /\ g.to = x'.lease[1]]_harnessVars

\* A provider that never answers does not hold the run: every invocation
\* that has started ends.
SessionEnds == (x.pc = "running") ~> (x.pc = "settled")
=============================================================================
