------------------------------- MODULE Dispatch -------------------------------
(***************************************************************************)
(* The choke point of sagiha: dispatch() takes one tool call of a run      *)
(* through the pre-tool hook, the policy engine's grant, a lease and the   *)
(* registry, records what the result makes of the run, and emits an event  *)
(* at every turn to the observers of the bus, which take it in any order   *)
(* while the call waits for them.  The calls of a run come one at a time;  *)
(* at every await, the one inside emit included, the clock may pass the    *)
(* grant's five minutes and the run may be cancelled.                      *)
(*                                                                         *)
(* Of a call this is kept: its tool, whether a path in its arguments       *)
(* escapes the workspace, and whether its arguments satisfy the schema.    *)
(* Leases of a tool name are not pooled (only "sandbox" has a ceiling), so *)
(* acquire never refuses here.                                             *)
(***************************************************************************)
EXTENDS Naturals, Sequences, FiniteSets

CONSTANTS
  Blocked,     \* tools in _TAINT_BLOCKED_TOOLS: apply_edit and write_file
  Relaying,    \* tools registered with trusted_output=False
  Reporting,   \* the other registered tools
  Gated,       \* tools in always_gate
  Observers,   \* subscribers of the bus
  MaxCalls     \* bound on the calls of the run

DispatchAssumption ==
  /\ MaxCalls \in Nat
  /\ Blocked \subseteq Reporting /\ Relaying \cap Reporting = {}
  /\ Gated \subseteq Relaying \cup Reporting

VARIABLES
  call,         \* the call in dispatch and the step it is at
  grant,        \* its grant in _active_grants: "none", "live" or "expired"
  lease,        \* whether it holds a lease
  tainted,      \* the run is in _tainted_runs
  trail,        \* the tool events emitted
  awaiting,     \* observers that still have the last event in hand
  seen,         \* by observer, the positions of the events it has recorded
  quarantined   \* observers the bus no longer calls

busVars == <<trail, awaiting, seen, quarantined>>
dispatchVars == <<call, grant, lease, tainted, busVars>>

Tools == Relaying \cup Reporting
Calls == [tool : Tools \cup {"unregistered"}, escapes : BOOLEAN, valid : BOOLEAN]
Outcomes == [trusted : BOOLEAN, error : BOOLEAN]

Event == [kind : {"requested", "denied", "authorized", "tainted", "completed", "failed"},
          tool : Tools \cup {"unregistered"}, trusted : BOOLEAN]

NoCall == [pc |-> "idle"]
InFlight == [pc : {"intercept", "authorize", "verify", "acquire", "running"}, request : Calls]
            \cup [pc : {"record"}, request : Calls, result : Outcomes]

DispatchTypeOK ==
  /\ call \in InFlight \cup {NoCall, [pc |-> "cancelled"]}
  /\ grant \in {"none", "live", "expired"} /\ lease \in BOOLEAN /\ tainted \in BOOLEAN
  /\ trail \in Seq(Event) /\ awaiting \subseteq Observers
  /\ seen \in [Observers -> SUBSET Nat] /\ quarantined \subseteq Observers

\* a new run, or a frozen one with the taint it carries (mark_tainted)
DispatchInit ==
  /\ call = NoCall /\ grant = "none" /\ lease = FALSE /\ tainted \in BOOLEAN
  /\ trail = <<>> /\ awaiting = {} /\ seen = [o \in Observers |-> {}] /\ quarantined = {}

-----------------------------------------------------------------------------
(* The bus.                                                                *)

Happened(kind, request, trusted) == [kind |-> kind, tool |-> request.tool, trusted |-> trusted]

\* emit starts a task for every active observer and waits for all of them
Publish(event) ==
  /\ trail' = Append(trail, event)
  /\ awaiting' = Observers \ quarantined
  /\ UNCHANGED <<seen, quarantined>>

Delivered == awaiting = {}

\* one observer's task: it has recorded the event; or it raises or times out, having recorded it
\* or not, and is never called again
BugObserve(o) ==
  /\ o \in awaiting /\ awaiting' = awaiting \ {o}
  /\ \E recorded \in BOOLEAN :
       seen' = IF recorded THEN [seen EXCEPT ![o] = @ \cup {Len(trail)}] ELSE seen
  /\ UNCHANGED <<call, grant, lease, tainted, trail, quarantined>>
Observe(o) ==
  /\ o \in awaiting /\ awaiting' = awaiting \ {o}
  /\ \E recorded, fails \in BOOLEAN :
       /\ recorded \/ fails
       /\ seen' = IF recorded THEN [seen EXCEPT ![o] = @ \cup {Len(trail)}] ELSE seen
       /\ quarantined' = IF fails THEN quarantined \cup {o} ELSE quarantined
  /\ UNCHANGED <<call, grant, lease, tainted, trail>>

-----------------------------------------------------------------------------
(* The steps of a dispatch.                                                *)

Counted(kind) == Cardinality({i \in DOMAIN trail : trail[i].kind = kind})
Inside(c) == c.tool \in Tools /\ ~c.escapes

Request(c) ==
  /\ call = NoCall /\ Delivered /\ Counted("requested") < MaxCalls
  /\ call' = [pc |-> "intercept", request |-> c]
  /\ Publish(Happened("requested", c, TRUE))
  /\ UNCHANGED <<grant, lease, tainted>>

Denied == call' = NoCall /\ Publish(Happened("denied", call.request, TRUE))

\* a hook that refuses, times out or raises denies the call
Intercept(answer) ==
  /\ call.pc = "intercept" /\ Delivered
  /\ IF answer = "allowed"
     THEN call' = [call EXCEPT !.pc = "authorize"] /\ UNCHANGED busVars
     ELSE Denied
  /\ UNCHANGED <<grant, lease, tainted>>

Permitted(c) ==
  /\ c.tool \notin Gated
  /\ ~(c.tool \in Blocked /\ tainted)
  /\ Inside(c)

Authorize ==
  /\ call.pc = "authorize" /\ Delivered
  /\ IF Permitted(call.request)
     THEN /\ call' = [call EXCEPT !.pc = "verify"] /\ grant' = "live"
          /\ UNCHANGED busVars
     ELSE Denied /\ UNCHANGED grant
  /\ UNCHANGED <<lease, tainted>>

\* verify_grant deletes a grant it finds expired
Verify ==
  /\ call.pc = "verify" /\ Delivered
  /\ IF grant = "live"
     THEN /\ call' = [call EXCEPT !.pc = "acquire"]
          /\ Publish(Happened("authorized", call.request, TRUE))
          /\ UNCHANGED grant
     ELSE Denied /\ grant' = "none"
  /\ UNCHANGED <<lease, tainted>>

Acquire ==
  /\ call.pc = "acquire" /\ Delivered
  /\ lease' = TRUE /\ call' = [call EXCEPT !.pc = "running"]
  /\ UNCHANGED <<grant, tainted, busVars>>

\* what the registry returns: the handler's result with the trust of its registration, or an
\* error of its own, which is trusted, for arguments against the schema and for an exception
Returned(c) ==
  {[trusted |-> TRUE, error |-> TRUE]}
  \cup IF c.valid THEN [trusted : {c.tool \in Reporting}, error : BOOLEAN] ELSE {}

\* the lease goes back in a finally; an untrusted result is announced before it taints the run
Return(outcome) ==
  /\ call.pc = "running" /\ Delivered /\ outcome \in Returned(call.request)
  /\ lease' = FALSE
  /\ call' = [pc |-> "record", request |-> call.request, result |-> outcome]
  /\ IF outcome.trusted THEN UNCHANGED busVars
     ELSE Publish(Happened("tainted", call.request, FALSE))
  /\ UNCHANGED <<grant, tainted>>

\* record_outcome pops the grant whether or not it has expired: it binds the result to the run
BugTaintedBy(result) == tainted \/ (grant = "live" /\ ~result.trusted)
TaintedBy(result) == tainted \/ (grant # "none" /\ ~result.trusted)

Record ==
  /\ call.pc = "record" /\ Delivered
  /\ tainted' = TaintedBy(call.result)
  /\ grant' = "none" /\ call' = NoCall
  /\ Publish(Happened(IF call.result.error THEN "failed" ELSE "completed",
                      call.request, call.result.trusted))
  /\ UNCHANGED lease

\* five minutes pass
Expire ==
  /\ grant = "live" /\ call.pc \in {"verify", "acquire", "running", "record"}
  /\ grant' = "expired"
  /\ UNCHANGED <<call, lease, tainted, busVars>>

\* At any await the run's task may be cancelled, inside emit too: the bus does not catch it, so
\* the observers still at work are cancelled with it and stay subscribed.  The finally returns
\* the lease; the grant stays in the policy engine of the run.
Interruptible ==
  \/ call.pc \in {"intercept", "authorize", "verify", "acquire", "running", "record"}
  \/ call = NoCall /\ ~Delivered
BugCancel ==
  /\ Interruptible
  /\ call' = [pc |-> "cancelled"] /\ awaiting' = {}
  /\ UNCHANGED <<grant, lease, tainted, trail, seen, quarantined>>
Cancel ==
  /\ Interruptible
  /\ call' = [pc |-> "cancelled"] /\ lease' = FALSE /\ awaiting' = {}
  /\ UNCHANGED <<grant, tainted, trail, seen, quarantined>>

DispatchNext ==
  \/ \E c \in Calls : Request(c)
  \/ \E answer \in {"allowed", "denied", "timeout", "error"} : Intercept(answer)
  \/ Authorize \/ Verify \/ Acquire
  \/ \E outcome \in Outcomes : Return(outcome)
  \/ Record \/ Expire \/ Cancel
  \/ \E o \in Observers : Observe(o)

DispatchSpec == DispatchInit /\ [][DispatchNext]_dispatchVars

-----------------------------------------------------------------------------
(* Properties.                                                             *)

\* Once a result of a relaying tool has entered the run, or in a run that was frozen with its
\* taint, no writing tool is authorized again, however long the tool ran and whatever became
\* of its grant in the meantime (TaintGate: policy/engine.py authorize and record_outcome).
TaintPrecedesWrites ==
  \A i, j \in DOMAIN trail :
    i < j /\ trail[i].kind = "tainted" => ~(trail[j].kind = "authorized" /\ trail[j].tool \in Blocked)

\* What an observer has recorded is a prefix of what was emitted, and until it is quarantined
\* that prefix lacks the last event at most, and only while that event is being delivered or once
\* the run was cancelled during its delivery: a trajectory may end early, it has no hole in what
\* the run emitted (EventBus.emit; the trajectory store is an observer).
TrajectoryIsAPrefix ==
  \A o \in Observers :
    /\ \A i \in seen[o] : 1..i \subseteq seen[o]
    /\ o \notin quarantined => DOMAIN trail \ seen[o] \subseteq {Len(trail)}
    /\ o \notin quarantined \cup awaiting /\ call.pc # "cancelled" => seen[o] = DOMAIN trail

\* Every call has one verdict before any other, and only an authorized one has an outcome; a
\* lease is held while the tool runs and at no other time, a cancelled run included; between
\* two calls no grant is left (dispatch, verify_grant).
CallsAreAccountedFor ==
  LET authorized == Counted("authorized")
      decided == Counted("denied") + authorized
      ended == Counted("completed") + Counted("failed")
  IN /\ lease <=> call.pc = "running"
     /\ call = NoCall => grant = "none" /\ decided = Counted("requested") /\ ended = authorized
     /\ ended <= authorized /\ authorized <= ended + 1 /\ decided <= Counted("requested")
=============================================================================
