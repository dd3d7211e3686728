---------------------------- MODULE SagihaProofs ----------------------------
(***************************************************************************)
(* What the parts of sagiha promise, for every value of their constants.   *)
(* The part of a section is named in its heading, with what makes its      *)
(* property inductive; for a part kept in slots, the slots are its         *)
(* variables in the order Parts gives them, and the invariant of the       *)
(* composition is that of the part while it is the subject.                *)
(***************************************************************************)
EXTENDS Parts, SumsProofs, FiniteSetTheorems, FunctionTheorems

-----------------------------------------------------------------------------
(* Dispatch: no write is authorized after a relayed result, a trajectory   *)
(* is a prefix of what was emitted, and calls, grants and leases add up.   *)
(* Two things make them inductive. Of a call in flight its step says       *)
(* which of its events are out, whether it has a grant and whether it      *)
(* holds the lease (Books). An event that announces a taint is followed by *)
(* nothing but the Record that taints the run (Marked), while a writing    *)
(* tool that waits for its grant to be verified was authorized in a run    *)
(* that is still clean (Clean). And nothing is emitted before the last     *)
(* event has reached every observer that is called (Trajectories).         *)

Announced == \E i \in DOMAIN trail : trail[i].kind = "tainted"

\* a run whose trail announces a taint is tainted, or about to be, or over
Marked ==
  Announced => \/ tainted \/ call.pc = "cancelled"
               \/ call.pc = "record" /\ ~call.result.trusted

Clean == call.pc = "verify" /\ call.request.tool \in Blocked => ~tainted

Decided == Counted("denied") + Counted("authorized")
Ended == Counted("completed") + Counted("failed")

Books ==
  /\ lease <=> call.pc = "running"
  /\ call.pc \in {"idle", "intercept", "authorize"} => grant = "none"
  /\ call.pc \in {"verify", "acquire", "running", "record"} => grant # "none"
  /\ call.pc \in {"intercept", "authorize", "verify"} => Counted("requested") = Decided + 1
  /\ call.pc \in {"idle", "acquire", "running", "record"} => Counted("requested") = Decided
  /\ call.pc \in {"idle", "intercept", "authorize", "verify"} => Counted("authorized") = Ended
  /\ call.pc \in {"acquire", "running", "record"} => Counted("authorized") = Ended + 1
  /\ Decided <= Counted("requested")
  /\ Ended <= Counted("authorized") /\ Counted("authorized") <= Ended + 1

BusTypes == trail \in Seq(Event) /\ awaiting \subseteq Observers
            /\ seen \in [Observers -> SUBSET Nat] /\ quarantined \subseteq Observers

Trajectories ==
  /\ awaiting # {} => trail # <<>>
  /\ awaiting \cap quarantined = {}
  /\ \A o \in Observers :
       /\ seen[o] \subseteq DOMAIN trail /\ \A i \in seen[o] : 1..i \subseteq seen[o]
       /\ o \notin quarantined => 1..(Len(trail) - 1) \subseteq seen[o]
       /\ o \notin quarantined \cup awaiting /\ call.pc # "cancelled" => seen[o] = DOMAIN trail

DispatchInv ==
  /\ DispatchTypeOK /\ Trajectories
  /\ Books
  /\ TaintPrecedesWrites /\ Marked /\ Clean

-----------------------------------------------------------------------------
(* What an event adds.                                                     *)

\* One more event of a kind is counted once, among that kind only.
LEMMA CountsOne ==
  ASSUME trail \in Seq(Event), NEW e \in Event, trail' = Append(trail, e), NEW k
  PROVE  /\ Counted(k) \in Nat
         /\ Counted(k)' = IF e.kind = k THEN Counted(k) + 1 ELSE Counted(k)
<1> DEFINE old == {i \in DOMAIN trail : trail[i].kind = k}
           new == {i \in DOMAIN trail' : trail'[i].kind = k}
<1>1. DOMAIN trail = 1..Len(trail) /\ Len(trail) \in Nat
  OBVIOUS
<1>2. DOMAIN trail' = 1..(Len(trail) + 1) /\ trail'[Len(trail) + 1] = e
      /\ \A i \in 1..Len(trail) : trail'[i] = trail[i]
  OBVIOUS
<1>3. IsFiniteSet(1..Len(trail))
  BY <1>1, FS_Interval
<1>4. IsFiniteSet(old)
  BY <1>1, <1>3, FS_Subset
<1>5. Cardinality(old) \in Nat
  BY <1>4, FS_CardinalityType
<1>6. Len(trail) + 1 \notin old
  BY <1>1
<1>7. CASE e.kind = k
  <2>1. new = old \cup {Len(trail) + 1}
    BY <1>1, <1>2, <1>7
  <2>2. Cardinality(new) = Cardinality(old) + 1
    BY <2>1, <1>4, <1>6, FS_AddElement
  <2>3. QED
    BY <2>2, <1>5, <1>7 DEF Counted
<1>8. CASE e.kind # k
  <2>1. new = old
    BY <1>1, <1>2, <1>8
  <2>2. QED
    BY <2>1, <1>5, <1>8 DEF Counted
<1>9. QED
  BY <1>7, <1>8

\* Emitting keeps the types and the trajectories: whoever is called has everything before the
\* event, which it now has in hand.
LEMMA PublishKeeps ==
  ASSUME DispatchTypeOK, Trajectories, NEW e \in Event, Publish(e), Delivered, call.pc # "cancelled"
  PROVE  trail' = Append(trail, e) /\ BusTypes' /\ Trajectories'
<1>1. trail \in Seq(Event) /\ Len(trail) \in Nat /\ DOMAIN trail = 1..Len(trail)
  BY DEF DispatchTypeOK
<1>2. trail' = Append(trail, e) /\ trail' \in Seq(Event) /\ Len(trail') = Len(trail) + 1
      /\ DOMAIN trail' = 1..(Len(trail) + 1)
  BY <1>1 DEF Publish
<1>3. seen' = seen /\ quarantined' = quarantined /\ awaiting' = Observers \ quarantined
  BY DEF Publish
<1>4. BusTypes'
  BY <1>2, <1>3 DEF DispatchTypeOK, BusTypes
<1>5. 1..(Len(trail') - 1) = 1..Len(trail) /\ DOMAIN trail \subseteq DOMAIN trail' /\ trail' # <<>>
  BY <1>1, <1>2
<1>6. ASSUME NEW o \in Observers
      PROVE  /\ seen'[o] \subseteq DOMAIN trail' /\ \A i \in seen'[o] : 1..i \subseteq seen'[o]
             /\ o \notin quarantined' => 1..(Len(trail') - 1) \subseteq seen'[o]
             /\ o \in quarantined' \cup awaiting'
  <2>1. seen[o] \subseteq DOMAIN trail /\ \A i \in seen[o] : 1..i \subseteq seen[o]
    BY DEF Trajectories
  <2>2. o \notin quarantined => seen[o] = 1..Len(trail)
    BY <1>1 DEF Trajectories, Delivered
  <2>3. QED
    BY <2>1, <2>2, <1>3, <1>5
<1>7. Trajectories'
  BY <1>3, <1>5, <1>6 DEF Trajectories
<1>8. QED
  BY <1>2, <1>4, <1>7

\* A trail stays in order when the event added to it is not the authorization of a write, or
\* when nothing in it announces a taint.
LEMMA OrderKept ==
  ASSUME trail \in Seq(Event), NEW e \in Event, trail' = Append(trail, e), TaintPrecedesWrites,
         e.kind = "authorized" /\ e.tool \in Blocked => ~Announced
  PROVE  /\ TaintPrecedesWrites'
         /\ Announced' => Announced \/ e.kind = "tainted"
<1>1. DOMAIN trail = 1..Len(trail) /\ Len(trail) \in Nat
  OBVIOUS
<1>2. DOMAIN trail' = 1..(Len(trail) + 1) /\ trail'[Len(trail) + 1] = e
      /\ \A i \in 1..Len(trail) : trail'[i] = trail[i]
  OBVIOUS
<1>3. ASSUME NEW i \in DOMAIN trail', NEW j \in DOMAIN trail', i < j, trail'[i].kind = "tainted"
      PROVE  ~(trail'[j].kind = "authorized" /\ trail'[j].tool \in Blocked)
  <2>1. i \in DOMAIN trail /\ trail[i].kind = "tainted"
    BY <1>1, <1>2, <1>3
  <2>2. CASE j \in DOMAIN trail
    BY <1>1, <1>2, <1>3, <2>1, <2>2 DEF TaintPrecedesWrites
  <2>3. CASE j = Len(trail) + 1
    BY <1>2, <2>1, <2>3 DEF Announced
  <2>4. QED
    BY <1>1, <1>2, <2>2, <2>3
<1>4. QED
  BY <1>1, <1>2, <1>3 DEF TaintPrecedesWrites, Announced

-----------------------------------------------------------------------------
(* The steps.                                                              *)

\* The events of a call name its tool.
LEMMA HappenedType ==
  ASSUME NEW c \in Calls, NEW trusted \in BOOLEAN,
         NEW kind \in {"requested", "denied", "authorized", "tainted", "completed", "failed"}
  PROVE  Happened(kind, c, trusted) \in Event
BY DEF Calls, Event, Happened

\* What the call is at a step that is neither idle nor cancelled.
LEMMA Flight ==
  ASSUME call \in InFlight \cup {NoCall, [pc |-> "cancelled"]}
  PROVE  /\ call.pc \in {"idle", "intercept", "authorize", "verify", "acquire", "running", "record", "cancelled"}
         /\ call.pc = "idle" <=> call = NoCall
         /\ call.pc \in {"intercept", "authorize", "verify", "acquire", "running"} =>
              /\ call \in [pc : {"intercept", "authorize", "verify", "acquire", "running"}, request : Calls]
              /\ call.request \in Calls
         /\ call.pc = "record" =>
              call.request \in Calls /\ call.result \in Outcomes
<1>1. CASE call \in [pc : {"intercept", "authorize", "verify", "acquire", "running"}, request : Calls]
  BY <1>1 DEF NoCall
<1>2. CASE call \in [pc : {"record"}, request : Calls, result : Outcomes]
  BY <1>2 DEF NoCall
<1>3. CASE call = NoCall
  BY <1>3 DEF NoCall
<1>4. CASE call = [pc |-> "cancelled"]
  BY <1>4 DEF NoCall
<1>5. QED
  BY <1>1, <1>2, <1>3, <1>4 DEF InFlight

\* The first state has no call, no event and, for whoever was frozen with it, the taint.
LEMMA DispatchInitHolds == DispatchInit => DispatchInv
<1> SUFFICES ASSUME DispatchInit PROVE DispatchInv
  OBVIOUS
<1>1. DOMAIN trail = {} /\ trail \in Seq(Event)
  BY DEF DispatchInit
<1>2. \A k : Counted(k) = 0
  BY <1>1, FS_EmptySet DEF Counted
<1>3. DispatchTypeOK
  BY <1>1 DEF DispatchInit, DispatchTypeOK
<1>4. Books
  BY <1>2 DEF DispatchInit, Books, Decided, Ended, NoCall
<1>5. Trajectories /\ TaintPrecedesWrites /\ Marked /\ Clean
  BY <1>1 DEF DispatchInit, Trajectories, TaintPrecedesWrites, Marked, Announced, Clean, NoCall
<1>6. QED
  BY <1>3, <1>4, <1>5 DEF DispatchInv

\* What is counted is a number.
LEMMA CountedIsNat == DispatchTypeOK => \A k : Counted(k) \in Nat
<1> SUFFICES ASSUME DispatchTypeOK, NEW k PROVE Counted(k) \in Nat
  OBVIOUS
<1>1. IsFiniteSet(1..Len(trail)) /\ DOMAIN trail = 1..Len(trail)
  BY FS_Interval DEF DispatchTypeOK
<1>2. IsFiniteSet({i \in DOMAIN trail : trail[i].kind = k})
  BY <1>1, FS_Subset
<1>3. QED
  BY <1>2, FS_CardinalityType DEF Counted

\* Without an event, all that is said of the trail stays as it was.
LEMMA QuietHolds ==
  ASSUME DispatchInv, UNCHANGED busVars, call.pc # "cancelled"
  PROVE  /\ Trajectories' /\ TaintPrecedesWrites' /\ (Announced' <=> Announced)
         /\ \A k : Counted(k) \in Nat /\ Counted(k)' = Counted(k)
         /\ BusTypes'
BY CountedIsNat DEF busVars, DispatchInv, DispatchTypeOK, BusTypes, Trajectories, TaintPrecedesWrites, Announced, Counted

\* The same of an event, whatever the step does with the call.
LEMMA LoudHolds ==
  ASSUME DispatchInv, NEW e \in Event, Publish(e), Delivered, call.pc # "cancelled",
         e.kind = "authorized" /\ e.tool \in Blocked => ~Announced
  PROVE  /\ Trajectories' /\ TaintPrecedesWrites' /\ (Announced' => Announced \/ e.kind = "tainted")
         /\ \A k : Counted(k) \in Nat /\ Counted(k)' = IF e.kind = k THEN Counted(k) + 1 ELSE Counted(k)
         /\ BusTypes'
<1>1. trail \in Seq(Event) /\ trail' = Append(trail, e)
  BY PublishKeeps DEF DispatchInv, DispatchTypeOK
<1>2. QED
  BY <1>1, PublishKeeps, OrderKept, CountsOne DEF DispatchInv

-----------------------------------------------------------------------------
(* The actions.                                                            *)

\* A call begins with its request and nothing of an earlier call.
LEMMA RequestHolds ==
  ASSUME DispatchInv, NEW c \in Calls, Request(c)
  PROVE  DispatchInv'
<1> DEFINE e == Happened("requested", c, TRUE)
<1>1. e \in Event /\ e.kind = "requested"
  BY HappenedType DEF Happened
<1> HIDE DEF e
<1>2. Publish(e) /\ Delivered /\ call = NoCall /\ UNCHANGED <<grant, lease, tainted>>
      /\ call' = [pc |-> "intercept", request |-> c]
  BY DEF Request, e
<1>3. /\ Trajectories' /\ TaintPrecedesWrites' /\ (Announced' => Announced)
      /\ Counted("requested") \in Nat /\ Counted("requested")' = Counted("requested") + 1
      /\ \A k \in {"denied", "authorized", "completed", "failed"} :
           Counted(k) \in Nat /\ Counted(k)' = Counted(k)
      /\ BusTypes'
  BY <1>1, <1>2, LoudHolds DEF NoCall
<1>4. DispatchTypeOK'
  BY <1>2, <1>3 DEF DispatchInv, DispatchTypeOK, BusTypes, InFlight
<1>5. Books'
  BY <1>2, <1>3 DEF DispatchInv, Books, Decided, Ended, NoCall
<1>6. Marked' /\ Clean'
  BY <1>2, <1>3 DEF DispatchInv, Marked, Clean, NoCall
<1>7. QED
  BY <1>3, <1>4, <1>5, <1>6 DEF DispatchInv

\* A denial ends a call that nothing has been authorized for.
LEMMA DeniedHolds ==
  ASSUME DispatchInv, Denied, Delivered, call.pc \in {"intercept", "authorize", "verify"},
         grant' = "none", UNCHANGED <<lease, tainted>>
  PROVE  DispatchInv'
<1> DEFINE e == Happened("denied", call.request, TRUE)
<1>0. call.request \in Calls
  BY Flight DEF DispatchInv, DispatchTypeOK
<1>1. e \in Event /\ e.kind = "denied"
  BY <1>0, HappenedType DEF Happened
<1> HIDE DEF e
<1>2. Publish(e) /\ call' = NoCall
  BY DEF Denied, e
<1>3. /\ Trajectories' /\ TaintPrecedesWrites' /\ (Announced' => Announced)
      /\ Counted("denied") \in Nat /\ Counted("denied")' = Counted("denied") + 1
      /\ \A k \in {"requested", "authorized", "completed", "failed"} :
           Counted(k) \in Nat /\ Counted(k)' = Counted(k)
      /\ BusTypes'
  BY <1>1, <1>2, LoudHolds DEF NoCall
<1>4. DispatchTypeOK'
  BY <1>2, <1>3 DEF DispatchInv, DispatchTypeOK, BusTypes
<1>5. Books'
  BY <1>2, <1>3 DEF DispatchInv, Books, Decided, Ended, NoCall
<1>6. Marked' /\ Clean'
  BY <1>2, <1>3 DEF DispatchInv, Marked, Clean, NoCall
<1>7. QED
  BY <1>3, <1>4, <1>5, <1>6 DEF DispatchInv

\* A call that goes on quietly to its next step keeps the invariant when that step says the
\* same of the books, the grant and the taint.
LEMMA DispatchQuietStep ==
  ASSUME DispatchInv, UNCHANGED <<busVars, tainted>>, call.pc # "cancelled",
         call' \in InFlight \cup {NoCall, [pc |-> "cancelled"]},
         grant' \in {"none", "live", "expired"}, lease' \in BOOLEAN,
         Books', Marked', Clean'
  PROVE  DispatchInv'
BY QuietHolds DEF DispatchInv, DispatchTypeOK, BusTypes

\* The hook lets the call through, or denies it.
LEMMA InterceptHolds ==
  ASSUME DispatchInv, NEW answer, Intercept(answer)
  PROVE  DispatchInv'
<1>1. call.pc = "intercept" /\ Delivered /\ grant = "none" /\ UNCHANGED <<grant, lease, tainted>>
  BY DEF Intercept, DispatchInv, Books
<1>2. CASE Denied
  BY <1>1, <1>2, DeniedHolds
<1>3. CASE call' = [call EXCEPT !.pc = "authorize"] /\ UNCHANGED busVars
  <2>1. call \in [pc : {"intercept", "authorize", "verify", "acquire", "running"}, request : Calls]
    BY <1>1, Flight DEF DispatchInv, DispatchTypeOK
  <2>2. call'.pc = "authorize" /\ call' \in InFlight
    BY <2>1, <1>3 DEF InFlight
  <2>3. Books'
    BY <1>1, <1>3, <2>2, QuietHolds DEF DispatchInv, Books, Decided, Ended
  <2>4. Marked' /\ Clean'
    BY <1>1, <1>3, <2>2, QuietHolds DEF DispatchInv, Marked, Clean
  <2>5. QED
    BY <1>1, <1>3, <2>2, <2>3, <2>4, DispatchQuietStep DEF DispatchInv, DispatchTypeOK
<1>4. QED
  BY <1>2, <1>3 DEF Intercept

\* The policy engine permits a writing tool in a run it does not know to be tainted only.
LEMMA AuthorizeHolds ==
  ASSUME DispatchInv, Authorize
  PROVE  DispatchInv'
<1>1. call.pc = "authorize" /\ Delivered /\ grant = "none" /\ UNCHANGED <<lease, tainted>>
  BY DEF Authorize, DispatchInv, Books
<1>2. CASE ~Permitted(call.request)
  BY <1>1, <1>2, DeniedHolds DEF Authorize
<1>3. CASE Permitted(call.request)
  <2>1. call \in [pc : {"intercept", "authorize", "verify", "acquire", "running"}, request : Calls]
    BY <1>1, Flight DEF DispatchInv, DispatchTypeOK
  <2>2. call' = [call EXCEPT !.pc = "verify"] /\ grant' = "live" /\ UNCHANGED busVars
    BY <1>3 DEF Authorize
  <2>3. call'.pc = "verify" /\ call'.request = call.request /\ call' \in InFlight
    BY <2>1, <2>2 DEF InFlight
  <2>4. Books'
    BY <1>1, <2>2, <2>3, QuietHolds DEF DispatchInv, Books, Decided, Ended
  <2>5. Marked'
    BY <1>1, <2>2, <2>3, QuietHolds DEF DispatchInv, Marked
  <2>6. Clean'
    BY <1>1, <1>3, <2>3 DEF Permitted, Clean
  <2>7. QED
    BY <1>1, <2>2, <2>3, <2>4, <2>5, <2>6, DispatchQuietStep DEF DispatchInv, DispatchTypeOK
<1>4. QED
  BY <1>2, <1>3

\* The authorization is announced once the grant is found live; a write that waited for it was
\* permitted in a clean run, whose trail announces no taint.
LEMMA VerifyHolds ==
  ASSUME DispatchInv, Verify
  PROVE  DispatchInv'
<1>1. call.pc = "verify" /\ Delivered /\ grant # "none" /\ UNCHANGED <<lease, tainted>>
  BY DEF Verify, DispatchInv, Books
<1>2. CASE grant # "live"
  BY <1>1, <1>2, DeniedHolds DEF Verify
<1>3. CASE grant = "live"
  <2> DEFINE e == Happened("authorized", call.request, TRUE)
  <2>0. /\ call \in [pc : {"intercept", "authorize", "verify", "acquire", "running"}, request : Calls]
        /\ call.request \in Calls
    BY <1>1, Flight DEF DispatchInv, DispatchTypeOK
  <2>1. e \in Event /\ e.kind = "authorized" /\ e.tool = call.request.tool
    BY <2>0, HappenedType DEF Happened
  <2> HIDE DEF e
  <2>2. Publish(e) /\ call' = [call EXCEPT !.pc = "acquire"] /\ UNCHANGED grant
    BY <1>3 DEF Verify, e
  <2>3. e.tool \in Blocked => ~Announced
    BY <1>1, <2>1 DEF DispatchInv, Clean, Marked
  <2>4. /\ Trajectories' /\ TaintPrecedesWrites' /\ (Announced' => Announced)
        /\ Counted("authorized") \in Nat /\ Counted("authorized")' = Counted("authorized") + 1
        /\ \A k \in {"requested", "denied", "completed", "failed"} :
             Counted(k) \in Nat /\ Counted(k)' = Counted(k)
        /\ BusTypes'
    BY <1>1, <2>1, <2>2, <2>3, LoudHolds
  <2>5. call'.pc = "acquire" /\ call' \in InFlight
    BY <2>0, <2>2 DEF InFlight
  <2>6. DispatchTypeOK'
    BY <1>1, <2>2, <2>4, <2>5 DEF DispatchInv, DispatchTypeOK, BusTypes
  <2>7. Books'
    BY <1>1, <2>2, <2>4, <2>5 DEF DispatchInv, Books, Decided, Ended
  <2>8. Marked' /\ Clean'
    BY <1>1, <2>4, <2>5 DEF DispatchInv, Marked, Clean
  <2>9. QED
    BY <2>4, <2>6, <2>7, <2>8 DEF DispatchInv
<1>4. QED
  BY <1>2, <1>3

\* The lease is taken where the tool runs.
LEMMA AcquireHolds ==
  ASSUME DispatchInv, Acquire
  PROVE  DispatchInv'
<1>1. call.pc = "acquire" /\ Delivered /\ lease' = TRUE /\ call' = [call EXCEPT !.pc = "running"]
      /\ UNCHANGED <<grant, tainted, busVars>>
  BY DEF Acquire
<1>2. call \in [pc : {"intercept", "authorize", "verify", "acquire", "running"}, request : Calls]
  BY <1>1, Flight DEF DispatchInv, DispatchTypeOK
<1>3. call'.pc = "running" /\ call' \in InFlight
  BY <1>1, <1>2 DEF InFlight
<1>4. Books'
  BY <1>1, <1>3, QuietHolds DEF DispatchInv, Books, Decided, Ended
<1>5. Marked' /\ Clean'
  BY <1>1, <1>3, QuietHolds DEF DispatchInv, Marked, Clean
<1>6. QED
  BY <1>1, <1>3, <1>4, <1>5, DispatchQuietStep DEF DispatchInv, DispatchTypeOK

\* The result comes back without the lease; one that is not trusted is announced.
LEMMA ReturnHolds ==
  ASSUME DispatchInv, NEW outcome \in Outcomes, Return(outcome)
  PROVE  DispatchInv'
<1>1. /\ call.pc = "running" /\ Delivered /\ lease' = FALSE /\ UNCHANGED <<grant, tainted>>
      /\ call' = [pc |-> "record", request |-> call.request, result |-> outcome]
  BY DEF Return
<1>2. call.request \in Calls
  BY <1>1, Flight DEF DispatchInv, DispatchTypeOK
<1>3. call'.pc = "record" /\ call'.result = outcome /\ call' \in InFlight
  BY <1>1, <1>2 DEF InFlight
<1>4. CASE outcome.trusted
  <2>1. UNCHANGED busVars
    BY <1>4 DEF Return
  <2>2. Books'
    BY <1>1, <1>3, <2>1, QuietHolds DEF DispatchInv, Books, Decided, Ended
  <2>3. Marked' /\ Clean'
    BY <1>1, <1>3, <2>1, QuietHolds DEF DispatchInv, Marked, Clean
  <2>4. QED
    BY <1>1, <1>3, <2>1, <2>2, <2>3, DispatchQuietStep DEF DispatchInv, DispatchTypeOK
<1>5. CASE ~outcome.trusted
  <2> DEFINE e == Happened("tainted", call.request, FALSE)
  <2>1. e \in Event /\ e.kind = "tainted"
    BY <1>2, HappenedType DEF Happened
  <2> HIDE DEF e
  <2>2. Publish(e)
    BY <1>5 DEF Return, e
  <2>3. /\ Trajectories' /\ TaintPrecedesWrites'
        /\ \A k \in {"requested", "denied", "authorized", "completed", "failed"} :
             Counted(k) \in Nat /\ Counted(k)' = Counted(k)
        /\ BusTypes'
    BY <1>1, <2>1, <2>2, LoudHolds
  <2>4. DispatchTypeOK'
    BY <1>1, <1>3, <2>3 DEF DispatchInv, DispatchTypeOK, BusTypes
  <2>5. Books'
    BY <1>1, <1>3, <2>3 DEF DispatchInv, Books, Decided, Ended
  <2>6. Marked' /\ Clean'
    BY <1>3, <1>5 DEF Marked, Clean
  <2>7. QED
    BY <2>3, <2>4, <2>5, <2>6 DEF DispatchInv
<1>6. QED
  BY <1>4, <1>5

\* The result is recorded under its grant, live or expired, and taints the run if it must.
LEMMA RecordHolds ==
  ASSUME DispatchInv, Record
  PROVE  DispatchInv'
<1>1. /\ call.pc = "record" /\ Delivered /\ grant # "none" /\ tainted' = TaintedBy(call.result)
      /\ grant' = "none" /\ call' = NoCall /\ UNCHANGED lease
  BY DEF Record, DispatchInv, Books
<1>2. call.request \in Calls /\ call.result \in Outcomes
  BY <1>1, Flight DEF DispatchInv, DispatchTypeOK
<1>3. tainted' = (tainted \/ ~call.result.trusted) /\ tainted' \in BOOLEAN
  BY <1>1, <1>2 DEF TaintedBy, DispatchInv, DispatchTypeOK
<1> DEFINE kind == IF call.result.error THEN "failed" ELSE "completed"
           e == Happened(kind, call.request, call.result.trusted)
<1>4. call.result.trusted \in BOOLEAN /\ kind \in {"failed", "completed"}
  BY <1>2 DEF Outcomes
<1>5. e \in Event /\ e.kind = kind
  BY <1>2, <1>4, HappenedType DEF Happened
<1>6. Publish(e)
  BY DEF Record
<1> HIDE DEF kind, e
<1>7. /\ Trajectories' /\ TaintPrecedesWrites' /\ (Announced' => Announced)
      /\ \A k \in {"requested", "denied", "authorized", "completed", "failed"} :
           Counted(k) \in Nat /\ Counted(k)' = IF kind = k THEN Counted(k) + 1 ELSE Counted(k)
      /\ BusTypes'
  BY <1>1, <1>4, <1>5, <1>6, LoudHolds
<1>8. DispatchTypeOK'
  BY <1>1, <1>3, <1>7 DEF DispatchInv, DispatchTypeOK, BusTypes
<1>9. Books'
  BY <1>1, <1>4, <1>7 DEF DispatchInv, Books, Decided, Ended, NoCall
<1>10. Marked' /\ Clean'
  <2>1. Announced' => tainted'
    BY <1>1, <1>3, <1>7 DEF DispatchInv, Marked
  <2>2. QED
    BY <1>1, <2>1 DEF Marked, Clean, NoCall
<1>11. QED
  BY <1>7, <1>8, <1>9, <1>10 DEF DispatchInv

\* A grant expires where it was.
LEMMA ExpireHolds ==
  ASSUME DispatchInv, Expire
  PROVE  DispatchInv'
<1>1. UNCHANGED <<call, lease, tainted, busVars>> /\ grant # "none" /\ grant' = "expired" /\ call.pc # "cancelled"
  BY DEF Expire
<1>2. Books'
  BY <1>1, QuietHolds DEF DispatchInv, Books, Decided, Ended
<1>3. Marked' /\ Clean'
  BY <1>1, QuietHolds DEF DispatchInv, Marked, Clean
<1>4. QED
  BY <1>1, <1>2, <1>3, DispatchQuietStep DEF Expire, DispatchInv, DispatchTypeOK

\* A cancelled call gives its lease back, and whoever had the event in hand goes without it.
LEMMA CancelHolds ==
  ASSUME DispatchInv, Cancel
  PROVE  DispatchInv'
<1>1. /\ call' = [pc |-> "cancelled"] /\ lease' = FALSE /\ awaiting' = {}
      /\ UNCHANGED <<grant, tainted, trail, seen, quarantined>>
  BY DEF Cancel
<1>2. \A k : Counted(k) \in Nat /\ Counted(k)' = Counted(k)
  BY <1>1, CountedIsNat DEF Counted, DispatchInv
<1>3. Books'
  BY <1>1, <1>2 DEF DispatchInv, Books, Decided, Ended
<1>4. DispatchTypeOK' /\ Trajectories' /\ TaintPrecedesWrites' /\ Marked' /\ Clean'
  BY <1>1 DEF DispatchInv, DispatchTypeOK, Trajectories, TaintPrecedesWrites, Marked, Clean
<1>5. QED
  BY <1>3, <1>4 DEF DispatchInv

\* An observer that is done has the whole trail, unless it failed; in either case what it has
\* is a prefix.
LEMMA ObserveHolds ==
  ASSUME DispatchInv, NEW o \in Observers, Observe(o)
  PROVE  DispatchInv'
<1>1. UNCHANGED <<call, grant, lease, tainted, trail>> /\ o \in awaiting /\ awaiting' = awaiting \ {o}
  BY DEF Observe
<1>2. PICK recorded \in BOOLEAN, fails \in BOOLEAN :
        /\ recorded \/ fails
        /\ seen' = IF recorded THEN [seen EXCEPT ![o] = @ \cup {Len(trail)}] ELSE seen
        /\ quarantined' = IF fails THEN quarantined \cup {o} ELSE quarantined
  BY DEF Observe
<1>3. trail \in Seq(Event) /\ Len(trail) \in Nat \ {0} /\ DOMAIN trail = 1..Len(trail)
  BY <1>1 DEF DispatchInv, DispatchTypeOK, Trajectories
<1>4. seen \in [Observers -> SUBSET Nat] /\ quarantined \subseteq Observers
  BY DEF DispatchInv, DispatchTypeOK
<1>5. seen' \in [Observers -> SUBSET Nat] /\ quarantined' \subseteq Observers /\ quarantined \subseteq quarantined'
  BY <1>2, <1>3, <1>4
<1>6. DispatchTypeOK'
  BY <1>1, <1>5 DEF DispatchInv, DispatchTypeOK
<1>7. ASSUME NEW p \in Observers
      PROVE  /\ seen'[p] \subseteq DOMAIN trail /\ \A i \in seen'[p] : 1..i \subseteq seen'[p]
             /\ p \notin quarantined' => 1..(Len(trail) - 1) \subseteq seen'[p]
             /\ p \notin quarantined' \cup awaiting' /\ call.pc # "cancelled" => seen'[p] = DOMAIN trail
  <2>1. /\ seen[p] \subseteq 1..Len(trail) /\ \A i \in seen[p] : 1..i \subseteq seen[p]
        /\ p \notin quarantined => 1..(Len(trail) - 1) \subseteq seen[p]
        /\ p \notin quarantined \cup awaiting /\ call.pc # "cancelled" => seen[p] = 1..Len(trail)
    BY <1>3 DEF DispatchInv, Trajectories
  <2>2. CASE p # o \/ ~recorded
    <3>1. seen'[p] = seen[p]
      BY <2>2, <1>2, <1>4
    <3>2. p \notin quarantined' \cup awaiting' => p \notin quarantined \cup awaiting
      BY <2>2, <1>1, <1>2
    <3>3. QED
      BY <2>1, <3>1, <3>2, <1>3, <1>5
  <2>3. CASE p = o /\ recorded
    <3>1. seen'[p] = seen[p] \cup {Len(trail)}
      BY <2>3, <1>2, <1>4
    <3>2. 1..Len(trail) = 1..(Len(trail) - 1) \cup {Len(trail)}
      BY <1>3
    <3>3. p \notin quarantined
      BY <2>3, <1>1 DEF DispatchInv, Trajectories
    <3>4. seen'[p] = 1..Len(trail)
      BY <2>1, <3>1, <3>2, <3>3
    <3>5. QED
      BY <3>4, <1>3
  <2>4. QED
    BY <2>2, <2>3
<1>8. awaiting' \cap quarantined' = {} /\ trail' # <<>>
  BY <1>1, <1>2 DEF DispatchInv, Trajectories
<1>9. Trajectories'
  BY <1>1, <1>7, <1>8 DEF Trajectories
<1>10. Books' /\ TaintPrecedesWrites' /\ Marked' /\ Clean'
  BY <1>1 DEF DispatchInv, Books, Decided, Ended, Counted, TaintPrecedesWrites, Marked, Announced, Clean
<1>11. QED
  BY <1>6, <1>9, <1>10 DEF DispatchInv

\* Every step keeps the invariant.
LEMMA DispatchStepHolds == DispatchInv /\ [DispatchNext]_dispatchVars => DispatchInv'
<1> SUFFICES ASSUME DispatchInv, [DispatchNext]_dispatchVars PROVE DispatchInv'
  OBVIOUS
<1>1. CASE UNCHANGED dispatchVars
  BY <1>1 DEF dispatchVars, busVars, DispatchInv, DispatchTypeOK, Trajectories, Books, Decided, Ended, Counted,
              TaintPrecedesWrites, Marked, Announced, Clean
<1>2. CASE DispatchNext
  BY <1>2, RequestHolds, InterceptHolds, AuthorizeHolds, VerifyHolds, AcquireHolds, ReturnHolds, RecordHolds,
     ExpireHolds, CancelHolds, ObserveHolds DEF DispatchNext
<1>3. QED
  BY <1>1, <1>2

-----------------------------------------------------------------------------
(* The theorems.                                                           *)

\* The invariant in every state of every run.
LEMMA DispatchInvariant == DispatchSpec => []DispatchInv
BY DispatchInitHolds, DispatchStepHolds, PTL DEF DispatchSpec

\* What the variables are.
THEOREM DispatchTypes == DispatchSpec => []DispatchTypeOK
<1>1. DispatchInv => DispatchTypeOK
  BY DEF DispatchInv
<1>2. QED
  BY <1>1, DispatchInvariant, PTL

\* However the clock, the observers and the tools behave, no write is authorized after a result
\* that taints the run has been announced (TaintGate).
THEOREM NoWriteAfterTaint == DispatchSpec => []TaintPrecedesWrites
<1>1. DispatchInv => TaintPrecedesWrites
  BY DEF DispatchInv
<1>2. QED
  BY <1>1, DispatchInvariant, PTL

\* A trajectory may end before its run does and has no hole, for any number of observers, in
\* whatever order they take an event and wherever the run is cancelled; an observer still called
\* lacks no event but the one being delivered, or cut off by the cancellation (EventBus.emit).
THEOREM PrefixTrajectories == DispatchSpec => []TrajectoryIsAPrefix
<1>1. DispatchInv => TrajectoryIsAPrefix
  <2> SUFFICES ASSUME DispatchInv PROVE TrajectoryIsAPrefix
    OBVIOUS
  <2>1. Len(trail) \in Nat /\ DOMAIN trail = 1..Len(trail)
    BY DEF DispatchInv, DispatchTypeOK
  <2>2. DOMAIN trail \subseteq 1..(Len(trail) - 1) \cup {Len(trail)}
    BY <2>1
  <2>3. QED
    BY <2>2 DEF DispatchInv, Trajectories, TrajectoryIsAPrefix
<1>2. QED
  BY <1>1, DispatchInvariant, PTL

\* Verdicts, outcomes, grants and leases add up over any number of calls (dispatch).
THEOREM AccountedCalls == DispatchSpec => []CallsAreAccountedFor
<1>1. DispatchInv => CallsAreAccountedFor
  <2> SUFFICES ASSUME DispatchInv PROVE CallsAreAccountedFor
    OBVIOUS
  <2>1. \A k : Counted(k) \in Nat
    BY CountedIsNat DEF DispatchInv
  <2>2. call = NoCall => call.pc = "idle"
    BY DEF NoCall
  <2>3. QED
    BY <2>1, <2>2, Flight DEF DispatchInv, Books, Decided, Ended, CallsAreAccountedFor, DispatchTypeOK
<1>2. QED
  BY <1>1, DispatchInvariant, PTL

-----------------------------------------------------------------------------
(* Sandbox: it never says it is started when it is not, and its lock is    *)
(* with the one task inside start or aclose, in both network modes.        *)
(* What a start has made so far is what its step says: the proxy before    *)
(* the container, the container before podman starts it, all of this start.*)
(* Only the holder of the lock changes any of it, and nothing is started   *)
(* while somebody holds the lock.                                          *)

\* the object's proxy is the one that listens at the path
Proxied ==
  /\ Restricted => handle.proxy # 0 /\ socket = handle.proxy /\ handle.proxy \in listening
  /\ ~Restricted => handle.proxy = 0

\* the object's container is the one podman has, with the object's proxy mounted
Own ==
  /\ container.id = handle.cid /\ container.id # 0
  /\ Restricted => handle.proxy = container.socket

Unstarted(c) ==
  /\ task[c] \in Holding => ~handle.started
  /\ task[c] = "create" => starts # 0
  /\ task[c] \in Starting => Proxied
  /\ task[c] \in {"boot", "forward", "probe"} => Own
  /\ task[c] \in {"forward", "probe"} => container.state \in {"running", "exited"}

SandboxInv ==
  /\ SandboxTypeOK
  /\ LockHasItsOwner
  /\ StartedIsReady
  /\ ~Restricted => handle.proxy = 0
  /\ \A c \in Callers : Unstarted(c)

\* The first state has no container, no proxy and nobody at the lock.
LEMMA SandboxInitHolds == SandboxAssumption /\ SandboxInit => SandboxInv
BY DEF SandboxAssumption, SandboxInit, SandboxInv, SandboxTypeOK, LockHasItsOwner, StartedIsReady, Unstarted,
       Steps, Starting, Holding, Ids, States, NewHandle, NoContainer, Nobody

\* the step of a caller
Acts(c) ==
  \/ Use(c) \/ EnterStarted(c) \/ BeginStart(c) \/ Create(c) \/ CreateFails(c) \/ Boot(c) \/ BootFails(c)
  \/ Forward(c) \/ ForwardFails(c) \/ Probed(c) \/ Exit(c)
  \/ Close(c) \/ Forget(c) \/ Remove(c) \/ Unlisten(c) \/ Interrupt(c)

\* Every step is of one caller, which takes the lock, keeps it, gives it back or does without;
\* it stays inside the types and the lock stays with the task that starts or closes.
LEMMA SandboxLockHolds ==
  ASSUME SandboxAssumption, SandboxTypeOK, LockHasItsOwner, NEW c \in Callers, Acts(c)
  PROVE  SandboxTypeOK' /\ LockHasItsOwner'
<1> USE DEF SandboxAssumption, SandboxTypeOK, LockHasItsOwner, Steps, Starting, Holding, Ids, To, CloseProxy, Created, Nobody, NoContainer, States
<1>a. /\ [container EXCEPT !.state = "running"] \in [id : Ids \cup {0}, state : States, socket : Ids \cup {0}]
      /\ [handle EXCEPT !.started = TRUE] \in [cid : Ids \cup {0}, proxy : Ids \cup {0}, started : BOOLEAN]
  OBVIOUS
<1>1. CASE Use(c) BY <1>1 DEF Use
<1>2. CASE EnterStarted(c) BY <1>2 DEF EnterStarted
<1>3. CASE BeginStart(c) BY <1>3 DEF BeginStart
<1>4. CASE Create(c) BY <1>4 DEF Create
<1>5. CASE CreateFails(c) BY <1>5 DEF CreateFails
<1>6. CASE Boot(c)
  <2>1. SandboxTypeOK'
    BY <1>6, <1>a DEF Boot
  <2>2. LockHasItsOwner'
    BY <1>6 DEF Boot
  <2>3. QED
    BY <2>1, <2>2
<1>7. CASE BootFails(c) BY <1>7 DEF BootFails
<1>8. CASE Forward(c) BY <1>8 DEF Forward
<1>9. CASE ForwardFails(c) BY <1>9 DEF ForwardFails
<1>10. CASE Probed(c) BY <1>10 DEF Probed
<1>11. CASE Exit(c) BY <1>11 DEF Exit
<1>12. CASE Close(c) BY <1>12 DEF Close
<1>13. CASE Forget(c) BY <1>13 DEF Forget
<1>14. CASE Remove(c) BY <1>14 DEF Remove
<1>15. CASE Unlisten(c) BY <1>15 DEF Unlisten
<1>16. CASE Interrupt(c)
  <2>1. task' = [task EXCEPT ![c] = "idle"] /\ task' \in [Callers -> Steps]
    BY <1>16 DEF Interrupt
  <2>2. SandboxTypeOK'
    <3>1. container' \in [id : Ids \cup {0}, state : States, socket : Ids \cup {0}]
      <4>1. CASE container' = container
        BY <4>1
      <4>2. CASE container' = NoContainer
        BY <4>2
      <4>3. CASE container' = [id |-> starts, state |-> "created", socket |-> handle.proxy]
        <5>1. starts \in Ids \cup {0} /\ handle.proxy \in Ids \cup {0}
          OBVIOUS
        <5>2. QED
          BY <4>3, <5>1
      <4>4. CASE container' = [container EXCEPT !.state = "running"]
        BY <4>4, <1>a
      <4>5. QED
        BY <1>16, <4>1, <4>2, <4>3, <4>4 DEF Interrupt
    <3>2. QED
      BY <1>16, <2>1, <3>1 DEF Interrupt
  <2>3. LockHasItsOwner'
    BY <1>16, <2>1 DEF Interrupt
  <2>4. QED
    BY <2>2, <2>3
<1> QED BY <1>1, <1>2, <1>3, <1>4, <1>5, <1>6, <1>7, <1>8, <1>9, <1>10, <1>11, <1>12, <1>13, <1>14, <1>15, <1>16 DEF Acts

\* The others are as they were: whoever changes more than its own step holds the lock, or
\* takes it from nobody.
LEMMA SandboxOthersHold ==
  ASSUME SandboxAssumption, SandboxInv, NEW c \in Callers, Acts(c), NEW d \in Callers \ {c}
  PROVE  Unstarted(d)'
<1>1. task'[d] = task[d]
  BY DEF SandboxInv, SandboxTypeOK, Acts, Use, EnterStarted, BeginStart, Create, CreateFails, Boot, BootFails, Forward, ForwardFails, Probed, Exit, Close, Forget, Remove, Unlisten, Interrupt, To
<1>2. CASE task[d] \notin Holding
  BY <1>1, <1>2 DEF Unstarted, Starting, Holding
<1>3. CASE task[d] \in Holding
  <2>1. holder = d /\ task[c] \notin Holding
    BY <1>3 DEF SandboxInv, LockHasItsOwner
  <2>2. UNCHANGED <<handle, container, listening, socket, starts>>
    BY <2>1 DEF SandboxInv, SandboxAssumption, Acts, Use, EnterStarted, BeginStart, Create, CreateFails, Boot, BootFails, Forward, ForwardFails, Probed, Exit, Close, Forget, Remove, Unlisten, Interrupt, Holding, Starting, Nobody, sandboxVars
  <2>3. QED
    BY <1>1, <2>2 DEF SandboxInv, Unstarted, Proxied, Own
<1>4. QED
  BY <1>2, <1>3

\* A step leaves its own caller with what its next step says.
LEMMA SandboxOwnHolds ==
  ASSUME SandboxAssumption, SandboxInv, NEW c \in Callers, Acts(c)
  PROVE  Unstarted(c)' /\ StartedIsReady' /\ (~Restricted => handle'.proxy = 0)
<1> USE DEF SandboxAssumption, SandboxInv, SandboxTypeOK, StartedIsReady, Unstarted, Steps, Starting, Holding, Ids, To,
            Own, Proxied
<1>0. Unstarted(c) /\ (holder = c <=> task[c] \in Holding)
  BY DEF LockHasItsOwner
<1>1. CASE Use(c) BY <1>0, <1>1 DEF Use
<1>2. CASE EnterStarted(c) BY <1>0, <1>2 DEF EnterStarted
<1>3. CASE BeginStart(c) BY <1>0, <1>3 DEF BeginStart
<1>4. CASE Create(c) BY <1>0, <1>4 DEF Create, Created
<1>5. CASE CreateFails(c) BY <1>0, <1>5 DEF CreateFails, CloseProxy
<1>6. CASE Boot(c) BY <1>0, <1>6 DEF Boot
<1>7. CASE BootFails(c) BY <1>0, <1>7 DEF BootFails
<1>8. CASE Forward(c) BY <1>0, <1>8 DEF Forward
<1>9. CASE ForwardFails(c) BY <1>0, <1>9 DEF ForwardFails
<1>10. CASE Probed(c) BY <1>0, <1>10 DEF Probed
<1>11. CASE Exit(c) BY <1>0, <1>11 DEF Exit
<1>12. CASE Close(c) BY <1>0, <1>12 DEF Close
<1>13. CASE Forget(c) BY <1>0, <1>13 DEF Forget
<1>14. CASE Remove(c) BY <1>0, <1>14 DEF Remove, NoContainer
<1>15. CASE Unlisten(c) BY <1>0, <1>15 DEF Unlisten, CloseProxy
<1>16. CASE Interrupt(c) BY <1>0, <1>16 DEF Interrupt, Created, NoContainer
<1> QED BY <1>1, <1>2, <1>3, <1>4, <1>5, <1>6, <1>7, <1>8, <1>9, <1>10, <1>11, <1>12, <1>13, <1>14, <1>15, <1>16 DEF Acts

\* A container that exits was started.
LEMMA ContainerExitHolds ==
  ASSUME SandboxInv, ContainerExits
  PROVE  SandboxInv'
<1>1. /\ UNCHANGED <<task, holder, handle, listening, socket, starts>>
      /\ container' = [container EXCEPT !.state = "exited"]
  BY DEF ContainerExits
<1>2. /\ container' \in [id : Ids \cup {0}, state : States, socket : Ids \cup {0}]
      /\ container'.id = container.id /\ container'.socket = container.socket /\ container'.state = "exited"
  BY <1>1 DEF SandboxInv, SandboxTypeOK, States
<1>3. QED
  BY <1>1, <1>2 DEF SandboxInv, SandboxTypeOK, LockHasItsOwner, StartedIsReady, Unstarted, Proxied, Own

\* Every step of a sandbox keeps the invariant.
LEMMA SandboxStepHolds ==
  ASSUME SandboxAssumption, SandboxInv, SandboxNext
  PROVE  SandboxInv'
<1>0. CASE ContainerExits
  BY <1>0, ContainerExitHolds
<1>1. CASE \E c \in Callers : Acts(c)
  <2>1. PICK c \in Callers : Acts(c)
    BY <1>1
  <2>2. SandboxTypeOK' /\ LockHasItsOwner'
    BY <2>1, SandboxLockHolds DEF SandboxInv
  <2>3. \A d \in Callers : Unstarted(d)'
    BY <2>1, SandboxOthersHold, SandboxOwnHolds
  <2>4. QED
    BY <2>1, <2>2, <2>3, SandboxOwnHolds DEF SandboxInv
<1>2. QED
  BY <1>0, <1>1 DEF SandboxNext, Acts

\* The invariant holds along every behaviour.
LEMMA SandboxInvariant ==
  ASSUME SandboxAssumption
  PROVE  SandboxSpec => []SandboxInv
<1>1. SandboxInit => SandboxInv
  BY SandboxInitHolds
<1>2. SandboxInv /\ [SandboxNext]_sandboxVars => SandboxInv'
  <2>1. CASE UNCHANGED sandboxVars
    BY <2>1 DEF SandboxInv, SandboxTypeOK, LockHasItsOwner, StartedIsReady, Unstarted, Proxied, Own, sandboxVars
  <2>2. QED
    BY <2>1, SandboxStepHolds
<1>3. QED
  BY <1>1, <1>2, PTL DEF SandboxSpec

\* The sandbox keeps its shape for any callers and any number of starts.
THEOREM SandboxTypes ==
  ASSUME SandboxAssumption
  PROVE  SandboxSpec => []SandboxTypeOK
<1>1. SandboxInv => SandboxTypeOK
  BY DEF SandboxInv
<1>2. QED
  BY <1>1, SandboxInvariant, PTL

\* A sandbox that says it is started names a container that podman has started, behind its proxy,
\* and the lock is with a task inside start() or aclose() or with nobody, whatever failed, exited
\* or was cancelled; that its owner goes on is not part of it (start, aclose).
THEOREM SoundSandbox ==
  ASSUME SandboxAssumption
  PROVE  SandboxSpec => []SandboxIsSound
<1>1. SandboxInv => SandboxIsSound
  BY DEF SandboxInv, SandboxIsSound
<1>2. QED
  BY <1>1, SandboxInvariant, PTL

-----------------------------------------------------------------------------
(* Providers (v1 cassette, v2 session, v3 call, v4 answers, v5             *)
(* recorded): a replay is told the recording.                              *)
(* What a replay was told are entries it holds, each in its turn among     *)
(* those with its digest (ToldInTurn): so the entries of the same          *)
(* requests are those of the recording, whatever else is served between    *)
(* them.                                                                   *)

\* The instance's cardinality is the library's.
LEMMA ModelCardinality == ASSUME NEW S PROVE Model!Cardinality(S) = Cardinality(S)
BY DEF Model!Cardinality, Cardinality

\* Two entries of one digest have different turns.
LEMMA TurnsDiffer ==
  ASSUME NEW entries \in Seq(Model!Entry), NEW i \in DOMAIN entries, NEW k \in DOMAIN entries,
         entries[i].digest = entries[k].digest, Model!Turn(entries, i) = Model!Turn(entries, k)
  PROVE  i = k
<1> DEFINE D == Model!Digested(entries, entries[i].digest)
           Before(n) == {j \in D : j < n}
<1>1. Len(entries) \in Nat /\ DOMAIN entries = 1..Len(entries)
  OBVIOUS
<1>2. D \subseteq 1..Len(entries) /\ i \in D /\ k \in D
  BY <1>1 DEF Model!Digested
<1>3. IsFiniteSet(D)
  <2>1. IsFiniteSet(1..Len(entries)) BY <1>1, FS_Interval
  <2>2. QED BY <1>2, <2>1, FS_Subset
<1>4. Cardinality(Before(i)) = Cardinality(Before(k))
  BY ModelCardinality DEF Model!Turn
<1>5. ASSUME NEW a \in D, NEW b \in D, a < b, Cardinality(Before(a)) = Cardinality(Before(b))
      PROVE  FALSE
  <2>0. \A j \in D : j \in Int
    BY <1>2
  <2>1. IsFiniteSet(Before(b)) /\ Before(a) \subseteq Before(b)
    <3>1. Before(b) \subseteq D OBVIOUS
    <3>2. Before(a) \subseteq Before(b) BY <1>5, <2>0
    <3>3. QED BY <1>3, <3>1, <3>2, FS_Subset
  <2> HIDE DEF Before
  <2>2. Before(a) = Before(b)
    BY <1>5, <2>1, FS_Subset
  <2> USE DEF Before
  <2>3. a \in Before(b) /\ a \notin Before(a)
    BY <1>5, <2>0
  <2>4. QED
    BY <2>2, <2>3
<1>6. i < k \/ k < i \/ i = k
  BY <1>1
<1>7. QED
  BY <1>2, <1>4, <1>5, <1>6

\* A turn is counted over the digests of the entries before.
LEMMA TurnOfDigests ==
  ASSUME NEW a \in Seq(Model!Entry), NEW b \in Seq(Model!Entry), NEW i \in DOMAIN a, i \in DOMAIN b,
         \A j \in 1..i : a[j].digest = b[j].digest
  PROVE  Model!Turn(a, i) = Model!Turn(b, i)
<1>1. i \in Nat /\ i >= 1 /\ 1..i \subseteq DOMAIN a /\ 1..i \subseteq DOMAIN b
  OBVIOUS
<1>2. a[i].digest = b[i].digest
  BY <1>1
<1>3. {j \in Model!Digested(a, a[i].digest) : j < i} = {j \in Model!Digested(b, b[i].digest) : j < i}
  <2>1. ASSUME NEW j, j \in DOMAIN a \/ j \in DOMAIN b, j < i
        PROVE  j \in 1..i
    BY <2>1
  <2>2. QED
    BY <1>1, <1>2, <2>1 DEF Model!Digested
<1>4. QED
  BY <1>3 DEF Model!Turn

\* The turn of an entry that is appended is how many of its digest there were.
LEMMA AppendedTurn ==
  ASSUME NEW log \in Seq(Model!Entry), NEW e \in Model!Entry
  PROVE  /\ Model!Turn(Append(log, e), Len(log) + 1) = Model!Served(log, e.digest)
         /\ \A i \in DOMAIN log : Model!Turn(Append(log, e), i) = Model!Turn(log, i)
<1> DEFINE more == Append(log, e)
<1>1. more \in Seq(Model!Entry) /\ Len(more) = Len(log) + 1 /\ Len(log) \in Nat /\ more[Len(log) + 1] = e
  OBVIOUS
<1>2. \A i \in DOMAIN log : more[i] = log[i] /\ i \in DOMAIN more /\ i \in 1..Len(log)
  OBVIOUS
<1>3. DOMAIN more = 1..(Len(log) + 1) /\ DOMAIN log = 1..Len(log)
  BY <1>1
<1> HIDE DEF more
<1>4. {j \in Model!Digested(more, e.digest) : j < Len(log) + 1} = Model!Digested(log, e.digest)
  BY <1>1, <1>2, <1>3 DEF Model!Digested
<1>5. Model!Turn(more, Len(log) + 1) = Model!Served(log, e.digest)
  BY <1>1, <1>4 DEF Model!Turn, Model!Served
<1>6. ASSUME NEW i \in DOMAIN log
      PROVE  Model!Turn(more, i) = Model!Turn(log, i)
  <2>1. \A j \in 1..i : more[j].digest = log[j].digest
    BY <1>2, <1>3
  <2>2. QED
    BY <1>1, <1>2, <2>1, TurnOfDigests
<1>7. QED
  BY <1>5, <1>6 DEF more

\* A replay that is given what is due stays told in turn.
LEMMA ServedInTurn ==
  ASSUME NEW held \in Seq(Model!Entry), NEW log \in Seq(Model!Entry), NEW d, NEW k \in Model!Due(held, log, d),
         Model!ToldInTurn(held, log)
  PROVE  Append(log, held[k]) \in Seq(Model!Entry) /\ Model!ToldInTurn(held, Append(log, held[k]))
<1> DEFINE more == Append(log, held[k])
<1>1. k \in DOMAIN held /\ held[k].digest = d /\ Model!Turn(held, k) = Model!Served(log, d) /\ held[k] \in Model!Entry
  BY DEF Model!Due, Model!Digested
<1>2. more \in Seq(Model!Entry) /\ Len(more) = Len(log) + 1 /\ Len(log) \in Nat /\ more[Len(log) + 1] = held[k]
  BY <1>1
<1>3. \A i \in 1..Len(log) : more[i] = log[i]
  BY <1>1
<1>4. /\ Model!Turn(more, Len(log) + 1) = Model!Turn(held, k)
      /\ \A i \in 1..Len(log) : Model!Turn(more, i) = Model!Turn(log, i)
  BY <1>1, AppendedTurn
<1> HIDE DEF more
<1>5. ASSUME NEW i \in 1..(Len(log) + 1)
      PROVE  \E n \in DOMAIN held : more[i] = held[n] /\ Model!Turn(held, n) = Model!Turn(more, i)
  <2>1. CASE i = Len(log) + 1
    BY <1>1, <1>2, <1>4, <2>1
  <2>2. CASE i \in 1..Len(log)
    <3>1. PICK n \in DOMAIN held : log[i] = held[n] /\ Model!Turn(held, n) = Model!Turn(log, i)
      BY <2>2 DEF Model!ToldInTurn
    <3>2. QED
      BY <1>3, <1>4, <2>2, <3>1
  <2>3. QED
    BY <1>2, <2>1, <2>2
<1>6. DOMAIN more = 1..(Len(log) + 1)
  BY <1>2
<1>7. QED
  BY <1>2, <1>5, <1>6 DEF Model!ToldInTurn, more

\* A replay told in turn, of requests with the digests of the recording, is told the recording.
LEMMA ReplayIsTold ==
  ASSUME Model!ProvidersInv
  PROVE  Model!ReplayIsTheRecording
<1> SUFFICES ASSUME NEW s \in Sessions, v2[s].mode = "replay", v2[s].held = v5, Len(v2[s].log) <= Len(v5),
                    \A i \in DOMAIN v2[s].log : v2[s].log[i].digest = v5[i].digest
             PROVE  Model!IsPrefix(v2[s].log, v5)
  BY DEF Model!ReplayIsTheRecording
<1> DEFINE told == v2[s].log
<1>1. told \in Seq(Model!Entry) /\ v5 \in Seq(Model!Entry) /\ Model!ToldInTurn(v5, told)
  BY DEF Model!ProvidersInv, Model!ProvidersTypeOK, Model!SessionStates
<1>2. Len(told) \in Nat /\ Len(v5) \in Nat /\ DOMAIN told = 1..Len(told) /\ DOMAIN v5 = 1..Len(v5)
  BY <1>1
<1>3. \A i \in DOMAIN told : told[i].digest = v5[i].digest
  OBVIOUS
<1>4. Len(told) <= Len(v5)
  OBVIOUS
<1> HIDE DEF told
<1>5. ASSUME NEW i \in DOMAIN told
      PROVE  told[i] = v5[i]
  <2>1. i \in DOMAIN v5 /\ \A j \in 1..i : told[j].digest = v5[j].digest
    BY <1>2, <1>3, <1>4
  <2>2. Model!Turn(told, i) = Model!Turn(v5, i)
    BY <1>1, <2>1, TurnOfDigests
  <2>3. PICK k \in DOMAIN v5 : told[i] = v5[k] /\ Model!Turn(v5, k) = Model!Turn(told, i)
    BY <1>1 DEF Model!ToldInTurn
  <2>4. v5[k].digest = v5[i].digest
    BY <1>3, <2>3
  <2>5. k = i
    BY <1>1, <2>1, <2>2, <2>3, <2>4, TurnsDiffer
  <2>6. QED
    BY <2>3, <2>5
<1>6. SubSeq(told, 1, Len(told)) = SubSeq(v5, 1, Len(told))
  BY <1>1, <1>2, <1>4, <1>5
<1>7. QED
  BY <1>4, <1>6 DEF Model!IsPrefix, told

\* A step of one session leaves what the others were told.
LEMMA OneSession ==
  ASSUME Model!ProvidersInv, Model!ProvidersTypeOK', NEW s \in Sessions,
         \A x \in Sessions \ {s} : v2'[x] = v2[x] /\ v3'[x] = v3[x],
         v3'[s] # Model!NoCall => v2'[s].mode \in {"live", "record"},
         v2'[s].mode = "replay" => Model!ToldInTurn(v2'[s].held, v2'[s].log)
  PROVE  Model!ProvidersInv'
BY DEF Model!ProvidersInv

\* Opening and closing a session keep the invariant.
LEMMA OpenHolds ==
  ASSUME Model!ProvidersInv, NEW s \in Sessions,
         (\E mode \in Model!Modes : Model!Open(s, mode)) \/ Model!Close(s)
  PROVE  Model!ProvidersInv'
<1>1. /\ v2 \in [Sessions -> Model!SessionStates] /\ v3 \in [Sessions -> Model!Calls \cup {Model!NoCall}]
      /\ Model!ProvidersTypeOK
  BY DEF Model!ProvidersInv, Model!ProvidersTypeOK
<1>2. Model!Closed \in Model!SessionStates /\ Model!Closed.mode = "closed"
  BY DEF Model!Closed, Model!SessionStates
<1>3. ASSUME NEW mode \in Model!Modes, Model!Open(s, mode)
      PROVE  Model!ProvidersInv'
  <2> DEFINE new == v2'[s]
  <2>1. /\ v2' = [v2 EXCEPT ![s] = [Model!Closed EXCEPT !.mode = mode,
                     !.held = IF mode = "live" THEN <<>> ELSE v1, !.fresh = mode = "record" /\ v1 = <<>>]]
        /\ v2[s].mode = "closed" /\ UNCHANGED <<v1, v3, v4, v5>>
    BY <1>3 DEF Model!Open
  <2>2. new = [mode |-> mode, held |-> IF mode = "live" THEN <<>> ELSE v1,
               fresh |-> (mode = "record" /\ v1 = <<>>), log |-> <<>>]
    BY <1>1, <2>1 DEF Model!Closed
  <2>3. (IF mode = "live" THEN <<>> ELSE v1) \in Seq(Model!Entry)
    <3>1. <<>> \in Seq(Model!Entry) OBVIOUS
    <3>2. mode = "live" \/ v1 # Model!Torn BY <1>3 DEF Model!Open
    <3>3. v1 = Model!Torn \/ v1 \in Seq(Model!Entry) BY <1>1 DEF Model!ProvidersTypeOK
    <3>4. QED BY <3>1, <3>2, <3>3
  <2>4. (mode = "record" /\ v1 = <<>>) \in BOOLEAN
    OBVIOUS
  <2>5. new \in Model!SessionStates
    <3> DEFINE fresh == mode = "record" /\ v1 = <<>>
               held == IF mode = "live" THEN <<>> ELSE v1
    <3>1. fresh \in BOOLEAN /\ held \in Seq(Model!Entry) /\ <<>> \in Seq(Model!Entry) BY <2>3
    <3>2. new = [mode |-> mode, held |-> held, fresh |-> fresh, log |-> <<>>] BY <2>2
    <3> HIDE DEF fresh, held, new
    <3>3. QED BY <3>1, <3>2 DEF Model!SessionStates, Model!Modes
  <2>6. v2' \in [Sessions -> Model!SessionStates] /\ \A x \in Sessions \ {s} : v2'[x] = v2[x]
    BY <1>1, <2>1, <2>5
  <2>7. Model!ProvidersTypeOK'
    BY <1>1, <2>1, <2>6 DEF Model!ProvidersTypeOK
  <2>8. Model!ToldInTurn(new.held, new.log)
    BY <2>2 DEF Model!ToldInTurn
  <2>9. v3'[s] = Model!NoCall
    BY <2>1 DEF Model!ProvidersInv
  <2>10. QED
    BY <2>1, <2>6, <2>7, <2>8, <2>9, OneSession
<1>4. CASE Model!Close(s)
  <2>1. v2' = [v2 EXCEPT ![s] = Model!Closed] /\ v3[s] = Model!NoCall /\ UNCHANGED <<v1, v3, v4, v5>>
    BY <1>4 DEF Model!Close
  <2>2. v2' \in [Sessions -> Model!SessionStates] /\ v2'[s] = Model!Closed /\ \A x \in Sessions \ {s} : v2'[x] = v2[x]
    BY <1>1, <1>2, <2>1
  <2>3. Model!ProvidersTypeOK'
    BY <1>1, <2>1, <2>2 DEF Model!ProvidersTypeOK
  <2>4. QED
    BY <1>2, <2>1, <2>2, <2>3, OneSession
<1>5. QED
  BY <1>3, <1>4

\* An answer of the cassette keeps the invariant.
LEMMA ServeHolds ==
  ASSUME Model!ProvidersInv, NEW s \in Sessions, NEW d \in Digests, Model!Serve(s, d)
  PROVE  Model!ProvidersInv'
<1>1. /\ v2 \in [Sessions -> Model!SessionStates] /\ v3 \in [Sessions -> Model!Calls \cup {Model!NoCall}]
      /\ Model!ProvidersTypeOK
  BY DEF Model!ProvidersInv, Model!ProvidersTypeOK
<1>2. Model!Closed \in Model!SessionStates /\ Model!Closed.mode = "closed"
  BY DEF Model!Closed, Model!SessionStates
<1>3. v2[s].mode = "replay" /\ UNCHANGED <<v1, v3, v4, v5>>
  BY DEF Model!Serve
<1>4. v3'[s] = Model!NoCall
  BY <1>3 DEF Model!ProvidersInv
<1>5. CASE v2' = [v2 EXCEPT ![s] = Model!Closed]
  <2>1. v2' \in [Sessions -> Model!SessionStates] /\ v2'[s] = Model!Closed /\ \A x \in Sessions \ {s} : v2'[x] = v2[x]
    BY <1>1, <1>2, <1>5
  <2>2. Model!ProvidersTypeOK'
    BY <1>1, <1>3, <2>1 DEF Model!ProvidersTypeOK
  <2>3. QED
    BY <1>2, <1>3, <1>4, <2>1, <2>2, OneSession
<1>6. ASSUME NEW i \in Model!Due(v2[s].held, v2[s].log, d),
             v2' = [v2 EXCEPT ![s].log = Append(@, v2[s].held[i])]
      PROVE  Model!ProvidersInv'
  <2>1. v2[s].held \in Seq(Model!Entry) /\ v2[s].log \in Seq(Model!Entry) /\ v2[s] \in Model!SessionStates
    BY <1>1 DEF Model!SessionStates
  <2>2. Model!ToldInTurn(v2[s].held, v2[s].log)
    BY <1>3 DEF Model!ProvidersInv
  <2> DEFINE log == Append(v2[s].log, v2[s].held[i])
  <2>3. log \in Seq(Model!Entry) /\ Model!ToldInTurn(v2[s].held, log)
    BY <1>6, <2>1, <2>2, ServedInTurn
  <2>4. v2' = [v2 EXCEPT ![s] = [@ EXCEPT !.log = log]]
    BY <1>6
  <2> HIDE DEF log
  <2>5. [v2[s] EXCEPT !.log = log] \in Model!SessionStates
    BY <2>1, <2>3 DEF Model!SessionStates
  <2>6. /\ v2' \in [Sessions -> Model!SessionStates] /\ v2'[s] = [v2[s] EXCEPT !.log = log]
        /\ \A x \in Sessions \ {s} : v2'[x] = v2[x]
    BY <1>1, <2>4, <2>5
  <2>7. v2'[s].held = v2[s].held /\ v2'[s].log = log
    BY <2>1, <2>6 DEF Model!SessionStates
  <2>8. Model!ProvidersTypeOK'
    BY <1>1, <1>3, <2>6 DEF Model!ProvidersTypeOK
  <2>9. QED
    BY <1>3, <1>4, <2>3, <2>6, <2>7, <2>8, OneSession
<1>7. QED
  BY <1>5, <1>6 DEF Model!Serve

\* A call and its posts keep the invariant.
LEMMA CallHolds ==
  ASSUME Model!ProvidersAssumption, Model!ProvidersInv, NEW s \in Sessions,
         (\E d \in Digests : Model!Ask(s, d)) \/ Model!Repost(s)
  PROVE  Model!ProvidersInv'
<1>1. /\ v2 \in [Sessions -> Model!SessionStates] /\ v3 \in [Sessions -> Model!Calls \cup {Model!NoCall}]
      /\ Model!ProvidersTypeOK
  BY DEF Model!ProvidersInv, Model!ProvidersTypeOK
<1>2. NumProviders \in Nat \ {0} /\ Posts \in Nat \ {0} /\ Backoffs \in Nat
  BY DEF Model!ProvidersAssumption
<1>3. UNCHANGED <<v1, v2, v4, v5>>
  BY DEF Model!Ask, Model!Repost
<1>4. v2[s].mode \in {"live", "record"}
  BY DEF Model!Ask, Model!Repost, Model!ProvidersInv
<1>5. \E c \in Model!Calls : v3' = [v3 EXCEPT ![s] = c]
  <2>1. ASSUME NEW d \in Digests, Model!Ask(s, d)
        PROVE  \E c \in Model!Calls : v3' = [v3 EXCEPT ![s] = c]
    <3>1. [digest |-> d, provider |-> 1, attempt |-> 1, post |-> 1] \in Model!Calls
      BY <1>2 DEF Model!Calls
    <3>2. QED
      BY <2>1, <3>1 DEF Model!Ask
  <2>2. ASSUME Model!Repost(s)
        PROVE  \E c \in Model!Calls : v3' = [v3 EXCEPT ![s] = c]
    <3>1. v3[s] \in Model!Calls /\ v3[s].post < Posts
      BY <1>1, <2>2 DEF Model!Repost
    <3>2. v3[s].post + 1 \in 1..Posts
      BY <1>2, <3>1 DEF Model!Calls
    <3>3. [v3[s] EXCEPT !.post = @ + 1] \in Model!Calls
      BY <3>1, <3>2 DEF Model!Calls
    <3>4. v3' = [v3 EXCEPT ![s] = [v3[s] EXCEPT !.post = @ + 1]]
      BY <2>2 DEF Model!Repost
    <3>5. QED
      BY <3>3, <3>4
  <2>3. QED
    BY <2>1, <2>2
<1>6. v3' \in [Sessions -> Model!Calls \cup {Model!NoCall}] /\ \A x \in Sessions \ {s} : v3'[x] = v3[x]
  BY <1>1, <1>5
<1>7. Model!ProvidersTypeOK'
  BY <1>1, <1>3, <1>6 DEF Model!ProvidersTypeOK
<1>8. QED
  BY <1>3, <1>4, <1>6, <1>7, OneSession DEF Model!ProvidersInv

\* An answer of a provider keeps the invariant.
LEMMA AnswerHolds ==
  ASSUME Model!ProvidersAssumption, Model!ProvidersInv, NEW s \in Sessions, Model!Answer(s)
  PROVE  Model!ProvidersInv'
<1> DEFINE log == Append(v2[s].log, Model!Reply(s))
           held == Append(v2[s].held, Model!Reply(s))
<1>1. /\ v2 \in [Sessions -> Model!SessionStates] /\ v3 \in [Sessions -> Model!Calls \cup {Model!NoCall}]
      /\ Model!ProvidersTypeOK /\ v4 \in 0..MaxAnswers /\ MaxAnswers \in Nat
  BY DEF Model!ProvidersInv, Model!ProvidersTypeOK, Model!ProvidersAssumption
<1>2. v3[s] # Model!NoCall /\ v4 < MaxAnswers /\ v4' = v4 + 1 /\ v3' = [v3 EXCEPT ![s] = Model!NoCall]
  BY DEF Model!Answer
<1>3. v2[s].held \in Seq(Model!Entry) /\ v2[s].log \in Seq(Model!Entry) /\ v2[s] \in Model!SessionStates
  BY <1>1 DEF Model!SessionStates
<1>4. v2[s].mode \in {"live", "record"}
  BY <1>2 DEF Model!ProvidersInv
<1>5. Model!Reply(s) \in Model!Entry /\ v4' \in 0..MaxAnswers
  <2>1. v3[s].digest \in Digests BY <1>1, <1>2 DEF Model!Calls
  <2>2. v4 + 1 \in 1..MaxAnswers BY <1>1, <1>2
  <2>3. QED BY <1>2, <2>1, <2>2 DEF Model!Reply, Model!Entry
<1>6. log \in Seq(Model!Entry) /\ held \in Seq(Model!Entry)
  BY <1>3, <1>5
<1>7. \/ /\ v2' = [[v2 EXCEPT ![s].log = log] EXCEPT ![s].held = held]
         /\ v1' = held /\ v5' \in {log, <<>>}
      \/ v2' = [v2 EXCEPT ![s].log = log] /\ UNCHANGED <<v1, v5>>
  BY DEF Model!Answer
<1> HIDE DEF log, held
<1>8. v1' \in Seq(Model!Entry) \cup {Model!Torn} /\ v5' \in Seq(Model!Entry)
  <2>1. <<>> \in Seq(Model!Entry) OBVIOUS
  <2>2. v1 \in Seq(Model!Entry) \cup {Model!Torn} /\ v5 \in Seq(Model!Entry) BY <1>1 DEF Model!ProvidersTypeOK
  <2>3. (v1' = held /\ v5' \in {log, <<>>}) \/ UNCHANGED <<v1, v5>> BY <1>7
  <2>4. QED BY <1>6, <2>1, <2>2, <2>3
<1>9. /\ v2' \in [Sessions -> Model!SessionStates] /\ v2'[s].mode = v2[s].mode
      /\ \A x \in Sessions \ {s} : v2'[x] = v2[x]
  <2>1. CASE v2' = [v2 EXCEPT ![s].log = log]
    <3>1. [v2[s] EXCEPT !.log = log] \in Model!SessionStates
          /\ [v2[s] EXCEPT !.log = log].mode = v2[s].mode
      BY <1>3, <1>6 DEF Model!SessionStates
    <3>2. v2' = [v2 EXCEPT ![s] = [v2[s] EXCEPT !.log = log]]
      BY <2>1
    <3>3. QED
      BY <1>1, <3>1, <3>2
  <2>2. CASE v2' = [[v2 EXCEPT ![s].log = log] EXCEPT ![s].held = held]
    <3>1. [v2[s] EXCEPT !.log = log, !.held = held] \in Model!SessionStates
          /\ [v2[s] EXCEPT !.log = log, !.held = held].mode = v2[s].mode
      BY <1>3, <1>6 DEF Model!SessionStates
    <3>2. v2' = [v2 EXCEPT ![s] = [v2[s] EXCEPT !.log = log, !.held = held]]
      BY <1>1, <2>2
    <3>3. QED
      BY <1>1, <3>1, <3>2
  <2>3. QED
    BY <1>7, <2>1, <2>2
<1>10. /\ v3' \in [Sessions -> Model!Calls \cup {Model!NoCall}] /\ v3'[s] = Model!NoCall
       /\ \A x \in Sessions \ {s} : v3'[x] = v3[x]
  BY <1>1, <1>2
<1>11. Model!ProvidersTypeOK'
  BY <1>5, <1>8, <1>9, <1>10 DEF Model!ProvidersTypeOK
<1>12. QED
  BY <1>4, <1>9, <1>10, <1>11, OneSession

\* A post that fails keeps the invariant.
LEMMA FailHolds ==
  ASSUME Model!ProvidersAssumption, Model!ProvidersInv, NEW s \in Sessions,
         \E error \in {"transient", "fatal", "empty"} : Model!Fail(s, error)
  PROVE  Model!ProvidersInv'
<1>1. /\ v2 \in [Sessions -> Model!SessionStates] /\ v3 \in [Sessions -> Model!Calls \cup {Model!NoCall}]
      /\ Model!ProvidersTypeOK
  BY DEF Model!ProvidersInv, Model!ProvidersTypeOK
<1>2. NumProviders \in Nat \ {0} /\ Posts \in Nat \ {0} /\ Backoffs \in Nat
  BY DEF Model!ProvidersAssumption
<1>3. v3[s] \in Model!Calls /\ v3[s] # Model!NoCall /\ UNCHANGED <<v1, v4, v5>> /\ v2[s].mode \in {"live", "record"}
  BY <1>1 DEF Model!Fail, Model!ProvidersInv
<1>4. \/ /\ v3[s].attempt <= Backoffs /\ v2' = v2
         /\ v3' = [v3 EXCEPT ![s].attempt = @ + 1, ![s].post = 1]
      \/ /\ v3[s].provider < NumProviders /\ v2' = v2
         /\ v3' = [v3 EXCEPT ![s].provider = @ + 1, ![s].attempt = 1, ![s].post = 1]
      \/ v3' = [v3 EXCEPT ![s] = Model!NoCall] /\ v2' = [v2 EXCEPT ![s] = Model!Closed]
  BY DEF Model!Fail
<1>5. \/ v2' = v2 /\ \E c \in Model!Calls : v3' = [v3 EXCEPT ![s] = c]
      \/ v3' = [v3 EXCEPT ![s] = Model!NoCall] /\ v2' = [v2 EXCEPT ![s] = Model!Closed]
  <2>1. 1 \in 1..Posts /\ 1 \in 1..(Backoffs + 1)
    BY <1>2
  <2>2. CASE v3[s].attempt <= Backoffs /\ v3' = [v3 EXCEPT ![s].attempt = @ + 1, ![s].post = 1]
    <3>1. v3[s].attempt + 1 \in 1..(Backoffs + 1) BY <1>2, <1>3, <2>2 DEF Model!Calls
    <3>2. [v3[s] EXCEPT !.attempt = @ + 1, !.post = 1] \in Model!Calls
      BY <1>3, <2>1, <3>1 DEF Model!Calls
    <3>3. v3' = [v3 EXCEPT ![s] = [v3[s] EXCEPT !.attempt = @ + 1, !.post = 1]]
      BY <1>1, <2>2
    <3>4. QED BY <1>4, <3>2, <3>3
  <2>3. CASE v3[s].provider < NumProviders
             /\ v3' = [v3 EXCEPT ![s].provider = @ + 1, ![s].attempt = 1, ![s].post = 1]
    <3>1. v3[s].provider + 1 \in 1..NumProviders BY <1>2, <1>3, <2>3 DEF Model!Calls
    <3>2. [v3[s] EXCEPT !.provider = @ + 1, !.attempt = 1, !.post = 1] \in Model!Calls
      BY <1>3, <2>1, <3>1 DEF Model!Calls
    <3>3. v3' = [v3 EXCEPT ![s] = [v3[s] EXCEPT !.provider = @ + 1, !.attempt = 1, !.post = 1]]
      BY <1>1, <2>3
    <3>4. QED BY <1>4, <3>2, <3>3
  <2>4. QED
    BY <1>4, <2>2, <2>3
<1>6. CASE v2' = v2 /\ \E c \in Model!Calls : v3' = [v3 EXCEPT ![s] = c]
  <2>1. v3' \in [Sessions -> Model!Calls \cup {Model!NoCall}] /\ \A x \in Sessions \ {s} : v3'[x] = v3[x]
    BY <1>1, <1>6
  <2>2. Model!ProvidersTypeOK'
    BY <1>1, <1>3, <1>6, <2>1 DEF Model!ProvidersTypeOK
  <2>3. QED
    BY <1>3, <1>6, <2>1, <2>2, OneSession
<1>7. CASE v3' = [v3 EXCEPT ![s] = Model!NoCall] /\ v2' = [v2 EXCEPT ![s] = Model!Closed]
  <2>1. Model!Closed \in Model!SessionStates /\ Model!Closed.mode = "closed"
    BY DEF Model!Closed, Model!SessionStates
  <2>2. /\ v3' \in [Sessions -> Model!Calls \cup {Model!NoCall}] /\ v3'[s] = Model!NoCall /\ v2'[s] = Model!Closed
        /\ \A x \in Sessions \ {s} : v2'[x] = v2[x] /\ v3'[x] = v3[x]
    BY <1>1, <1>7
  <2>3. v2' \in [Sessions -> Model!SessionStates]
    BY <1>1, <1>7, <2>1
  <2>4. Model!ProvidersTypeOK'
    BY <1>1, <1>3, <2>2, <2>3 DEF Model!ProvidersTypeOK
  <2>5. QED
    BY <2>1, <2>2, <2>4, OneSession
<1>8. QED
  BY <1>5, <1>6, <1>7

\* A death of the process and a removal of the file keep the invariant.
LEMMA DeathHolds ==
  ASSUME Model!ProvidersInv, Model!Die \/ Model!Discard
  PROVE  Model!ProvidersInv'
<1>1. Model!Closed \in Model!SessionStates /\ Model!Closed.mode = "closed"
  BY DEF Model!Closed, Model!SessionStates
<1>2. CASE Model!Die
  <2>1. v2' = [s \in Sessions |-> Model!Closed] /\ v3' = [s \in Sessions |-> Model!NoCall] /\ v1' \in {v1, Model!Torn}
        /\ UNCHANGED <<v4, v5>>
    BY <1>2 DEF Model!Die
  <2>2. QED
    BY <1>1, <2>1 DEF Model!ProvidersInv, Model!ProvidersTypeOK
<1>3. CASE Model!Discard
  <2>1. v1' = <<>> /\ v5' = <<>> /\ UNCHANGED <<v2, v3, v4>> /\ <<>> \in Seq(Model!Entry)
    BY <1>3 DEF Model!Discard
  <2>2. QED
    BY <2>1 DEF Model!ProvidersInv, Model!ProvidersTypeOK
<1>4. QED
  BY <1>2, <1>3

\* The invariant holds at the start.
LEMMA ProvidersInitHolds ==
  ASSUME Model!ProvidersAssumption, Model!ProvidersInit
  PROVE  Model!ProvidersInv
<1>1. Model!Closed \in Model!SessionStates /\ Model!Closed.mode = "closed"
  BY DEF Model!Closed, Model!SessionStates
<1>2. v1 = <<>> /\ v5 = <<>> /\ <<>> \in Seq(Model!Entry)
  BY DEF Model!ProvidersInit
<1>3. v4 \in 0..MaxAnswers
  BY DEF Model!ProvidersInit, Model!ProvidersAssumption
<1>4. v2 = [s \in Sessions |-> Model!Closed] /\ v3 = [s \in Sessions |-> Model!NoCall]
  BY DEF Model!ProvidersInit
<1>5. QED
  BY <1>1, <1>2, <1>3, <1>4 DEF Model!ProvidersInv, Model!ProvidersTypeOK

\* Every step keeps it.
LEMMA ProvidersStepHolds ==
  ASSUME Model!ProvidersAssumption, Model!ProvidersInv, Model!ProvidersNext \/ UNCHANGED slots
  PROVE  Model!ProvidersInv'
<1>1. CASE UNCHANGED slots
  BY <1>1 DEF slots, Model!ProvidersInv, Model!ProvidersTypeOK
<1>2. CASE Model!ProvidersNext
  BY <1>2, OpenHolds, ServeHolds, CallHolds, AnswerHolds, FailHolds, DeathHolds DEF Model!ProvidersNext
<1>3. QED
  BY <1>1, <1>2

\* A provider keeps what its cassette and its sessions rest on.
LEMMA ProvidersInvariant == Spec => [](subject = "providers" => Model!ProvidersInv)
<1> DEFINE Inv == subject = "providers" => Model!ProvidersInv
<1> USE PartsAssumption DEF PartsAssumption
<1>1. Init => Inv
  BY ProvidersInitHolds DEF Init, SlotsInit
<1>2. Inv /\ [Next]_partsVars => Inv'
  <2> SUFFICES ASSUME Model!ProvidersInv, Model!ProvidersNext \/ UNCHANGED slots
               PROVE  Model!ProvidersInv'
    BY DEF Next, SlotsNext, partsVars, slots
  <2>1. QED
    BY ProvidersStepHolds
<1>3. QED
  BY <1>1, <1>2, PTL DEF Spec

\* A replay of the same requests is given the answers of the recording, however the
\* requests of a session interleave (CassetteModelProvider).
THEOREM ReplaysAreFaithful == Spec => []ReplayIsTheRecording
<1>1. (subject = "providers" => Model!ProvidersInv) => ReplayIsTheRecording
  BY ReplayIsTold DEF ReplayIsTheRecording
<1>2. QED
  BY <1>1, ProvidersInvariant, PTL

-----------------------------------------------------------------------------
(* Conversation (v1 exchanges, v2 openFiles, v3 trajectory, v4 turn, v5    *)
(* repairs): the prompt tells every step in order, and of every            *)
(* untrusted one that it is.                                               *)
(* Merging what is no longer kept into one summary adds up what its        *)
(* parts told, by the prefix sums of their steps.                          *)

\* The tail begins at an exchange: the last one is always kept.
LEMMA TailIsKept ==
  ASSUME NEW rest, Len(rest) \in Nat \ {0}
  PROVE  Context!TailStart(rest) \in 1..Len(rest)
<1> DEFINE n == Len(rest)
           S == {i \in 1..(n + 1) : \A j \in i..n : Context!Kept(rest, j)}
           Starts(i) == (\A j \in i..n : Context!Kept(rest, j)) /\ (i > 1 => ~Context!Kept(rest, i - 1))
<1>1. \E i \in 1..(n + 1) : Starts(i)
  <2>1. n + 1 \in S /\ S \subseteq Nat
    OBVIOUS
  <2>2. PICK m \in S : \A k \in S : m <= k
    BY <2>1, LeastNatural
  <2>3. ASSUME m > 1, Context!Kept(rest, m - 1)
        PROVE  FALSE
    <3>1. m \in 1..(n + 1) /\ m - 1 \in 1..(n + 1) BY <2>3
    <3>2. \A j \in (m - 1)..n : Context!Kept(rest, j) BY <2>3, <3>1
    <3>3. m - 1 \in S BY <3>1, <3>2
    <3>4. QED BY <2>2, <3>1, <3>3
  <2>4. QED
    BY <2>3
<1>2. Context!TailStart(rest) \in 1..(n + 1) /\ Starts(Context!TailStart(rest))
  BY <1>1 DEF Context!TailStart
<1>3. Context!TailStart(rest) # n + 1
  BY <1>2 DEF Context!Kept
<1>4. QED
  BY <1>2, <1>3

\* What a concatenation is made of.
LEMMA Joined ==
  ASSUME NEW S, NEW a \in Seq(S), NEW b \in Seq(S)
  PROVE  /\ a \o b \in Seq(S) /\ Len(a \o b) = Len(a) + Len(b)
         /\ \A i \in 1..Len(a) : (a \o b)[i] = a[i]
         /\ \A k \in 1..Len(b) : (a \o b)[Len(a) + k] = b[k]
OBVIOUS

\* A compacted history: s exchanges after the first KeepFirst are one.
Merges(history, s, new) ==
  /\ new \in Seq(Context!Exchange) /\ Len(new) = Len(history) - s + 1
  /\ \A i \in 1..KeepFirst : new[i] = history[i]
  /\ new[KeepFirst + 1] = Context!Summary(SubSeq(SubSeq(history, KeepFirst + 1, Len(history)), 1, s))
  /\ \A i \in (KeepFirst + 2)..Len(new) : new[i] = history[i + s - 1]

\* The summary of a stretch speaks of what its exchanges do, and is tainted by any of them.
LEMMA SummaryOfAStretch ==
  ASSUME NEW history \in Seq(Context!Exchange), Context!ConversationAssumption,
         NEW s \in 1..(Len(history) - KeepFirst)
  PROVE  LET sum == Context!Summary(SubSeq(SubSeq(history, KeepFirst + 1, Len(history)), 1, s)) IN
         /\ sum \in Context!Exchange /\ sum.answered = sum.calls
         /\ \A n : n \in sum.about <=> \E k \in (KeepFirst + 1)..(KeepFirst + s) : n \in history[k].about
         /\ \A k \in (KeepFirst + 1)..(KeepFirst + s) : history[k].tainted => sum.tainted
<1> DEFINE middle == SubSeq(SubSeq(history, KeepFirst + 1, Len(history)), 1, s)
           sum == Context!Summary(middle)
<1>1. KeepFirst \in Nat /\ SummaryTokens \in Nat /\ Len(history) \in Nat
  BY DEF Context!ConversationAssumption
<1>2. middle \in Seq(Context!Exchange) /\ Len(middle) = s /\ \A k \in 1..s : middle[k] = history[KeepFirst + k]
  <2> DEFINE rest == SubSeq(history, KeepFirst + 1, Len(history))
  <2>1. rest \in Seq(Context!Exchange) /\ Len(rest) = Len(history) - KeepFirst
        /\ \A k \in 1..Len(rest) : rest[k] = history[KeepFirst + k]
    BY <1>1
  <2> HIDE DEF rest
  <2>2. SubSeq(rest, 1, s) \in Seq(Context!Exchange) /\ Len(SubSeq(rest, 1, s)) = s
        /\ \A k \in 1..s : SubSeq(rest, 1, s)[k] = rest[k] /\ k \in 1..Len(rest)
    BY <1>1, <2>1
  <2>3. QED
    BY <2>1, <2>2 DEF rest
<1> HIDE DEF middle
<1>3. Context!Range(middle) = {middle[k] : k \in 1..s}
  BY <1>2 DEF Context!Range
<1>4. sum = [about |-> UNION {e.about : e \in Context!Range(middle)}, verbatim |-> FALSE, calls |-> 0, answered |-> 0,
             tainted |-> \E e \in Context!Range(middle) : e.tainted, feedback |-> FALSE, tokens |-> SummaryTokens]
  BY DEF Context!Summary
<1>5. \A n : n \in sum.about <=> \E k \in (KeepFirst + 1)..(KeepFirst + s) : n \in history[k].about
  <2>1. \A n : n \in sum.about <=> \E k \in 1..s : n \in middle[k].about
    BY <1>3, <1>4
  <2>2. \A n : (\E k \in 1..s : n \in middle[k].about)
                 <=> \E k \in (KeepFirst + 1)..(KeepFirst + s) : n \in history[k].about
    <3>1. \A k \in 1..s : KeepFirst + k \in (KeepFirst + 1)..(KeepFirst + s) BY <1>1
    <3>2. \A k \in (KeepFirst + 1)..(KeepFirst + s) : k - KeepFirst \in 1..s /\ KeepFirst + (k - KeepFirst) = k
      BY <1>1
    <3>3. \A k \in (KeepFirst + 1)..(KeepFirst + s) : middle[k - KeepFirst] = history[k] BY <1>2, <3>2
    <3>4. QED BY <1>2, <3>1, <3>2, <3>3
  <2>3. QED
    BY <2>1, <2>2
<1>6. \A k \in (KeepFirst + 1)..(KeepFirst + s) : history[k].tainted => sum.tainted
  <2> SUFFICES ASSUME NEW k \in (KeepFirst + 1)..(KeepFirst + s), history[k].tainted
               PROVE  \E e \in Context!Range(middle) : e.tainted
    BY <1>4
  <2>1. k - KeepFirst \in 1..s /\ KeepFirst + (k - KeepFirst) = k BY <1>1
  <2>2. middle[k - KeepFirst] = history[k] BY <1>2, <2>1
  <2>3. QED BY <1>3, <2>1, <2>2
<1>7. sum \in Context!Exchange
  <2>1. sum.about \in SUBSET (1..MaxSteps)
    <3>0. \A k \in 1..s : middle[k] \in Context!Exchange BY <1>2
    <3>1. \A k \in 1..s : middle[k].about \subseteq 1..MaxSteps BY <3>0 DEF Context!Exchange
    <3>2. sum.about = UNION {e.about : e \in Context!Range(middle)} BY <1>4
    <3>3. QED BY <1>3, <3>1, <3>2
  <2> DEFINE about == UNION {e.about : e \in Context!Range(middle)}
             outside == \E e \in Context!Range(middle) : e.tainted
  <2>2. about \in SUBSET (1..MaxSteps) /\ outside \in BOOLEAN BY <1>4, <2>1
  <2>3. sum = [about |-> about, verbatim |-> FALSE, calls |-> 0, answered |-> 0,
               tainted |-> outside, feedback |-> FALSE, tokens |-> SummaryTokens]
    BY <1>4
  <2> HIDE DEF about, outside, sum
  <2>4. QED BY <1>1, <2>2, <2>3 DEF Context!Exchange
<1>8. sum.answered = sum.calls
  BY <1>4
<1>9. QED
  BY <1>5, <1>6, <1>7, <1>8 DEF middle

\* Compaction merges a stretch after the first KeepFirst exchanges that is not the last one.
LEMMA CompactedMerges ==
  ASSUME NEW history \in Seq(Context!Exchange), Context!ConversationAssumption
  PROVE  LET new == Context!Compacted(history) IN
         new = history \/ \E s \in 1..(Len(history) - KeepFirst - 1) : Merges(history, s, new)
<1> DEFINE L == Len(history)
           head == SubSeq(history, 1, KeepFirst)
           rest == SubSeq(history, KeepFirst + 1, L)
           start == Context!TailStart(rest)
           new == Context!Compacted(history)
<1>0. KeepFirst \in Nat /\ L \in Nat
  BY DEF Context!ConversationAssumption
<1> SUFFICES ASSUME ~(L <= KeepFirst \/ start = 1)
             PROVE  \E s \in 1..(L - KeepFirst - 1) : Merges(history, s, new)
  <2>1. L <= KeepFirst \/ start = 1 => new = history
    BY DEF Context!Compacted
  <2>2. QED
    BY <2>1
<1>1. rest \in Seq(Context!Exchange) /\ Len(rest) = L - KeepFirst
      /\ \A k \in 1..Len(rest) : rest[k] = history[KeepFirst + k]
  BY <1>0
<1>2. head \in Seq(Context!Exchange) /\ Len(head) = KeepFirst /\ \A i \in 1..KeepFirst : head[i] = history[i]
  BY <1>0
<1>3. start \in 2..Len(rest)
  <2>1. Len(rest) \in Nat \ {0} BY <1>0, <1>1
  <2>2. start \in 1..Len(rest) BY <2>1, TailIsKept
  <2> HIDE DEF start, rest
  <2>3. QED BY <2>1, <2>2
<1> DEFINE s == start - 1
           sum == Context!Summary(SubSeq(rest, 1, s))
           tail == SubSeq(rest, start, Len(rest))
<1>4. s \in 1..(L - KeepFirst - 1) /\ start = s + 1
  BY <1>0, <1>1, <1>3
<1>5. sum \in Context!Exchange
  BY <1>0, <1>4, SummaryOfAStretch
<1>6. new = head \o <<sum>> \o tail
  <2>1. QED BY DEF Context!Compacted
<1> HIDE DEF start, new
<1>7. tail \in Seq(Context!Exchange) /\ Len(tail) = L - KeepFirst - s
      /\ \A k \in 1..Len(tail) : tail[k] = history[KeepFirst + s + k]
  <2>1. tail \in Seq(Context!Exchange) /\ Len(tail) = Len(rest) - start + 1
        /\ \A k \in 1..Len(tail) : tail[k] = rest[start + k - 1]
    <3> HIDE DEF rest
    <3> QED BY <1>0, <1>1, <1>3
  <2>2. \A k \in 1..Len(tail) : start + k - 1 \in 1..Len(rest) /\ KeepFirst + (start + k - 1) = KeepFirst + s + k
    <3> HIDE DEF rest, tail
    <3> QED BY <1>0, <1>1, <1>3, <1>4, <2>1
  <2>3. Len(tail) = L - KeepFirst - s
    <3> HIDE DEF rest, tail
    <3> QED BY <1>0, <1>1, <1>4, <2>1
  <2>4. QED
    <3> HIDE DEF rest, tail, s
    <3> QED BY <1>1, <2>1, <2>2, <2>3
<1> HIDE DEF head, tail, sum, s
<1>8. /\ new \in Seq(Context!Exchange) /\ Len(new) = KeepFirst + 1 + Len(tail)
      /\ \A i \in 1..KeepFirst : new[i] = head[i]
      /\ new[KeepFirst + 1] = sum
      /\ \A k \in 1..Len(tail) : new[KeepFirst + 1 + k] = tail[k]
  <2> DEFINE front == head \o <<sum>>
  <2>1. front \in Seq(Context!Exchange) /\ Len(front) = KeepFirst + 1 /\ front[KeepFirst + 1] = sum
        /\ \A i \in 1..KeepFirst : front[i] = head[i]
    BY <1>0, <1>2, <1>5
  <2>2. new = front \o tail BY <1>6
  <2> HIDE DEF front
  <2>3. /\ new \in Seq(Context!Exchange) /\ Len(new) = Len(front) + Len(tail)
        /\ \A i \in 1..Len(front) : new[i] = front[i]
        /\ \A k \in 1..Len(tail) : new[Len(front) + k] = tail[k]
    <3>1. front \in Seq(Context!Exchange) /\ tail \in Seq(Context!Exchange) BY <1>7, <2>1
    <3>2. QED BY ONLY <2>2, <3>1, Joined
  <2>4. QED BY <1>0, <2>1, <2>3
<1>9. \A i \in (KeepFirst + 2)..Len(new) : new[i] = history[i + s - 1]
  <2> TAKE i \in (KeepFirst + 2)..Len(new)
  <2>1. i - KeepFirst - 1 \in 1..Len(tail) /\ KeepFirst + 1 + (i - KeepFirst - 1) = i
        /\ KeepFirst + s + (i - KeepFirst - 1) = i + s - 1
    BY <1>0, <1>4, <1>7, <1>8
  <2>2. QED BY <1>7, <1>8, <2>1
<1>10. Len(new) = L - s + 1
  BY <1>0, <1>4, <1>7, <1>8
<1>11. Merges(history, s, new)
  BY <1>2, <1>8, <1>9, <1>10 DEF Merges, sum
<1>12. QED
  BY <1>4, <1>11

\* Of a merged history, the stretch of the old one an exchange stands for.
FirstOf(i, s) == IF i <= KeepFirst + 1 THEN i ELSE i + s - 1
LastOf(i, s) == IF i <= KeepFirst THEN i ELSE i + s - 1

\* What a merged history says of the steps.
LEMMA MergedSays ==
  ASSUME Context!ConversationAssumption, NEW history \in Seq(Context!Exchange),
         NEW s \in 1..(Len(history) - KeepFirst - 1), NEW new, Merges(history, s, new), NEW i \in 1..Len(new)
  PROVE  /\ FirstOf(i, s) \in 1..Len(history) /\ LastOf(i, s) \in 1..Len(history)
         /\ \A n : n \in new[i].about <=> \E k \in FirstOf(i, s)..LastOf(i, s) : n \in history[k].about
         /\ \A k \in FirstOf(i, s)..LastOf(i, s) : history[k].tainted => new[i].tainted
         /\ i # KeepFirst + 1 => new[i] = history[LastOf(i, s)]
         /\ i = KeepFirst + 1 => new[i].answered = new[i].calls
<1>0. KeepFirst \in Nat /\ Len(history) \in Nat /\ Len(new) = Len(history) - s + 1
  BY DEF Context!ConversationAssumption, Merges
<1>1. CASE i = KeepFirst + 1
  <2>1. FirstOf(i, s) = KeepFirst + 1 /\ LastOf(i, s) = KeepFirst + s
    BY <1>0, <1>1 DEF FirstOf, LastOf
  <2>2. s \in 1..(Len(history) - KeepFirst)
    BY <1>0
  <2>3. new[i] = Context!Summary(SubSeq(SubSeq(history, KeepFirst + 1, Len(history)), 1, s))
    BY <1>1 DEF Merges
  <2>4. FirstOf(i, s) \in 1..Len(history) /\ LastOf(i, s) \in 1..Len(history)
    BY <1>0, <2>1
  <2>5. QED
    BY <1>1, <2>1, <2>2, <2>3, <2>4, SummaryOfAStretch
<1>2. CASE i # KeepFirst + 1
  <2>1. FirstOf(i, s) = LastOf(i, s) /\ LastOf(i, s) \in 1..Len(history)
    BY <1>0, <1>2 DEF FirstOf, LastOf
  <2>2. new[i] = history[LastOf(i, s)]
    <3>1. CASE i \in 1..KeepFirst
      BY <1>0, <3>1 DEF Merges, LastOf
    <3>2. CASE i \in (KeepFirst + 2)..Len(new)
      BY <1>0, <3>2 DEF Merges, LastOf
    <3>3. QED
      BY <1>0, <1>2, <3>1, <3>2
  <2>3. FirstOf(i, s)..LastOf(i, s) = {LastOf(i, s)}
    BY <2>1
  <2>4. QED
    BY <1>2, <2>1, <2>2, <2>3
<1>3. QED
  BY <1>1, <1>2

\* The stretches are in the order of the exchanges, and none is left out.
LEMMA StretchesFollow ==
  ASSUME Context!ConversationAssumption, NEW L \in Nat, NEW s \in 1..(L - KeepFirst - 1)
  PROVE  /\ \A i, j \in 1..(L - s + 1) : i < j => LastOf(i, s) < FirstOf(j, s)
         /\ \A k \in 1..L : \E i \in 1..(L - s + 1) : FirstOf(i, s) <= k /\ k <= LastOf(i, s)
<1>0. KeepFirst \in Nat
  BY DEF Context!ConversationAssumption
<1>1. \A i, j \in 1..(L - s + 1) : i < j => LastOf(i, s) < FirstOf(j, s)
  BY <1>0 DEF FirstOf, LastOf
<1>2. ASSUME NEW k \in 1..L
      PROVE  \E i \in 1..(L - s + 1) : FirstOf(i, s) <= k /\ k <= LastOf(i, s)
  <2>1. CASE k <= KeepFirst
    <3>1. k \in 1..(L - s + 1) /\ FirstOf(k, s) <= k /\ k <= LastOf(k, s)
      BY <1>0, <2>1 DEF FirstOf, LastOf
    <3>2. QED BY <3>1
  <2>2. CASE k > KeepFirst /\ k <= KeepFirst + s
    <3>1. KeepFirst + 1 \in 1..(L - s + 1) /\ FirstOf(KeepFirst + 1, s) <= k /\ k <= LastOf(KeepFirst + 1, s)
      BY <1>0, <2>2 DEF FirstOf, LastOf
    <3>2. QED BY <3>1
  <2>3. CASE k > KeepFirst + s
    <3>1. k - s + 1 \in 1..(L - s + 1) /\ FirstOf(k - s + 1, s) <= k /\ k <= LastOf(k - s + 1, s)
      BY <1>0, <2>3 DEF FirstOf, LastOf
    <3>2. QED BY <3>1
  <2>4. QED BY <1>0, <2>1, <2>2, <2>3
<1>3. QED
  BY <1>1, <1>2

\* A compacted prompt forgets nothing and hides no taint.
LEMMA MergeIsFaithful ==
  ASSUME Context!ConversationAssumption, Context!ConversationInv,
         NEW s \in 1..(Len(v1) - KeepFirst - 1), Merges(v1, s, v1'),
         v4 # "dead", v4' # "dead", UNCHANGED <<v2, v3>>
  PROVE  Context!PromptIsFaithful'
<1>0. KeepFirst \in Nat /\ v1 \in Seq(Context!Exchange) /\ Len(v1) \in Nat /\ Len(v1') = Len(v1) - s + 1
      /\ v1' \in Seq(Context!Exchange) /\ DOMAIN v1 = 1..Len(v1) /\ DOMAIN v1' = 1..Len(v1')
  BY DEF Context!ConversationAssumption, Context!ConversationInv, Context!ConversationTypeOK, Merges
<1>1. Context!TaintSurvives /\ Context!NothingIsForgotten
  BY DEF Context!ConversationInv, Context!PromptIsFaithful
<1>2. Context!Untrusted' = Context!Untrusted /\ Context!Opened(v3)' = Context!Opened(v3)
  BY DEF Context!Untrusted, Context!Opened
<1>a. \A i \in 1..Len(v1') :
         /\ FirstOf(i, s) \in 1..Len(v1) /\ LastOf(i, s) \in 1..Len(v1)
         /\ \A n : n \in v1'[i].about <=> \E k \in FirstOf(i, s)..LastOf(i, s) : n \in v1[k].about
         /\ \A k \in FirstOf(i, s)..LastOf(i, s) : v1[k].tainted => v1'[i].tainted
         /\ i # KeepFirst + 1 => v1'[i] = v1[LastOf(i, s)]
         /\ i = KeepFirst + 1 => v1'[i].answered = v1'[i].calls
  BY <1>0, MergedSays
<1>b. \A i \in 1..Len(v1') : \A n \in v1'[i].about : \E k \in 1..Len(v1) :
         k \in FirstOf(i, s)..LastOf(i, s) /\ n \in v1[k].about
  <2> SUFFICES ASSUME NEW i \in 1..Len(v1'), NEW n \in v1'[i].about
               PROVE  \E k \in 1..Len(v1) : k \in FirstOf(i, s)..LastOf(i, s) /\ n \in v1[k].about
    OBVIOUS
  <2>1. PICK k \in FirstOf(i, s)..LastOf(i, s) : n \in v1[k].about
    BY <1>a
  <2>2. FirstOf(i, s) \in 1..Len(v1) /\ LastOf(i, s) \in 1..Len(v1)
    BY <1>a
  <2>3. k \in 1..Len(v1)
    BY <1>0, <2>2
  <2>4. QED
    BY <2>1, <2>3
<1>3. Context!TaintSurvives'
  <2> SUFFICES ASSUME NEW i \in 1..Len(v1'), NEW n \in v1'[i].about, n \in Context!Untrusted
               PROVE  v1'[i].tainted
    BY <1>0, <1>2 DEF Context!TaintSurvives
  <2>1. PICK k \in 1..Len(v1) : k \in FirstOf(i, s)..LastOf(i, s) /\ n \in v1[k].about
    BY <1>b
  <2>2. v1[k].tainted
    BY <1>0, <1>1, <2>1 DEF Context!TaintSurvives
  <2>3. QED
    BY <1>a, <2>1, <2>2
<1>4. UNION {v1'[i].about : i \in DOMAIN v1'} = DOMAIN v3
  <2>1. UNION {v1[i].about : i \in 1..Len(v1)} = DOMAIN v3
    BY <1>0, <1>1 DEF Context!NothingIsForgotten, Context!Alive
  <2>2. ASSUME NEW n PROVE (\E i \in 1..Len(v1') : n \in v1'[i].about) <=> \E k \in 1..Len(v1) : n \in v1[k].about
    <3>1. ASSUME NEW i \in 1..Len(v1'), n \in v1'[i].about PROVE \E k \in 1..Len(v1) : n \in v1[k].about
      BY <1>b, <3>1
    <3>2. ASSUME NEW k \in 1..Len(v1), n \in v1[k].about PROVE \E i \in 1..Len(v1') : n \in v1'[i].about
      <4>1. PICK i \in 1..Len(v1') : FirstOf(i, s) <= k /\ k <= LastOf(i, s)
        BY <1>0, StretchesFollow
      <4>2. FirstOf(i, s) \in 1..Len(v1) /\ LastOf(i, s) \in 1..Len(v1) BY <1>a
      <4>3. k \in FirstOf(i, s)..LastOf(i, s) BY <1>0, <4>1, <4>2
      <4>4. QED BY <1>a, <3>2, <4>3
    <3>3. QED BY <3>1, <3>2
  <2>3. UNION {v1'[i].about : i \in 1..Len(v1')} = UNION {v1[i].about : i \in 1..Len(v1)}
    BY <2>2
  <2>4. QED BY <1>0, <2>1, <2>3
<1>5. \A i, j \in DOMAIN v1' : i < j => \A m \in v1'[i].about, n \in v1'[j].about : m < n
  <2> SUFFICES ASSUME NEW i \in 1..Len(v1'), NEW j \in 1..Len(v1'), i < j,
                      NEW m \in v1'[i].about, NEW n \in v1'[j].about
               PROVE  m < n
    BY <1>0
  <2>1. PICK a \in 1..Len(v1) : a \in FirstOf(i, s)..LastOf(i, s) /\ m \in v1[a].about
    BY <1>b
  <2>2. PICK b \in 1..Len(v1) : b \in FirstOf(j, s)..LastOf(j, s) /\ n \in v1[b].about
    BY <1>b
  <2>3. LastOf(i, s) < FirstOf(j, s)
    BY <1>0, StretchesFollow
  <2>4. /\ FirstOf(i, s) \in 1..Len(v1) /\ LastOf(i, s) \in 1..Len(v1)
        /\ FirstOf(j, s) \in 1..Len(v1) /\ LastOf(j, s) \in 1..Len(v1)
    BY <1>a
  <2>5. a < b
    BY <1>0, <2>1, <2>2, <2>3, <2>4
  <2>6. QED
    BY <1>0, <1>1, <2>1, <2>2, <2>5 DEF Context!NothingIsForgotten, Context!Alive
<1>6. \A i \in DOMAIN v1' : v1'[i].answered = v1'[i].calls /\ (i <= KeepFirst \/ i = Len(v1') => v1'[i].verbatim)
  <2> SUFFICES ASSUME NEW i \in 1..Len(v1')
               PROVE  v1'[i].answered = v1'[i].calls /\ (i <= KeepFirst \/ i = Len(v1') => v1'[i].verbatim)
    BY <1>0
  <2>1. CASE i = KeepFirst + 1
    <3>1. ~(i <= KeepFirst \/ i = Len(v1')) BY <1>0, <2>1
    <3>2. QED BY <1>a, <2>1, <3>1
  <2>2. CASE i # KeepFirst + 1
    <3>1. v1'[i] = v1[LastOf(i, s)] /\ LastOf(i, s) \in 1..Len(v1) BY <1>a, <2>2
    <3>2. i <= KeepFirst \/ i = Len(v1') => LastOf(i, s) <= KeepFirst \/ LastOf(i, s) = Len(v1)
      <4>1. i \in Nat /\ s \in Nat BY <1>0
      <4>2. CASE i <= KeepFirst BY <4>2 DEF LastOf
      <4>3. CASE i > KeepFirst /\ i = Len(v1') BY <1>0, <4>1, <4>3 DEF LastOf
      <4>4. QED BY <1>0, <4>1, <4>2, <4>3
    <3>3. QED BY <1>0, <1>1, <3>1, <3>2 DEF Context!NothingIsForgotten, Context!Alive
  <2>3. QED BY <2>1, <2>2
<1>7. v2' = Context!Opened(v3)'
  BY <1>1, <1>2 DEF Context!NothingIsForgotten, Context!Alive
<1>8. Context!NothingIsForgotten'
  BY <1>4, <1>5, <1>6, <1>7 DEF Context!NothingIsForgotten
<1>9. QED
  BY <1>3, <1>8 DEF Context!PromptIsFaithful

\* Assembling a prompt keeps the invariant.
LEMMA AssembleHolds ==
  ASSUME Context!ConversationAssumption, Context!ConversationInv, Context!Assemble
  PROVE  Context!ConversationInv'
<1>1. v4 = "ready" /\ v4' = "asked" /\ Len(v3) < MaxSteps /\ UNCHANGED <<v2, v3, v5>>
  BY DEF Context!Assemble
<1>2. v1' = v1 \/ v1' = Context!Compacted(v1)
  BY DEF Context!Assemble
<1>3. v1 \in Seq(Context!Exchange) /\ Context!ConversationTypeOK
  BY DEF Context!ConversationInv, Context!ConversationTypeOK
<1>4. CASE v1' = v1
  BY <1>1, <1>4 DEF Context!ConversationInv, Context!ConversationTypeOK, Context!PromptIsFaithful, Context!TaintSurvives,
    Context!NothingIsForgotten, Context!Alive, Context!Untrusted, Context!Opened
<1>5. CASE v1' # v1
  <2>1. PICK s \in 1..(Len(v1) - KeepFirst - 1) : Merges(v1, s, v1')
    BY <1>2, <1>3, <1>5, CompactedMerges
  <2>2. Context!PromptIsFaithful'
    BY <1>1, <2>1, MergeIsFaithful
  <2>3. Context!ConversationTypeOK'
    BY <1>1, <1>3, <2>1 DEF Context!ConversationTypeOK, Merges
  <2>4. QED
    BY <1>1, <2>2, <2>3 DEF Context!ConversationInv
<1>6. QED
  BY <1>4, <1>5

\* The exchange of a step is one.
LEMMA ExchangedIsAnExchange ==
  ASSUME Context!ConversationAssumption, NEW n \in 1..MaxSteps, NEW step \in StepKinds
  PROVE  Context!Exchanged(n, step) \in Context!Exchange
<1>1. step.calls \in Nat /\ step.untrusted \in BOOLEAN /\ step.tokens \in Nat
  BY DEF Context!ConversationAssumption
<1>2. QED
  BY <1>1 DEF Context!Exchanged, Context!Exchange

\* A reply keeps the invariant: its exchange speaks of its step alone, and in full.
LEMMA TurnHolds ==
  ASSUME Context!ConversationAssumption, Context!ConversationInv, NEW step \in StepKinds, Context!Reply(step)
  PROVE  Context!ConversationInv'
<1> DEFINE n == Len(v3) + 1
           e == Context!Exchanged(n, step)
<1>1. /\ v4 = "asked" /\ v1' = Append(v1, e) /\ v3' = Append(v3, step)
      /\ v2' = v2 \cup (IF step.opens THEN {n} ELSE {}) /\ v4' \in {"ended", "ready"} /\ v5' = v5
  BY DEF Context!Reply
<1>2. v1 \in Seq(Context!Exchange) /\ v3 \in Seq(StepKinds) /\ Len(v3) < MaxSteps /\ MaxSteps \in Nat
      /\ Len(v3) \in Nat /\ Len(v1) \in Nat /\ Context!ConversationTypeOK /\ KeepFirst \in Nat
  BY <1>1 DEF Context!ConversationInv, Context!ConversationTypeOK, Context!ConversationAssumption
<1>3. n \in 1..MaxSteps /\ e \in Context!Exchange
  BY <1>2, ExchangedIsAnExchange
<1>4. e.about = {n} /\ e.verbatim /\ e.calls = step.calls /\ e.answered = step.calls /\ e.tainted = step.untrusted
  BY DEF Context!Exchanged
<1>5. Context!TaintSurvives /\ Context!NothingIsForgotten /\ v4 # "dead"
  BY <1>1 DEF Context!ConversationInv, Context!PromptIsFaithful
<1> HIDE DEF e
<1>6. /\ v1' \in Seq(Context!Exchange) /\ Len(v1') = Len(v1) + 1 /\ v1'[Len(v1) + 1] = e
      /\ \A i \in 1..Len(v1) : v1'[i] = v1[i]
      /\ DOMAIN v1' = 1..(Len(v1) + 1) /\ DOMAIN v1 = 1..Len(v1)
  BY <1>1, <1>2, <1>3
<1>7. /\ v3' \in Seq(StepKinds) /\ Len(v3') = n /\ v3'[n] = step /\ \A i \in 1..Len(v3) : v3'[i] = v3[i]
      /\ DOMAIN v3' = 1..n /\ DOMAIN v3 = 1..Len(v3)
  BY <1>1, <1>2
<1>8. \A i \in 1..Len(v1) : v1[i].about \subseteq 1..Len(v3)
  BY <1>5, <1>6, <1>7 DEF Context!NothingIsForgotten, Context!Alive
<1>9. Context!TaintSurvives'
  <2> SUFFICES ASSUME NEW i \in 1..(Len(v1) + 1), NEW m \in v1'[i].about, m \in Context!Untrusted'
               PROVE  v1'[i].tainted
    BY <1>6 DEF Context!TaintSurvives
  <2>0. m \in 1..n /\ v3'[m].untrusted
    BY <1>7 DEF Context!Untrusted
  <2>1. CASE i = Len(v1) + 1
    BY <1>4, <1>6, <1>7, <2>0, <2>1
  <2>2. CASE i \in 1..Len(v1)
    <3>1. m \in 1..Len(v3) /\ m \in v1[i].about BY <1>6, <1>8, <2>2
    <3>2. m \in Context!Untrusted BY <1>7, <2>0, <3>1 DEF Context!Untrusted
    <3>3. QED BY <1>5, <1>6, <2>2, <3>1, <3>2 DEF Context!TaintSurvives
  <2>3. QED BY <1>2, <2>1, <2>2
<1>10. UNION {v1'[i].about : i \in DOMAIN v1'} = DOMAIN v3'
  <2>1. UNION {v1[i].about : i \in 1..Len(v1)} = 1..Len(v3)
    BY <1>5, <1>6, <1>7 DEF Context!NothingIsForgotten, Context!Alive
  <2>2. ASSUME NEW m
        PROVE  (\E i \in 1..(Len(v1) + 1) : m \in v1'[i].about) <=> (m = n \/ \E i \in 1..Len(v1) : m \in v1[i].about)
    <3>1. \A i \in 1..(Len(v1) + 1) : i = Len(v1) + 1 \/ i \in 1..Len(v1) BY <1>2
    <3>2. Len(v1) + 1 \in 1..(Len(v1) + 1) /\ \A i \in 1..Len(v1) : i \in 1..(Len(v1) + 1) BY <1>2
    <3>3. QED BY <1>4, <1>6, <3>1, <3>2
  <2>3. 1..n = (1..Len(v3)) \cup {n}
    BY <1>2
  <2> HIDE DEF n
  <2>4. UNION {v1'[i].about : i \in 1..(Len(v1) + 1)} = (UNION {v1[i].about : i \in 1..Len(v1)}) \cup {n}
    BY <2>2
  <2>5. QED BY <1>6, <1>7, <2>1, <2>3, <2>4
<1>11. \A i, j \in DOMAIN v1' : i < j => \A a \in v1'[i].about, b \in v1'[j].about : a < b
  <2> SUFFICES ASSUME NEW i \in 1..(Len(v1) + 1), NEW j \in 1..(Len(v1) + 1), i < j,
                      NEW a \in v1'[i].about, NEW b \in v1'[j].about
               PROVE  a < b
    BY <1>6
  <2>1. i \in 1..Len(v1) /\ a \in v1[i].about
    <3>1. i \in 1..Len(v1) BY <1>2
    <3>2. QED BY <1>6, <3>1
  <2>2. CASE j = Len(v1) + 1
    <3>1. b = n BY <1>4, <1>6, <2>2
    <3>2. a \in 1..Len(v3) BY <1>8, <2>1
    <3>3. QED BY <1>2, <3>1, <3>2
  <2>3. CASE j \in 1..Len(v1)
    <3>1. b \in v1[j].about BY <1>6, <2>3
    <3>2. QED BY <1>5, <1>6, <2>1, <2>3, <3>1 DEF Context!NothingIsForgotten, Context!Alive
  <2>4. QED BY <1>2, <2>2, <2>3
<1>12. \A i \in DOMAIN v1' : v1'[i].answered = v1'[i].calls /\ (i <= KeepFirst \/ i = Len(v1') => v1'[i].verbatim)
  <2> SUFFICES ASSUME NEW i \in 1..(Len(v1) + 1)
               PROVE  v1'[i].answered = v1'[i].calls /\ (i <= KeepFirst \/ i = Len(v1') => v1'[i].verbatim)
    BY <1>6
  <2>1. CASE i = Len(v1) + 1
    BY <1>4, <1>6, <2>1
  <2>2. CASE i \in 1..Len(v1)
    <3>1. i # Len(v1') BY <1>2, <1>6, <2>2
    <3>2. QED BY <1>5, <1>6, <2>2, <3>1 DEF Context!NothingIsForgotten, Context!Alive
  <2>3. QED BY <1>2, <2>1, <2>2
<1>13. v2' = Context!Opened(v3)'
  <2>1. v2 = Context!Opened(v3)
    BY <1>5 DEF Context!NothingIsForgotten, Context!Alive
  <2>2. \A m : m \in Context!Opened(v3') <=> m \in Context!Opened(v3) \/ (m = n /\ step.opens)
    <3>1. \A m : m \in 1..n <=> m \in 1..Len(v3) \/ m = n BY <1>2
    <3>2. n \notin 1..Len(v3) BY <1>2
    <3>3. QED BY <1>7, <3>1, <3>2 DEF Context!Opened
  <2>3. QED
    BY <1>1, <2>1, <2>2
<1>14. Context!NothingIsForgotten'
  BY <1>10, <1>11, <1>12, <1>13 DEF Context!NothingIsForgotten
<1>15. Context!ConversationTypeOK'
  <2>1. v2' \subseteq 1..MaxSteps /\ v5' \in 0..MaxRepairs
    BY <1>1, <1>2, <1>3 DEF Context!ConversationTypeOK
  <2>2. v4' \in {"ready", "asked", "ended", "dead"}
    BY <1>1
  <2>3. QED
    BY <1>6, <1>7, <2>1, <2>2 DEF Context!ConversationTypeOK
<1>16. Len(v3') <= MaxSteps /\ v4' # "asked"
  BY <1>1, <1>2, <1>7
<1>17. QED
  BY <1>9, <1>14, <1>15, <1>16 DEF Context!ConversationInv, Context!PromptIsFaithful

\* A repair turn keeps the invariant: it adds to an exchange and takes nothing from it.
LEMMA RepairTurnHolds ==
  ASSUME Context!ConversationAssumption, Context!ConversationInv, Context!Repair
  PROVE  Context!ConversationInv'
<1> DEFINE m == Len(v1)
           new == [v1[m] EXCEPT !.feedback = TRUE, !.tokens = @ + 1]
<1>1. /\ v4 # "dead" /\ v4' = "ready" /\ v1 # <<>> /\ v5 < MaxRepairs /\ v5' = v5 + 1 /\ UNCHANGED <<v2, v3>>
      /\ v1' = [v1 EXCEPT ![m].feedback = TRUE, ![m].tokens = @ + 1]
  BY DEF Context!Repair
<1>2. v1 \in Seq(Context!Exchange) /\ m \in Nat /\ MaxRepairs \in Nat /\ v5 \in 0..MaxRepairs /\ Context!ConversationTypeOK
  BY DEF Context!ConversationInv, Context!ConversationTypeOK, Context!ConversationAssumption
<1>3. m \in 1..Len(v1) /\ v1[m] \in Context!Exchange
  BY <1>1, <1>2
<1>4. /\ new \in Context!Exchange /\ new.about = v1[m].about /\ new.verbatim = v1[m].verbatim
      /\ new.calls = v1[m].calls /\ new.answered = v1[m].answered /\ new.tainted = v1[m].tainted
  <2>1. v1[m].tokens + 1 \in Nat
    BY <1>3 DEF Context!Exchange
  <2>2. new \in Context!Exchange
    BY <1>3, <2>1 DEF Context!Exchange
  <2>3. QED
    BY <1>3, <2>2 DEF Context!Exchange
<1>5. v1' = [v1 EXCEPT ![m] = new]
  BY <1>1, <1>2, <1>3
<1> HIDE DEF new
<1>6. /\ v1' \in Seq(Context!Exchange) /\ Len(v1') = Len(v1) /\ DOMAIN v1' = DOMAIN v1
      /\ \A i \in DOMAIN v1 : v1'[i] = IF i = m THEN new ELSE v1[i]
  BY <1>2, <1>3, <1>4, <1>5
<1>7. \A i \in DOMAIN v1 : /\ v1'[i].about = v1[i].about /\ v1'[i].verbatim = v1[i].verbatim
                            /\ v1'[i].calls = v1[i].calls /\ v1'[i].answered = v1[i].answered
                            /\ v1'[i].tainted = v1[i].tainted
  BY <1>4, <1>6
<1>8. Context!TaintSurvives' /\ Context!NothingIsForgotten'
  <2>1. Context!TaintSurvives /\ Context!NothingIsForgotten
    BY DEF Context!ConversationInv, Context!PromptIsFaithful
  <2>2. Context!Untrusted' = Context!Untrusted /\ Context!Opened(v3)' = Context!Opened(v3)
    BY <1>1 DEF Context!Untrusted, Context!Opened
  <2>3. Context!TaintSurvives'
    BY <1>6, <1>7, <2>1, <2>2 DEF Context!TaintSurvives
  <2>4. UNION {v1'[i].about : i \in DOMAIN v1'} = UNION {v1[i].about : i \in DOMAIN v1}
    BY <1>6, <1>7
  <2>5. UNION {v1'[i].about : i \in DOMAIN v1'} = DOMAIN v3' /\ v2' = Context!Opened(v3)'
    BY <1>1, <2>1, <2>2, <2>4 DEF Context!NothingIsForgotten, Context!Alive
  <2>6. \A i, j \in DOMAIN v1' : i < j => \A a \in v1'[i].about, b \in v1'[j].about : a < b
    BY <1>1, <1>6, <1>7, <2>1 DEF Context!NothingIsForgotten, Context!Alive
  <2>7. \A i \in DOMAIN v1' : v1'[i].answered = v1'[i].calls /\ (i <= KeepFirst \/ i = Len(v1') => v1'[i].verbatim)
    BY <1>1, <1>6, <1>7, <2>1 DEF Context!NothingIsForgotten, Context!Alive
  <2>8. Context!NothingIsForgotten'
    BY <2>5, <2>6, <2>7 DEF Context!NothingIsForgotten
  <2>9. QED
    BY <2>3, <2>8
<1>9. v5' \in 0..MaxRepairs
  BY <1>1, <1>2
<1>10. Context!ConversationTypeOK'
  BY <1>1, <1>2, <1>6, <1>9 DEF Context!ConversationTypeOK
<1>11. QED
  BY <1>1, <1>8, <1>10 DEF Context!ConversationInv, Context!PromptIsFaithful

\* A death keeps the invariant.
LEMMA DieHolds ==
  ASSUME Context!ConversationInv, Context!Die
  PROVE  Context!ConversationInv'
<1>1. v4' = "dead" /\ v1' = <<>> /\ v2' = {} /\ UNCHANGED <<v3, v5>> /\ <<>> \in Seq(Context!Exchange) /\ DOMAIN <<>> = {}
  BY DEF Context!Die
<1>2. Context!ConversationTypeOK'
  BY <1>1 DEF Context!ConversationInv, Context!ConversationTypeOK
<1>3. Context!TaintSurvives' /\ Context!NothingIsForgotten'
  BY <1>1 DEF Context!TaintSurvives, Context!NothingIsForgotten, Context!Alive
<1>4. QED
  BY <1>1, <1>2, <1>3 DEF Context!ConversationInv, Context!PromptIsFaithful

\* A resume keeps the invariant: the exchanges are those of the steps, one each.
LEMMA ResumeHolds ==
  ASSUME Context!ConversationAssumption, Context!ConversationInv, Context!Resume
  PROVE  Context!ConversationInv'
<1>1. /\ v4' = "ready" /\ v1' = [n \in DOMAIN v3 |-> Context!Exchanged(n, v3[n])] /\ v2' = Context!Opened(v3)
      /\ UNCHANGED <<v3, v5>>
  BY DEF Context!Resume
<1>2. v3 \in Seq(StepKinds) /\ Len(v3) \in Nat /\ DOMAIN v3 = 1..Len(v3) /\ Len(v3) <= MaxSteps /\ MaxSteps \in Nat
  BY DEF Context!ConversationInv, Context!ConversationTypeOK, Context!ConversationAssumption
<1>3. \A n \in 1..Len(v3) : n \in 1..MaxSteps /\ v3[n] \in StepKinds /\ Context!Exchanged(n, v3[n]) \in Context!Exchange
  <2>1. \A n \in 1..Len(v3) : n \in 1..MaxSteps /\ v3[n] \in StepKinds BY <1>2
  <2>2. QED BY <2>1, ExchangedIsAnExchange
<1>4. \A n \in 1..Len(v3) :
         LET e == Context!Exchanged(n, v3[n]) IN
         e.about = {n} /\ e.verbatim /\ e.calls = e.answered /\ e.tainted = v3[n].untrusted
  BY DEF Context!Exchanged
<1>5. v1' \in Seq(Context!Exchange) /\ Len(v1') = Len(v3) /\ DOMAIN v1' = 1..Len(v3)
      /\ \A n \in 1..Len(v3) : v1'[n] = Context!Exchanged(n, v3[n])
  BY <1>1, <1>2, <1>3
<1>6. \A n \in 1..Len(v3) : v1'[n].about = {n} /\ v1'[n].verbatim /\ v1'[n].calls = v1'[n].answered
                             /\ v1'[n].tainted = v3[n].untrusted
  BY <1>4, <1>5
<1>7. Context!TaintSurvives'
  BY <1>1, <1>2, <1>5, <1>6 DEF Context!TaintSurvives, Context!Untrusted
<1>8. UNION {v1'[i].about : i \in DOMAIN v1'} = DOMAIN v3'
  BY <1>1, <1>2, <1>5, <1>6
<1>9. \A i, j \in DOMAIN v1' : i < j => \A a \in v1'[i].about, b \in v1'[j].about : a < b
  BY <1>5, <1>6
<1>10. Context!NothingIsForgotten'
  BY <1>1, <1>5, <1>6, <1>8, <1>9 DEF Context!NothingIsForgotten
<1>11. Context!Opened(v3) \subseteq 1..MaxSteps
  BY <1>2, <1>3 DEF Context!Opened
<1>12. Context!ConversationTypeOK'
  BY <1>1, <1>5, <1>11 DEF Context!ConversationInv, Context!ConversationTypeOK
<1>13. QED
  BY <1>1, <1>2, <1>7, <1>10, <1>12 DEF Context!ConversationInv, Context!PromptIsFaithful

\* The invariant holds at the start.
LEMMA ConversationInitHolds ==
  ASSUME Context!ConversationAssumption, Context!ConversationInit
  PROVE  Context!ConversationInv
<1>1. v1 = <<>> /\ v2 = {} /\ v3 = <<>> /\ v4 = "ready" /\ v5 = 0
  BY DEF Context!ConversationInit
<1>2. <<>> \in Seq(Context!Exchange) /\ <<>> \in Seq(StepKinds) /\ DOMAIN <<>> = {} /\ Len(<<>>) = 0
  OBVIOUS
<1>3. MaxSteps \in Nat /\ MaxRepairs \in Nat
  BY DEF Context!ConversationAssumption
<1>4. v5 \in 0..MaxRepairs
  BY <1>1, <1>3
<1>5. Context!ConversationTypeOK
  BY <1>1, <1>2, <1>4 DEF Context!ConversationTypeOK
<1>6. Context!TaintSurvives /\ Context!NothingIsForgotten
  BY <1>1, <1>2 DEF Context!TaintSurvives, Context!NothingIsForgotten, Context!Opened
<1>7. QED
  BY <1>1, <1>2, <1>3, <1>5, <1>6 DEF Context!ConversationInv, Context!PromptIsFaithful

\* Every step keeps it.
LEMMA ConversationStepHolds ==
  ASSUME Context!ConversationAssumption, Context!ConversationInv, Context!ConversationNext \/ UNCHANGED slots
  PROVE  Context!ConversationInv'
<1>1. CASE UNCHANGED slots
  BY <1>1 DEF slots, Context!ConversationInv, Context!ConversationTypeOK, Context!PromptIsFaithful,
    Context!TaintSurvives, Context!NothingIsForgotten, Context!Alive, Context!Untrusted, Context!Opened
<1>2. CASE Context!ConversationNext
  BY <1>2, AssembleHolds, TurnHolds, RepairTurnHolds, DieHolds, ResumeHolds DEF Context!ConversationNext
<1>3. QED
  BY <1>1, <1>2

\* A conversation keeps what its prompt rests on.
LEMMA ConversationInvariant == Spec => [](subject = "conversation" => Context!ConversationInv)
<1> DEFINE Inv == subject = "conversation" => Context!ConversationInv
<1> USE PartsAssumption DEF PartsAssumption
<1>1. Init => Inv
  BY ConversationInitHolds DEF Init, SlotsInit
<1>2. Inv /\ [Next]_partsVars => Inv'
  <2> SUFFICES ASSUME Context!ConversationInv, Context!ConversationNext \/ UNCHANGED slots
               PROVE  Context!ConversationInv'
    BY DEF Next, SlotsNext, partsVars, slots
  <2>1. QED
    BY ConversationStepHolds
<1>3. QED
  BY <1>1, <1>2, PTL DEF Spec

\* The model is told every step in order, and of every untrusted one that it is, whatever
\* was compacted or resumed (compactor, ContextAssembler).
THEOREM PromptsAreFaithful == Spec => []PromptIsFaithful
<1>1. (subject = "conversation" => Context!ConversationInv) => PromptIsFaithful
  BY DEF PromptIsFaithful, Context!ConversationInv
<1>2. QED
  BY <1>1, ConversationInvariant, PTL

-----------------------------------------------------------------------------
(* Export (v1 status, v2 family, v3 prefix, v4 steps, v5 gates, v6         *)
(* verified, v7 live, v8 standing, v9 exported, v10 rounds): an export     *)
(* is of runs as they stand.                                               *)
(* A run stands as its last gate said, and a run recorded as completed     *)
(* has a standing that no process at work can still change.                *)

\* A sequence that is appended to stays in its type, and the others are as they were.
LEMMA AppendedTo ==
  ASSUME NEW S, NEW R, NEW f \in [R -> Seq(S)], NEW r \in R, NEW e \in S
  PROVE  LET g == [f EXCEPT ![r] = Append(@, e)] IN
         /\ g \in [R -> Seq(S)] /\ g[r] = Append(f[r], e) /\ Len(g[r]) = Len(f[r]) + 1 /\ Len(f[r]) \in Nat
         /\ g[r][Len(g[r])] = e
         /\ \A x \in R \ {r} : g[x] = f[x]
OBVIOUS

\* No process, and a process that has just begun.
LEMMA BeginsAsAProcess ==
  ASSUME Store!ExportAssumption, NEW run \in SUBSET Store!Runs, NEW replays \in SUBSET Store!Runs
  PROVE  LET begun == [Store!Nobody EXCEPT !.run = run, !.replays = replays] IN
         /\ Store!Nobody \in Store!Processes /\ Store!Nobody.run = {}
         /\ begun \in Store!Processes /\ begun.run = run /\ begun.ending = ""
<1>1. 0 \in 0..MaxAttempts
  BY DEF Store!ExportAssumption
<1>2. QED
  BY <1>1 DEF Store!Nobody, Store!Processes

\* What is said of a run stays while its verdicts do.
LEMMA SaidStays ==
  ASSUME NEW x, v5'[x] = v5[x], v8'[x] = v8[x], Store!StandsAsJudged(x)
  PROVE  Store!StandsAsJudged(x)'
<1>1. Store!LastGateAdmitted(x)' = Store!LastGateAdmitted(x)
  BY DEF Store!LastGateAdmitted, Store!VerdictsOf
<1>2. QED
  BY <1>1 DEF Store!StandsAsJudged

\* A process of the store begins on a run that has a record, or is given one.
LEMMA LaunchHolds ==
  ASSUME Store!ExportAssumption, Store!ExportInv, NEW r \in Store!Runs, NEW replays \in SUBSET Store!Runs,
         Store!Launch(r, replays), v2' \subseteq Store!Runs
  PROVE  Store!ExportInv'
<1>1. v7' = [Store!Nobody EXCEPT !.run = {r}, !.replays = replays] /\ UNCHANGED <<v3, v4, v5, v6, v8>>
  BY DEF Store!Launch
<1>2. v1' = [v1 EXCEPT ![r] = "working"] /\ v9' = Store!Nothing /\ v10' = v10 + 1 /\ v10 < MaxProcesses
  BY DEF Store!Launch, Store!WithStatus
<1>3. Store!ExportTypeOK
  BY DEF Store!ExportInv
<1>4. v7' \in Store!Processes
  BY <1>1, BeginsAsAProcess
<1>5. v1' \in [Store!Runs -> {"", "working"} \cup Store!Endings] /\ v10' \in 0..MaxProcesses
  <2>1. v10 \in 0..MaxProcesses /\ MaxProcesses \in Nat
    BY <1>3 DEF Store!ExportTypeOK, Store!ExportAssumption
  <2>2. v10' \in 0..MaxProcesses
    BY <1>2, <2>1
  <2>3. QED
    BY <1>2, <1>3, <2>2 DEF Store!ExportTypeOK
<1>6. v9' \in [sft : SUBSET (Store!Runs \X (1..MaxRunSteps)), dpo : SUBSET (Store!Runs \X Store!Runs)]
  BY <1>2 DEF Store!Nothing
<1>7. Store!ExportTypeOK'
  BY <1>1, <1>3, <1>4, <1>5, <1>6 DEF Store!ExportTypeOK
<1>8. ASSUME NEW x \in Store!Runs
      PROVE  (Len(v4[x]) <= MaxRunSteps /\ Store!StandsAsJudged(x) /\ Store!JudgedIfCompleted(x))'
  <2>1. v1 \in [Store!Runs -> {"", "working"} \cup Store!Endings]
    BY <1>3 DEF Store!ExportTypeOK
  <2>2. v1'[x] = "completed" => v1[x] = "completed"
    BY <1>2, <2>1
  <2>3. QED
    BY <1>1, <2>2, SaidStays DEF Store!ExportInv, Store!JudgedIfCompleted
<1>9. \A x \in v7'.run : Store!AtWork(x)'
  <2>1. v7'.run = {r} /\ v7'.ending = ""
    BY <1>1, BeginsAsAProcess
  <2>2. v1'[r] = "working"
    BY <1>2, <1>3 DEF Store!ExportTypeOK
  <2>3. QED
    BY <2>1, <2>2 DEF Store!AtWork
<1>10. QED
  BY <1>7, <1>8, <1>9 DEF Store!ExportInv

\* A new run, a run resumed and a replay keep the invariant.
LEMMA BeginHolds ==
  ASSUME Store!ExportAssumption, Store!ExportInv, NEW r \in Store!Runs,
         \/ Store!StartRun(r) \/ Store!Resume(r)
         \/ \E original \in Store!Runs : Store!Replay(original, r)
  PROVE  Store!ExportInv'
<1>1. v2 \subseteq Store!Runs
  BY DEF Store!ExportInv, Store!ExportTypeOK
<1>2. v2' \subseteq Store!Runs
  BY <1>1 DEF Store!StartRun, Store!Resume, Store!Replay
<1>3. \E replays \in SUBSET Store!Runs : Store!Launch(r, replays)
  BY DEF Store!StartRun, Store!Resume, Store!Replay
<1>4. QED
  BY <1>2, <1>3, LaunchHolds

\* A step keeps the invariant: what was said of the run is of it no longer.
LEMMA RunStepHolds ==
  ASSUME Store!ExportAssumption, Store!ExportInv, NEW r \in Store!Runs, NEW trusted \in BOOLEAN,
         Store!Step(r, trusted)
  PROVE  Store!ExportInv'
<1>1. v7.run = {r} /\ v7.ending = "" /\ Len(v4[r]) < MaxRunSteps
  BY DEF Store!Step
<1>2. v4' = [v4 EXCEPT ![r] = Append(@, trusted)] /\ v8' = [v8 EXCEPT ![r] = IF @ = "lost" THEN @ ELSE ""]
  BY DEF Store!Step, Store!WithStep
<1>3. UNCHANGED <<v1, v2, v3, v5, v6, v7, v9, v10>>
  BY DEF Store!Step
<1>4. /\ v4 \in [Store!Runs -> Seq(BOOLEAN)] /\ Store!ExportTypeOK
      /\ v8 \in [Store!Runs -> {"", "admitted", "refused", "lost"}] /\ MaxRunSteps \in Nat
  BY DEF Store!ExportInv, Store!ExportTypeOK, Store!ExportAssumption
<1>5. /\ v4' \in [Store!Runs -> Seq(BOOLEAN)] /\ Len(v4'[r]) = Len(v4[r]) + 1 /\ Len(v4[r]) \in Nat
      /\ \A x \in Store!Runs \ {r} : v4'[x] = v4[x]
  <2>1. v4 \in [Store!Runs -> Seq(BOOLEAN)] BY <1>4
  <2>2. v4' = [v4 EXCEPT ![r] = Append(@, trusted)] BY <1>2
  <2> HIDE <1>2, <1>4
  <2>3. QED BY ONLY <2>1, <2>2, r \in Store!Runs, trusted \in BOOLEAN, AppendedTo
<1>6. /\ v8' \in [Store!Runs -> {"", "admitted", "refused", "lost"}] /\ v8'[r] \in {"", "lost"}
      /\ \A x \in Store!Runs \ {r} : v8'[x] = v8[x]
  BY <1>2, <1>4
<1>7. Store!ExportTypeOK'
  BY <1>3, <1>4, <1>5, <1>6 DEF Store!ExportTypeOK
<1>8. ASSUME NEW x \in Store!Runs
      PROVE  (Len(v4[x]) <= MaxRunSteps /\ Store!StandsAsJudged(x) /\ Store!JudgedIfCompleted(x))'
  <2>1. CASE x = r
    <3>1. v1[r] = "working" BY <1>1 DEF Store!ExportInv, Store!AtWork
    <3>2. Len(v4'[r]) <= MaxRunSteps
      <4>1. Len(v4[r]) < MaxRunSteps /\ MaxRunSteps \in Nat BY <1>1, <1>4
      <4>2. Len(v4'[r]) = Len(v4[r]) + 1 /\ Len(v4[r]) \in Nat BY <1>5
      <4>3. QED BY <4>1, <4>2
    <3>3. QED
      BY <1>3, <1>6, <2>1, <3>1, <3>2 DEF Store!StandsAsJudged, Store!JudgedIfCompleted
  <2>2. CASE x # r
    BY <1>3, <1>5, <1>6, <2>2, SaidStays DEF Store!ExportInv, Store!JudgedIfCompleted
  <2>3. QED
    BY <2>1, <2>2
<1>9. \A x \in v7'.run : Store!AtWork(x)'
  BY <1>1, <1>3 DEF Store!ExportInv, Store!AtWork
<1>10. QED
  BY <1>7, <1>8, <1>9 DEF Store!ExportInv

\* A verdict keeps the invariant: it stands when the store has it, and is lost otherwise.
LEMMA JudgeHolds ==
  ASSUME Store!ExportInv, NEW r \in Store!Runs, NEW verdict \in {"admitted", "refused"},
         NEW delivered \in BOOLEAN, Store!Judge(r, verdict, delivered)
  PROVE  Store!ExportInv'
<1>1. v7.run = {r} /\ v7' = [v7 EXCEPT !.verdict = verdict, !.evicted = ~delivered]
  BY DEF Store!Judge
<1>2. v8' = [v8 EXCEPT ![r] = IF delivered /\ @ # "lost" THEN verdict ELSE "lost"]
  BY DEF Store!Judge
<1>3. v5' = IF delivered THEN [v5 EXCEPT ![r] = Append(@, verdict = "admitted")] ELSE v5
  BY DEF Store!Judge, Store!WithVerdict
<1>4. UNCHANGED <<v1, v2, v3, v4, v6, v9, v10>>
  BY DEF Store!Judge
<1>5. /\ v5 \in [Store!Runs -> Seq(BOOLEAN)] /\ Store!ExportTypeOK
      /\ v8 \in [Store!Runs -> {"", "admitted", "refused", "lost"}]
      /\ v7 \in Store!Processes
  BY DEF Store!ExportInv, Store!ExportTypeOK
<1>6. v5' \in [Store!Runs -> Seq(BOOLEAN)] /\ \A x \in Store!Runs \ {r} : v5'[x] = v5[x]
  <2>1. v5 \in [Store!Runs -> Seq(BOOLEAN)] BY <1>5
  <2>2. ASSUME NEW e \in BOOLEAN, v5' = [v5 EXCEPT ![r] = Append(@, e)]
        PROVE  v5' \in [Store!Runs -> Seq(BOOLEAN)] /\ \A x \in Store!Runs \ {r} : v5'[x] = v5[x]
    BY ONLY <2>1, <2>2, r \in Store!Runs, AppendedTo
  <2>3. v5' = v5 \/ \E e \in BOOLEAN : v5' = [v5 EXCEPT ![r] = Append(@, e)]
    <3>1. (verdict = "admitted") \in BOOLEAN OBVIOUS
    <3>2. QED BY <1>3, <3>1, Zenon
  <2>4. QED BY <2>1, <2>2, <2>3
<1>7. /\ v8' \in [Store!Runs -> {"", "admitted", "refused", "lost"}] /\ v8'[r] # ""
      /\ \A x \in Store!Runs \ {r} : v8'[x] = v8[x]
  BY <1>2, <1>5
<1>8. Store!ExportTypeOK'
  <2>1. v7' \in Store!Processes
    BY <1>1, <1>5 DEF Store!Processes
  <2>2. QED
    BY <1>4, <1>5, <1>6, <1>7, <2>1 DEF Store!ExportTypeOK
<1>9. Store!StandsAsJudged(r)'
  <2>1. SUFFICES ASSUME v8'[r] \in {"admitted", "refused"}
                 PROVE  Store!LastGateAdmitted(r)' = {v8'[r] = "admitted"}
    BY DEF Store!StandsAsJudged
  <2>2. delivered /\ v8'[r] = verdict
    BY <1>2, <1>5, <2>1
  <2>3. v5'[r] = Append(v5[r], verdict = "admitted") /\ v5[r] \in Seq(BOOLEAN)
    BY <1>3, <1>5, <2>2
  <2>4. Len(v5'[r]) = Len(v5[r]) + 1 /\ Len(v5[r]) \in Nat
    BY <2>3
  <2>5. v5'[r][Len(v5'[r])] = (verdict = "admitted")
    BY <2>3, <2>4
  <2>6. {Len(v5'[r])} \ {0} = {Len(v5'[r])}
    BY <2>4
  <2>7. Store!LastGateAdmitted(r)' = {v5'[r][Len(v5'[r])]}
    BY <2>6 DEF Store!LastGateAdmitted, Store!VerdictsOf
  <2>8. QED
    BY <2>2, <2>5, <2>7
<1>10. ASSUME NEW x \in Store!Runs
       PROVE  (Len(v4[x]) <= MaxRunSteps /\ Store!StandsAsJudged(x) /\ Store!JudgedIfCompleted(x))'
  <2>1. CASE x = r
    BY <1>4, <1>7, <1>9, <2>1 DEF Store!ExportInv, Store!JudgedIfCompleted
  <2>2. CASE x # r
    BY <1>4, <1>6, <1>7, <2>2, SaidStays DEF Store!ExportInv, Store!JudgedIfCompleted
  <2>3. QED
    BY <2>1, <2>2
<1>11. \A x \in v7'.run : Store!AtWork(x)'
  <2>1. v7'.run = {r}
    BY <1>1, <1>5 DEF Store!Processes
  <2>2. QED
    BY <1>1, <1>4, <1>7, <2>1 DEF Store!ExportInv, Store!AtWork
<1>12. QED
  BY <1>8, <1>10, <1>11 DEF Store!ExportInv

\* What a process does without a word to the gates or the steps keeps the invariant.
LEMMA ProcessHolds ==
  ASSUME Store!ExportAssumption, Store!ExportInv,
         \/ (\E r \in Store!Runs : Store!Repair(r) \/ \E delivered \in BOOLEAN : Store!Finish(r, delivered))
         \/ (\E ending \in Store!Endings : Store!EndSteps(ending))
         \/ Store!Die
  PROVE  Store!ExportInv'
<1>1. UNCHANGED <<v2, v3, v4, v5, v8, v9>>
  BY DEF Store!Repair, Store!Finish, Store!EndSteps, Store!Die
<1>2. /\ Store!ExportTypeOK /\ v1 \in [Store!Runs -> {"", "working"} \cup Store!Endings]
      /\ v6 \subseteq Store!Runs /\ v10 \in 0..MaxProcesses
      /\ v7 \in Store!Processes
  BY DEF Store!ExportInv, Store!ExportTypeOK
<1>3. /\ Store!Nobody \in Store!Processes
      /\ Store!Nobody.run = {} /\ MaxProcesses \in Nat /\ MaxAttempts \in Nat
  BY BeginsAsAProcess DEF Store!ExportAssumption
<1>4. ASSUME Store!ExportTypeOK', \A x \in Store!Runs : Store!JudgedIfCompleted(x)', \A x \in v7'.run : Store!AtWork(x)'
      PROVE  Store!ExportInv'
  BY <1>1, <1>4 DEF Store!ExportInv, Store!StandsAsJudged, Store!LastGateAdmitted, Store!VerdictsOf
<1>5. ASSUME NEW r \in Store!Runs, Store!Repair(r)
      PROVE  Store!ExportInv'
  <2>1. v7' = [v7 EXCEPT !.ending = "", !.repairs = @ + 1] /\ v7.repairs < MaxAttempts /\ v10 < MaxProcesses
        /\ v10' = v10 + 1 /\ UNCHANGED <<v1, v6>>
    BY <1>5 DEF Store!Repair
  <2>2. v7' \in Store!Processes /\ v7'.ending = "" /\ v7'.run = v7.run /\ v10' \in 0..MaxProcesses
    <3>1. v10' \in 0..MaxProcesses
      <4>1. v10 \in 0..MaxProcesses /\ MaxProcesses \in Nat BY <1>2, <1>3
      <4>2. v10 < MaxProcesses /\ v10' = v10 + 1 BY <2>1
      <4>3. QED BY <4>1, <4>2
    <3>2. v7.repairs \in 0..MaxAttempts BY <1>2 DEF Store!Processes
    <3>3. v7.repairs + 1 \in 0..MaxAttempts BY <1>3, <2>1, <3>2
    <3>4. QED BY <1>2, <2>1, <3>1, <3>3 DEF Store!Processes
  <2>3. Store!ExportTypeOK'
    BY <1>1, <1>2, <2>1, <2>2 DEF Store!ExportTypeOK
  <2>4. QED
    BY <1>1, <1>4, <2>1, <2>2, <2>3 DEF Store!ExportInv, Store!JudgedIfCompleted, Store!AtWork
<1>6. ASSUME NEW r \in Store!Runs, NEW delivered \in BOOLEAN, Store!Finish(r, delivered)
      PROVE  Store!ExportInv'
  <2>1. /\ v7.run = {r} /\ v7.verdict # "" /\ v7' = Store!Nobody
        /\ v7.ending # "" /\ v1' = [v1 EXCEPT ![r] = v7.ending] /\ v10' = v10
    BY <1>6 DEF Store!Finish, Store!WithStatus
  <2>2. v6' = v6 \/ v6' = v6 \cup v7.replays
    BY <1>6 DEF Store!Finish
  <2>3. v1' \in [Store!Runs -> {"", "working"} \cup Store!Endings] /\ v6' \subseteq Store!Runs
    <3>1. v7.ending \in {"", "working"} \cup Store!Endings /\ v7.replays \subseteq Store!Runs
      BY <1>2 DEF Store!Processes
    <3>2. v6' \subseteq Store!Runs BY <1>2, <2>2, <3>1
    <3>3. QED BY <1>2, <2>1, <3>1, <3>2
  <2>4. Store!ExportTypeOK'
    BY <1>1, <1>2, <1>3, <2>1, <2>3 DEF Store!ExportTypeOK
  <2>5. \A x \in Store!Runs : Store!JudgedIfCompleted(x)'
    <3> SUFFICES ASSUME NEW x \in Store!Runs, v1'[x] = "completed" PROVE v8[x] # ""
      BY <1>1 DEF Store!JudgedIfCompleted
    <3>1. CASE x = r
      BY <1>2, <2>1, <3>1 DEF Store!ExportInv, Store!AtWork
    <3>2. CASE x # r
      BY <1>2, <2>1, <3>2 DEF Store!ExportInv, Store!JudgedIfCompleted
    <3>3. QED
      BY <3>1, <3>2
  <2>6. QED
    BY <1>3, <1>4, <2>1, <2>4, <2>5
<1>7. ASSUME NEW ending \in Store!Endings, Store!EndSteps(ending)
      PROVE  Store!ExportInv'
  <2>1. v7' = [v7 EXCEPT !.ending = ending, !.verdict = IF ending = "completed" THEN "" ELSE @]
        /\ UNCHANGED <<v1, v6, v10>>
    BY <1>7 DEF Store!EndSteps
  <2>2. v7' \in Store!Processes /\ v7'.run = v7.run /\ (v7'.ending = "completed" => v7'.verdict = "")
    BY <1>2, <2>1 DEF Store!Processes
  <2>3. Store!ExportTypeOK'
    BY <1>1, <1>2, <2>1, <2>2 DEF Store!ExportTypeOK
  <2>4. QED
    BY <1>1, <1>4, <2>1, <2>2, <2>3 DEF Store!ExportInv, Store!JudgedIfCompleted, Store!AtWork
<1>8. CASE Store!Die
  <2>1. v7' = Store!Nobody /\ UNCHANGED <<v1, v6, v10>>
    BY <1>8 DEF Store!Die
  <2>2. Store!ExportTypeOK'
    BY <1>1, <1>2, <1>3, <2>1 DEF Store!ExportTypeOK
  <2>3. QED
    BY <1>1, <1>3, <1>4, <2>1, <2>2 DEF Store!ExportInv, Store!JudgedIfCompleted
<1>9. QED
  BY <1>5, <1>6, <1>7, <1>8

\* A run that may be exported stands as the last of its verdicts, unless one was lost.
LEMMA UsableStands ==
  ASSUME Store!ExportInv, NEW r \in Store!Runs, Store!Usable(r)
  PROVE  /\ Store!LastGateAdmitted(r) = {TRUE} => v8[r] \in {"admitted", "lost"}
         /\ Store!LastGateAdmitted(r) = {FALSE} => v8[r] \in {"refused", "lost"}
         /\ \A i \in DOMAIN v4[r] : v4[r][i]
<1>1. v1[r] = "completed" /\ FALSE \notin Store!TrustOfSteps(r)
  BY DEF Store!Usable
<1>2. v8[r] \in {"admitted", "refused", "lost"}
  BY <1>1 DEF Store!ExportInv, Store!ExportTypeOK, Store!JudgedIfCompleted
<1>3. v8[r] \in {"admitted", "refused"} => Store!LastGateAdmitted(r) = {v8[r] = "admitted"}
  BY DEF Store!ExportInv, Store!StandsAsJudged
<1>4. v8[r] = "refused" => Store!LastGateAdmitted(r) # {TRUE}
  BY <1>3
<1>5. v8[r] = "admitted" => Store!LastGateAdmitted(r) # {FALSE}
  BY <1>3
<1>6. ASSUME NEW i \in DOMAIN v4[r]
      PROVE  v4[r][i]
  <2>1. v4[r] \in Seq(BOOLEAN)
    BY DEF Store!ExportInv, Store!ExportTypeOK
  <2>2. v4[r][i] \in BOOLEAN
    BY <2>1
  <2>3. v4[r][i] \in Store!TrustOfSteps(r)
    BY DEF Store!TrustOfSteps
  <2>4. QED
    BY <1>1, <2>2, <2>3
<1>7. QED
  BY <1>2, <1>4, <1>5, <1>6

\* An export of samples keeps the invariant and is current.
LEMMA SamplesAreCurrent ==
  ASSUME Store!ExportAssumption, Store!ExportInv, NEW permitted \in BOOLEAN, Store!ExportSFT(permitted)
  PROVE  Store!ExportInv' /\ Store!ExportIsCurrent
<1>1. UNCHANGED <<v1, v2, v3, v4, v5, v6, v7, v8, v10>> /\ v9'.dpo = {} /\ v9' = [sft |-> v9'.sft, dpo |-> {}]
      /\ v9'.sft \subseteq UNION {Store!Samples(r) : r \in {x \in Store!Recorded : Store!Eligible(x)}}
  BY DEF Store!ExportSFT, Store!Nothing
<1>2. ASSUME NEW x \in v9'.sft
      PROVE  \E r \in Store!Runs : Store!Eligible(r) /\ x \in Store!Samples(r)
  BY <1>1 DEF Store!Recorded
<1>3. ASSUME NEW x \in v9'.sft
      PROVE  x \in Store!Runs \X (1..MaxRunSteps)
  <2>1. PICK r \in Store!Runs : x \in Store!Samples(r)
    BY <1>2
  <2>2. v4[r] \in Seq(BOOLEAN) /\ Len(v4[r]) <= MaxRunSteps /\ MaxRunSteps \in Nat
    BY DEF Store!ExportInv, Store!ExportTypeOK, Store!ExportAssumption
  <2>3. DOMAIN v4[r] \subseteq 1..MaxRunSteps
    BY <2>2
  <2>4. QED
    BY <2>1, <2>3 DEF Store!Samples
<1>4. Store!ExportInv'
  <2>1. v9' \in [sft : SUBSET (Store!Runs \X (1..MaxRunSteps)), dpo : SUBSET (Store!Runs \X Store!Runs)]
    BY <1>1, <1>3
  <2>2. QED
    BY <1>1, <2>1, SaidStays DEF Store!ExportInv, Store!ExportTypeOK, Store!JudgedIfCompleted, Store!AtWork
<1>5. \A r \in {x[1] : x \in v9'.sft} : r \in Store!Runs /\ Store!Eligible(r)
  BY <1>2 DEF Store!Samples
<1>6. \A r \in {x[1] : x \in v9'.sft} : v8[r] \in {"admitted", "lost"} /\ \A i \in DOMAIN v4[r] : v4[r][i]
  BY <1>5, UsableStands DEF Store!Eligible
<1>7. QED
  BY <1>1, <1>4, <1>6 DEF Store!ExportIsCurrent

\* An export of pairs keeps the invariant and is current.
LEMMA PairsAreCurrent ==
  ASSUME Store!ExportInv, Store!ExportDPO
  PROVE  Store!ExportInv' /\ Store!ExportIsCurrent
<1>1. UNCHANGED <<v1, v2, v3, v4, v5, v6, v7, v8, v10>>
  BY DEF Store!ExportDPO
<1>2. PICK first \in [Prefixes -> Store!Runs] :
        /\ \A p \in Prefixes : Store!Chosen(p) # {} => first[p] \in Store!Chosen(p)
        /\ v9' = [sft |-> {}, dpo |-> UNION {{first[p]} \X Store!Rejected(p) :
                                               p \in {q \in Prefixes : Store!Chosen(q) # {}}}]
  BY DEF Store!ExportDPO
<1>3. v2 \subseteq Store!Runs
  BY DEF Store!ExportInv, Store!ExportTypeOK
<1>4. ASSUME NEW x \in v9'.dpo
      PROVE  \E p \in Prefixes : x \in Store!Chosen(p) \X Store!Rejected(p)
  BY <1>2
<1>5. ASSUME NEW p \in Prefixes, NEW a \in Store!Chosen(p), NEW b \in Store!Rejected(p)
      PROVE  /\ v8[a] \in {"admitted", "lost"} /\ v8[b] \in {"refused", "lost"}
             /\ {a, b} \subseteq v2 /\ v3[a] = v3[b] /\ <<a, b>> \in Store!Runs \X Store!Runs
             /\ \A r \in {a, b} : \A i \in DOMAIN v4[r] : v4[r][i]
  <2>1. a \in v2 /\ b \in v2 /\ Store!Usable(a) /\ Store!Usable(b) /\ v3[a] = p /\ v3[b] = p
        /\ Store!LastGateAdmitted(a) = {TRUE} /\ Store!LastGateAdmitted(b) = {FALSE}
    BY DEF Store!Chosen, Store!Rejected, Store!Group
  <2>2. QED
    BY <1>3, <2>1, UsableStands
<1>6. \A x \in v9'.dpo :
         /\ v8[x[1]] \in {"admitted", "lost"} /\ v8[x[2]] \in {"refused", "lost"}
         /\ {x[1], x[2]} \subseteq v2 /\ v3[x[1]] = v3[x[2]] /\ x \in Store!Runs \X Store!Runs
         /\ \A r \in {x[1], x[2]} : \A i \in DOMAIN v4[r] : v4[r][i]
  <2> TAKE x \in v9'.dpo
  <2>1. PICK p \in Prefixes : x \in Store!Chosen(p) \X Store!Rejected(p)
    BY <1>4
  <2>2. x = <<x[1], x[2]>> /\ x[1] \in Store!Chosen(p) /\ x[2] \in Store!Rejected(p)
    BY <2>1
  <2>3. QED
    BY <1>5, <2>2
<1>7. Store!ExportInv'
  <2>1. v9' \in [sft : SUBSET (Store!Runs \X (1..MaxRunSteps)), dpo : SUBSET (Store!Runs \X Store!Runs)]
    BY <1>2, <1>6
  <2>2. QED
    BY <1>1, <2>1, SaidStays DEF Store!ExportInv, Store!ExportTypeOK, Store!JudgedIfCompleted, Store!AtWork
<1>8. v9'.sft = {}
  BY <1>2
<1>9. QED
  BY <1>6, <1>7, <1>8 DEF Store!ExportIsCurrent

\* The invariant holds at the start.
LEMMA ExportInitHolds ==
  ASSUME Store!ExportAssumption, Store!ExportInit
  PROVE  Store!ExportInv
<1>1. /\ v1 = [r \in Store!Runs |-> ""] /\ v8 = [r \in Store!Runs |-> ""] /\ v7 = Store!Nobody
      /\ v2 = {} /\ v6 = {} /\ v9 = Store!Nothing /\ v3 \in [Store!Runs -> Prefixes]
  BY DEF Store!ExportInit
<1>2. /\ v4 \in [Store!Runs -> Seq(BOOLEAN)] /\ v5 \in [Store!Runs -> Seq(BOOLEAN)]
      /\ \A r \in Store!Runs : v4[r] = <<>>
  <2>1. v4 = [r \in Store!Runs |-> <<>>] /\ v5 = [r \in Store!Runs |-> <<>>]
    BY DEF Store!ExportInit
  <2>2. <<>> \in Seq(BOOLEAN)
    OBVIOUS
  <2>3. QED
    BY <2>1, <2>2, Zenon
<1>3. \A r \in Store!Runs : Len(v4[r]) <= MaxRunSteps
  <2>1. MaxRunSteps \in Nat /\ Len(<<>>) = 0
    BY DEF Store!ExportAssumption
  <2>2. QED
    BY <1>2, <2>1
<1>4. v7 \in Store!Processes /\ v7.run = {}
  BY <1>1, BeginsAsAProcess
<1>5. v9 \in [sft : SUBSET (Store!Runs \X (1..MaxRunSteps)), dpo : SUBSET (Store!Runs \X Store!Runs)]
  BY <1>1 DEF Store!Nothing
<1>6. v10 \in 0..MaxProcesses
  <2>1. v10 = 0 /\ MaxProcesses \in Nat
    BY DEF Store!ExportInit, Store!ExportAssumption
  <2>2. QED
    BY <2>1
<1>7. Store!ExportTypeOK
  BY <1>1, <1>2, <1>4, <1>5, <1>6 DEF Store!ExportTypeOK
<1>8. QED
  BY <1>1, <1>3, <1>4, <1>7 DEF Store!ExportInv, Store!StandsAsJudged, Store!JudgedIfCompleted

\* Every step keeps it, and writes nothing but what stands.
LEMMA ExportStepHolds ==
  ASSUME Store!ExportAssumption, Store!ExportInv, Store!ExportNext \/ UNCHANGED slots
  PROVE  Store!ExportInv' /\ Store!ExportIsCurrent
<1>1. CASE UNCHANGED slots
  BY <1>1, SaidStays DEF slots, Store!ExportInv, Store!ExportTypeOK, Store!JudgedIfCompleted,
    Store!AtWork, Store!ExportIsCurrent
<1>2. ASSUME v9' \in {v9, Store!Nothing}
      PROVE  Store!ExportIsCurrent
  <2>1. Store!Nothing.sft = {} /\ Store!Nothing.dpo = {}
    BY DEF Store!Nothing
  <2>2. QED
    BY <1>2, <2>1 DEF Store!ExportIsCurrent
<1>3. ASSUME NEW r \in Store!Runs,
             Store!StartRun(r) \/ Store!Resume(r) \/ \E original \in Store!Runs : Store!Replay(original, r)
      PROVE  Store!ExportInv' /\ Store!ExportIsCurrent
  BY <1>2, <1>3, BeginHolds DEF Store!StartRun, Store!Resume, Store!Replay, Store!Launch
<1>4. ASSUME NEW r \in Store!Runs, NEW trusted \in BOOLEAN, Store!Step(r, trusted)
      PROVE  Store!ExportInv' /\ Store!ExportIsCurrent
  BY <1>2, <1>4, RunStepHolds DEF Store!Step
<1>5. ASSUME NEW r \in Store!Runs, NEW verdict \in {"admitted", "refused"}, NEW delivered \in BOOLEAN,
             Store!Judge(r, verdict, delivered)
      PROVE  Store!ExportInv' /\ Store!ExportIsCurrent
  BY <1>2, <1>5, JudgeHolds DEF Store!Judge
<1>6. ASSUME \/ \E r \in Store!Runs : Store!Repair(r) \/ \E delivered \in BOOLEAN : Store!Finish(r, delivered)
             \/ \E ending \in Store!Endings : Store!EndSteps(ending)
             \/ Store!Die
      PROVE  Store!ExportInv' /\ Store!ExportIsCurrent
  BY <1>2, <1>6, ProcessHolds DEF Store!Repair, Store!Finish, Store!EndSteps, Store!Die
<1>7. QED
  BY <1>1, <1>3, <1>4, <1>5, <1>6, SamplesAreCurrent, PairsAreCurrent DEF Store!ExportNext

\* The store keeps what an export rests on.
LEMMA ExportInvariant == Spec => [](subject = "export" => Store!ExportInv)
<1> DEFINE Inv == subject = "export" => Store!ExportInv
<1> USE PartsAssumption DEF PartsAssumption
<1>1. Init => Inv
  BY ExportInitHolds DEF Init, SlotsInit
<1>2. Inv /\ [Next]_partsVars => Inv'
  <2> SUFFICES ASSUME Store!ExportInv, Store!ExportNext \/ UNCHANGED slots
               PROVE  Store!ExportInv'
    BY DEF Next, SlotsNext, partsVars, slots
  <2>1. QED
    BY ExportStepHolds
<1>3. QED
  BY <1>1, <1>2, PTL DEF Spec

\* An export writes runs the gates admit as they stand, and pairs of siblings whose
\* verdicts differ (_do_export, eligibility.py, dpo.py).
THEOREM ExportsAreCurrent == Spec => ExportIsCurrent
<1> DEFINE Inv == subject = "export" => Store!ExportInv
<1> USE PartsAssumption DEF PartsAssumption
<1>1. Inv /\ [Next]_partsVars => [subject = "export" => Store!ExportIsCurrent]_partsVars
  <2> SUFFICES ASSUME Store!ExportInv, Store!ExportNext \/ UNCHANGED slots
               PROVE  Store!ExportIsCurrent
    BY DEF Next, SlotsNext, partsVars, slots
  <2>1. QED
    BY ExportStepHolds
<1>2. QED
  BY <1>1, ExportInvariant, PTL DEF Spec, ExportIsCurrent

-----------------------------------------------------------------------------
(* CodeIndex (v1 tree, v2 rows, v3 edges, v4 graphed, v5 walk, v6          *)
(* history): after a reindex that ended, the rows and the graph are        *)
(* those of the tree.                                                      *)
(* While a walk goes on, they are for the files it has seen; before the    *)
(* pruning is over, what is stale is still to be pruned (Walking,          *)
(* Pruning).                                                               *)

\* What the contents of a file are.
LEMMA IndexContents ==
  ASSUME NEW f \in Index!Files, NEW c \in Index!Contents(f)
  PROVE  /\ c.kind = "text" => c \in Index!Texts(f)
         /\ c # Index!Absent /\ c.kind # "text" => c = Index!Garbled
         /\ c \in Index!AnyContents
<1>1. Index!Absent.kind # "text" /\ Index!Garbled.kind # "text"
  BY DEF Index!Absent, Index!Garbled
<1>2. c \in Index!Texts(f) => c.kind = "text"
  BY DEF Index!Texts
<1>3. c \in Index!Texts(f) \/ c = Index!Absent \/ c = Index!Garbled
  BY DEF Index!Contents
<1>4. c \in UNION {Index!Contents(g) : g \in Index!Files}
  OBVIOUS
<1>5. QED
  BY <1>1, <1>2, <1>3, <1>4 DEF Index!AnyContents

\* What a file of text is made of.
LEMMA IndexTextFields ==
  ASSUME NEW f \in Index!Files, NEW c \in Index!Texts(f)
  PROVE  /\ c.kind = "text" /\ c.defs \in BOOLEAN /\ c.uses \subseteq Index!Files /\ f \notin c.uses
         /\ c.uses \cap Text = {} /\ (f \in Text => c.uses = {})
         /\ c # Index!Absent /\ c # Index!Garbled /\ c \in Index!Contents(f) /\ c \in Index!AnyContents
<1>1. c.kind = "text" /\ c.defs \in BOOLEAN /\ c.uses \in (IF f \in Text THEN {{}} ELSE SUBSET (Index!Files \ (Text \cup {f})))
  BY DEF Index!Texts
<1>2. c # Index!Absent /\ c # Index!Garbled
  BY <1>1 DEF Index!Absent, Index!Garbled
<1>3. c \in Index!Contents(f)
  BY DEF Index!Contents
<1>4. c \in Index!AnyContents
  BY <1>3, IndexContents
<1>5. QED
  BY <1>1, <1>2, <1>3, <1>4

\* A file that is not there, or cannot be read, is no text.
LEMMA IndexNoText ==
  /\ Index!Absent.kind # "text" /\ Index!Garbled.kind # "text" /\ Index!Absent # Index!Garbled
  /\ Index!Absent \in Index!AnyContents /\ \A f \in Index!Files : Index!Absent \in Index!Contents(f)
<1>1. Index!Absent.kind # "text" /\ Index!Garbled.kind # "text" /\ Index!Absent # Index!Garbled
  <2>1. Index!Absent.kind = "absent" /\ Index!Garbled.kind = "garbled"
    BY DEF Index!Absent, Index!Garbled
  <2>2. QED
    BY <2>1
<1>2. \A f \in Index!Files : Index!Absent \in Index!Contents(f)
  BY DEF Index!Contents
<1>3. Index!Absent \in Index!AnyContents
  BY DEF Index!AnyContents
<1>4. QED
  BY <1>1, <1>2, <1>3

\* The files that are first in a walk have a least one.
LEMMA IndexFirst ==
  ASSUME NEW S \in SUBSET Index!Files, NEW f \in S, f = Index!Min(S)
  PROVE  \A g \in S : f <= g
<1>1. S \subseteq Nat /\ S # {}
  BY DEF Index!Files
<1>2. \E x \in S : \A y \in S : x <= y
  BY <1>1, LeastNatural
<1>3. QED
  BY <1>2 DEF Index!Min

\* The record of a walk that begins, and what a change of one of its fields leaves.
LEMMA IndexRest ==
  /\ Index!Rest \in Index!Walks /\ Index!Rest.pc = "idle" /\ Index!Rest.seen = {} /\ Index!Rest.left = {}
<1>1. 0 \in 0..NumFiles /\ Index!Absent \in Index!AnyContents
  BY PartsAssumption, IndexNoText DEF PartsAssumption, Index!IndexAssumption
<1>2. QED
  BY <1>1 DEF Index!Rest, Index!Walks

\* What the type invariant says of the process.
LEMMA IndexTypes ==
  ASSUME Index!IndexTypeOK
  PROVE  /\ v5 \in Index!Walks /\ v6 \in Index!Histories
         /\ v5.left \subseteq Index!Files /\ v5.seen \subseteq Index!Files /\ v5.at \in 0..NumFiles
         /\ v5.pc \in {"idle", "walk", "graph", "prune", "pruneGraph"} /\ v5.text \in Index!AnyContents
         /\ v6.call \in {"none", "full", "paths"} /\ v6.faithful \in BOOLEAN /\ v6.edits \in 0..MaxEdits
         /\ v5.pc = "graph" => v5.at \in Index!Files \ Text /\ v5.text \in Index!Texts(v5.at)
BY DEF Index!IndexTypeOK, Index!Walks, Index!Histories

\* An edit of the tree leaves nothing to keep.
LEMMA IndexEditHolds ==
  ASSUME Index!IndexAssumption, Index!IndexInv, NEW f \in Index!Files, NEW c \in Index!Contents(f), Index!Edit(f, c)
  PROVE  Index!IndexInv'
<1>1. /\ Index!IndexTypeOK /\ v6 \in Index!Histories /\ v6.edits \in 0..MaxEdits /\ MaxEdits \in Nat /\ Index!FullWalksPrune
  BY IndexTypes DEF Index!IndexInv, Index!IndexAssumption
<1>2. /\ v6.edits < MaxEdits /\ v1' = [v1 EXCEPT ![f] = c]
      /\ v6' = [v6 EXCEPT !.edits = @ + 1, !.faithful = FALSE] /\ UNCHANGED <<v2, v3, v4, v5>>
  BY DEF Index!Edit
<1>3. v6' \in Index!Histories /\ ~v6'.faithful /\ v6'.call = v6.call
  <2>1. v6.edits + 1 \in 0..MaxEdits
    BY <1>1, <1>2
  <2>2. QED
    BY <1>1, <1>2, <2>1 DEF Index!Histories
<1>4. c \in Index!AnyContents
  BY IndexContents
<1>5. v1' \in [Index!Files -> Index!AnyContents] /\ \A g \in Index!Files : v1'[g] \in Index!Contents(g)
  BY <1>1, <1>2, <1>4 DEF Index!IndexTypeOK
<1>6. Index!IndexTypeOK'
  BY <1>1, <1>2, <1>3, <1>5 DEF Index!IndexTypeOK
<1>7. Index!FaithfulSoFar' /\ Index!FullWalksPrune'
  BY <1>1, <1>2, <1>3 DEF Index!FaithfulSoFar, Index!FullWalksPrune
<1>8. QED
  BY <1>6, <1>7 DEF Index!IndexInv

\* A reindex of everything begins with nothing seen.
LEMMA IndexAllHolds ==
  ASSUME Index!IndexAssumption, Index!IndexInv, Index!ReindexAll
  PROVE  Index!IndexInv'
<1>1. /\ Index!IndexTypeOK /\ v6 \in Index!Histories /\ v6.edits \in 0..MaxEdits
  BY IndexTypes DEF Index!IndexInv
<1>2. /\ v5' = [Index!Rest EXCEPT !.pc = "walk", !.left = Index!Live]
      /\ v6' = [v6 EXCEPT !.call = "full", !.faithful = TRUE] /\ UNCHANGED <<v1, v2, v3, v4>>
  BY DEF Index!ReindexAll, Index!Live
<1>3. v6' \in Index!Histories /\ v6'.faithful /\ v6'.call = "full"
  BY <1>1, <1>2 DEF Index!Histories
<1>4. v5' \in Index!Walks /\ v5'.pc = "walk" /\ v5'.left = Index!Live /\ v5'.seen = {}
  <2>1. Index!Live \subseteq Index!Files
    BY DEF Index!Live
  <2>2. QED
    BY <1>2, <2>1, IndexRest DEF Index!Walks
<1>5. Index!IndexTypeOK'
  BY <1>1, <1>2, <1>3, <1>4 DEF Index!IndexTypeOK
<1>6. Index!Live' = Index!Live /\ Index!Settled' = {}
  BY <1>2, <1>4 DEF Index!Live, Index!Settled
<1>7. Index!Walking'
  BY <1>4, <1>6 DEF Index!Walking, Index!RowsProper, Index!GraphProper, Index!EdgesProper
<1>8. Index!FaithfulSoFar' /\ Index!FullWalksPrune'
  BY <1>3, <1>4, <1>7 DEF Index!FaithfulSoFar, Index!FullWalksPrune
<1>9. QED
  BY <1>5, <1>8 DEF Index!IndexInv

\* A reindex of some paths begins where the last one ended.
LEMMA IndexPathsHolds ==
  ASSUME Index!IndexAssumption, Index!IndexInv, NEW paths \in SUBSET Index!Files, Index!ReindexPaths(paths)
  PROVE  Index!IndexInv'
<1>1. /\ Index!IndexTypeOK /\ v6 \in Index!Histories /\ Index!FaithfulSoFar
  BY IndexTypes DEF Index!IndexInv
<1>2. /\ v5.pc = "idle" /\ v5' = [Index!Rest EXCEPT !.pc = "walk", !.left = paths]
      /\ v6' = [v6 EXCEPT !.call = "paths"] /\ UNCHANGED <<v1, v2, v3, v4>>
  BY DEF Index!ReindexPaths
<1>3. v6' \in Index!Histories /\ v6'.faithful = v6.faithful /\ v6'.call = "paths"
  BY <1>1, <1>2 DEF Index!Histories
<1>4. v5' \in Index!Walks /\ v5'.pc = "walk" /\ v5'.left = paths /\ v5'.seen = {}
  BY <1>2, IndexRest DEF Index!Walks
<1>5. Index!IndexTypeOK'
  BY <1>1, <1>2, <1>3, <1>4 DEF Index!IndexTypeOK
<1>6. v6.faithful => (\A f \in Index!Live : v1[f].kind = "text") /\ Index!RowsProper(Index!Files) /\ Index!GraphProper(Index!Files)
  BY <1>1, <1>2 DEF Index!FaithfulSoFar
<1>7. Index!Live' = Index!Live /\ (Index!RowsProper(Index!Files) => Index!RowsProper(Index!Files)')
      /\ (Index!GraphProper(Index!Files) => Index!GraphProper(Index!Files)')
  BY <1>2 DEF Index!Live, Index!RowsProper, Index!GraphProper, Index!Proper
<1>8. Index!FaithfulSoFar' /\ Index!FullWalksPrune'
  BY <1>2, <1>3, <1>4, <1>6, <1>7 DEF Index!FaithfulSoFar, Index!FullWalksPrune
<1>9. QED
  BY <1>5, <1>8 DEF Index!IndexInv

\* A file that is gone was not among the files of a full walk.
LEMMA IndexSkipHolds ==
  ASSUME Index!IndexAssumption, Index!IndexInv, NEW f \in Index!Files, Index!SkipMissing(f)
  PROVE  Index!IndexInv'
<1>1. /\ Index!IndexTypeOK /\ v5 \in Index!Walks /\ v5.left \subseteq Index!Files /\ Index!FaithfulSoFar
  BY IndexTypes DEF Index!IndexInv
<1>2. /\ v5.pc = "walk" /\ f \in v5.left /\ v1[f] = Index!Absent /\ v5' = [v5 EXCEPT !.left = @ \ {f}]
      /\ UNCHANGED <<v1, v2, v3, v4, v6>>
  BY DEF Index!SkipMissing, Index!Reading
<1>3. v5' \in Index!Walks /\ v5'.pc = "walk" /\ v5'.left = v5.left \ {f} /\ v5'.seen = v5.seen /\ v5'.at = v5.at
  BY <1>1, <1>2 DEF Index!Walks
<1>4. Index!IndexTypeOK'
  BY <1>1, <1>2, <1>3 DEF Index!IndexTypeOK
<1>5. ~Index!Walking
  BY <1>2 DEF Index!Walking, Index!Live
<1>6. Index!Live' = Index!Live /\ (Index!RowsProper(Index!Files) => Index!RowsProper(Index!Files)')
      /\ (Index!GraphProper(Index!Files) => Index!GraphProper(Index!Files)')
  BY <1>2 DEF Index!Live, Index!RowsProper, Index!GraphProper, Index!Proper
<1>7. Index!FaithfulSoFar' /\ Index!FullWalksPrune'
  BY <1>1, <1>2, <1>3, <1>5, <1>6, IndexTypes DEF Index!FaithfulSoFar, Index!FullWalksPrune
<1>8. QED
  BY <1>4, <1>7 DEF Index!IndexInv

\* A walk that fails, or a process that dies, leaves nothing to keep.
LEMMA IndexEndsHolds ==
  ASSUME Index!IndexAssumption, Index!IndexInv, (\E f \in Index!Files : Index!FailToRead(f)) \/ Index!Die
  PROVE  Index!IndexInv'
<1>1. Index!IndexTypeOK /\ v6 \in Index!Histories
  BY IndexTypes DEF Index!IndexInv
<1>2. v5' = Index!Rest /\ v6' = [v6 EXCEPT !.faithful = FALSE] /\ UNCHANGED <<v1, v2, v3, v4>>
  BY DEF Index!FailToRead, Index!Die
<1>3. v6' \in Index!Histories /\ ~v6'.faithful /\ v5' \in Index!Walks /\ v5'.pc = "idle"
  BY <1>1, <1>2, IndexRest DEF Index!Histories
<1>4. Index!IndexTypeOK'
  BY <1>1, <1>2, <1>3 DEF Index!IndexTypeOK
<1>5. Index!FaithfulSoFar' /\ Index!FullWalksPrune'
  BY <1>3 DEF Index!FaithfulSoFar, Index!FullWalksPrune
<1>6. QED
  BY <1>4, <1>5 DEF Index!IndexInv

\* The invariant holds at the start.
LEMMA IndexInitHolds ==
  ASSUME Index!IndexAssumption, Index!IndexInit
  PROVE  Index!IndexInv
<1>1. /\ v1 \in [Index!Files -> Index!AnyContents] /\ \A f \in Index!Files : v1[f] \in Index!Contents(f)
      /\ v2 = [f \in Index!Files |-> Index!Absent] /\ v3 = {} /\ v4 = {} /\ v5 = Index!Rest
      /\ v6 = [call |-> "none", faithful |-> FALSE, edits |-> 0]
  BY DEF Index!IndexInit
<1>2. v6 \in Index!Histories /\ ~v6.faithful
  BY <1>1 DEF Index!Histories, Index!IndexAssumption
<1>3. v5 \in Index!Walks /\ v5.pc = "idle"
  BY <1>1, IndexRest
<1>4. v2 \in [Index!Files -> Index!AnyContents] /\ \A f \in Index!Files : v2[f] \in Index!Texts(f) \cup {Index!Absent}
  BY <1>1, IndexNoText
<1>5. Index!IndexTypeOK
  BY <1>1, <1>2, <1>3, <1>4 DEF Index!IndexTypeOK
<1>6. QED
  BY <1>2, <1>3, <1>5 DEF Index!IndexInv, Index!FaithfulSoFar, Index!FullWalksPrune

\* A file that is gone, or has no text, has no rows coming.
LEMMA IndexProper ==
  ASSUME NEW f \in Index!Files
  PROVE  /\ f \notin Index!Live => Index!Proper(f) = Index!Absent
         /\ v1[f].kind = "text" => Index!Proper(f) = IF v1[f].defs THEN v1[f] ELSE Index!Absent
BY IndexNoText DEF Index!Proper, Index!Live

\* The rows of a file are those of the text just read.
LEMMA IndexRowsHolds ==
  ASSUME Index!IndexAssumption, Index!IndexInv, NEW f \in Index!Files, Index!WriteRows(f)
  PROVE  Index!IndexInv'
<1>1. /\ Index!IndexTypeOK /\ v5 \in Index!Walks /\ Index!FaithfulSoFar
      /\ v5.left \subseteq Index!Files /\ v5.seen \subseteq Index!Files /\ v6.call \in {"none", "full", "paths"}
  BY IndexTypes DEF Index!IndexInv
<1>2. /\ v5.pc = "walk" /\ f \in v5.left /\ (v6.call = "full" => f = Index!Min(v5.left)) /\ v1[f].kind = "text"
      /\ v2' = [v2 EXCEPT ![f] = IF v1[f].defs THEN v1[f] ELSE Index!Absent] /\ UNCHANGED <<v1, v3, v4, v6>>
  BY DEF Index!WriteRows, Index!Reading
<1>3. v5' = IF f \in Text THEN [v5 EXCEPT !.left = @ \ {f}, !.seen = @ \cup {f}]
            ELSE [[v5 EXCEPT !.left = @ \ {f}, !.seen = @ \cup {f}] EXCEPT !.pc = "graph", !.at = f, !.text = v1[f]]
  BY DEF Index!WriteRows
<1>4. v1[f] \in Index!Texts(f) /\ v1[f] \in Index!AnyContents /\ v1[f] # Index!Absent
  BY <1>1, <1>2, IndexContents, IndexNoText DEF Index!IndexTypeOK
<1>5. /\ v5' \in Index!Walks /\ v5'.left = v5.left \ {f} /\ v5'.seen = v5.seen \cup {f}
      /\ f \in Text => v5'.pc = "walk"
      /\ f \notin Text => v5'.pc = "graph" /\ v5'.at = f /\ v5'.text = v1[f]
  <2>1. f \in 0..NumFiles
    BY DEF Index!Files, Index!IndexAssumption
  <2>2. QED
    BY <1>1, <1>2, <1>3, <1>4, <2>1 DEF Index!Walks
<1>6. Index!IndexTypeOK'
  <2>1. v2' \in [Index!Files -> Index!AnyContents]
        /\ \A g \in Index!Files : v2'[g] \in Index!Texts(g) \cup {Index!Absent}
    BY <1>1, <1>2, <1>4, IndexNoText DEF Index!IndexTypeOK
  <2>2. v5'.pc = "graph" => v5'.at \in Index!Files \ Text /\ v5'.text \in Index!Texts(v5'.at)
    BY <1>4, <1>5
  <2>3. QED
    BY <1>1, <1>2, <1>5, <2>1, <2>2 DEF Index!IndexTypeOK
<1>7. v2'[f] = Index!Proper(f) /\ \A g \in Index!Files \ {f} : v2'[g] = v2[g]
  BY <1>1, <1>2, IndexProper DEF Index!IndexTypeOK
<1>8. Index!Live' = Index!Live /\ \A g : Index!Proper(g)' = Index!Proper(g)
  BY <1>2 DEF Index!Live, Index!Proper
<1>9. Index!RowsProper(Index!Files) => Index!RowsProper(Index!Files)'
  BY <1>7, <1>8 DEF Index!RowsProper
<1>10. Index!GraphProper(Index!Files) => Index!GraphProper(Index!Files)'
  BY <1>2, <1>8 DEF Index!GraphProper
<1>11. ASSUME v6.call = "full", Index!Walking
       PROVE  Index!Walking'
  <2>1. /\ v5.left \cup v5.seen = Index!Live /\ \A s \in v5.seen, g \in v5.left : s < g
        /\ Index!RowsProper(v5.seen) /\ Index!GraphProper(v5.seen) /\ Index!EdgesProper(v5.seen)
    BY <1>2, <1>11 DEF Index!Walking, Index!Settled
  <2>2. \A g \in v5.left : f <= g
    BY <1>1, <1>2, <1>11, IndexFirst
  <2>3. v5'.left \cup v5'.seen = Index!Live' /\ \A s \in v5'.seen, g \in v5'.left : s < g
    <3>1. \A g \in v5.left \ {f} : f < g
      BY <1>1, <2>2 DEF Index!Files
    <3>2. QED
      BY <1>2, <1>5, <1>8, <2>1, <3>1
  <2>4. Index!RowsProper(v5.seen)'
    BY <1>1, <1>5, <1>7, <1>8, <2>1 DEF Index!RowsProper
  <2>5. f \notin v5.seen
    BY <1>2, <2>1 DEF Index!Files
  <2>6. Index!Settled' \ Text = v5.seen \ Text
    BY <1>5, <2>5 DEF Index!Settled
  <2>7. Index!GraphProper(Index!Settled)' /\ Index!EdgesProper(Index!Settled)'
    BY <1>2, <1>8, <2>1, <2>6 DEF Index!GraphProper, Index!EdgesProper
  <2>8. v5'.pc = "graph" => v5'.at \in v5'.seen /\ \A g \in Index!Settled' : g < v5'.at
    BY <1>2, <1>5, <2>1, <2>5 DEF Index!Settled
  <2>9. QED
    BY <2>3, <2>4, <2>7, <2>8 DEF Index!Walking
<1>12. Index!FaithfulSoFar'
  BY <1>1, <1>2, <1>5, <1>8, <1>9, <1>10, <1>11 DEF Index!FaithfulSoFar
<1>13. QED
  BY <1>5, <1>6, <1>12 DEF Index!IndexInv, Index!FullWalksPrune

\* What the edges of a file are replaced by.
LEMMA IndexReplaced ==
  ASSUME Index!IndexAssumption, Index!IndexTypeOK, NEW f \in Index!Files, NEW c, Index!ReplaceEdges(f, c),
         c = Index!Absent \/ (c \in Index!Texts(f) /\ f \notin Text)
  PROVE  /\ v3' \subseteq Index!Edge /\ v4' \subseteq Index!Files \ Text
         /\ \A e \in v3 : e.src # f /\ (e.dst # f \/ (e.kind = "imports" /\ f \notin TopLevel)) => e \in v3'
         /\ \A g : g # f => (g \in v4' <=> g \in v4)
         /\ c.kind = "text" =>
              /\ f \in v4' <=> c.defs
              /\ \A g \in c.uses : /\ [kind |-> "imports", src |-> f, dst |-> g] \in v3'
                                   /\ c.defs => [kind |-> "calls", src |-> f, dst |-> g] \in v3'
         /\ c = Index!Absent => f \notin v4'
<1>1. /\ v3' = Index!Kept(f) \cup Index!EdgesOf(f, c)
      /\ v4' = IF c.kind = "text" /\ c.defs THEN v4 \cup {f} ELSE v4 \ {f}
      /\ v3 \subseteq Index!Edge /\ v4 \subseteq Index!Files \ Text
  BY DEF Index!ReplaceEdges, Index!IndexTypeOK
<1>2. c.kind = "text" => c \in Index!Texts(f) /\ f \notin Text /\ c.uses \subseteq Index!Files
  BY IndexNoText, IndexTextFields
<1>3. Index!EdgesOf(f, c) \subseteq Index!Edge
  <2>1. CASE c.kind # "text" BY <2>1 DEF Index!EdgesOf
  <2>2. CASE c.kind = "text" BY <1>2, <2>2 DEF Index!EdgesOf, Index!Edge
  <2>3. QED BY <2>1, <2>2
<1>4. Index!Kept(f) = {e \in v3 : e.src # f /\ (e.dst # f \/ (e.kind = "imports" /\ f \notin TopLevel))}
  BY DEF Index!Kept
<1>5. v3' \subseteq Index!Edge /\ v4' \subseteq Index!Files \ Text
  BY <1>1, <1>2, <1>3, <1>4
<1>6. c.kind = "text" => \A g \in c.uses : /\ [kind |-> "imports", src |-> f, dst |-> g] \in Index!EdgesOf(f, c)
                                           /\ c.defs => [kind |-> "calls", src |-> f, dst |-> g] \in Index!EdgesOf(f, c)
  BY DEF Index!EdgesOf
<1>7. QED
  BY <1>1, <1>4, <1>5, <1>6, IndexNoText

\* The edges of a file are those of its text; the ones into it of earlier files survive unless it is at the root.
LEMMA IndexEdgesHolds ==
  ASSUME Index!IndexAssumption, Index!IndexInv, Index!WriteEdges
  PROVE  Index!IndexInv'
<1> DEFINE a == v5.at
           c == v5.text
<1>1. /\ Index!IndexTypeOK /\ v5 \in Index!Walks /\ Index!FaithfulSoFar
      /\ v5.seen \subseteq Index!Files /\ v6.call \in {"none", "full", "paths"}
      /\ v5.pc = "graph" => a \in Index!Files \ Text /\ c \in Index!Texts(a)
  BY IndexTypes DEF Index!IndexInv
<1>2. /\ v5.pc = "graph" /\ Index!ReplaceEdges(a, c) /\ UNCHANGED <<v1, v2, v6>>
      /\ v5' = [v5 EXCEPT !.pc = "walk", !.at = 0, !.text = Index!Absent]
  BY DEF Index!WriteEdges
<1>3. a \in Index!Files /\ a \notin Text /\ c \in Index!Texts(a) /\ c.kind = "text"
  BY <1>1, <1>2, IndexTextFields
<1>4. v5' \in Index!Walks /\ v5'.pc = "walk" /\ v5'.left = v5.left /\ v5'.seen = v5.seen
  <2>1. 0 \in 0..NumFiles /\ Index!Absent \in Index!AnyContents
    BY IndexNoText DEF Index!IndexAssumption
  <2>2. QED
    BY <1>1, <1>2, <2>1 DEF Index!Walks
<1>5. /\ v3' \subseteq Index!Edge /\ v4' \subseteq Index!Files \ Text
      /\ \A e \in v3 : e.src # a /\ (e.dst # a \/ (e.kind = "imports" /\ a \notin TopLevel)) => e \in v3'
      /\ \A g : g # a => (g \in v4' <=> g \in v4)
      /\ a \in v4' <=> c.defs
      /\ \A g \in c.uses : /\ [kind |-> "imports", src |-> a, dst |-> g] \in v3'
                           /\ c.defs => [kind |-> "calls", src |-> a, dst |-> g] \in v3'
  <2> HIDE DEF a, c
  <2> QED BY <1>1, <1>2, <1>3, IndexReplaced
<1>6. Index!IndexTypeOK'
  BY <1>1, <1>2, <1>4, <1>5 DEF Index!IndexTypeOK
<1>7. Index!Live' = Index!Live /\ \A g : Index!Proper(g)' = Index!Proper(g)
  BY <1>2 DEF Index!Live, Index!Proper
<1> HIDE DEF a, c
<1>8. c = v1[a] => (a \in v4' <=> Index!Proper(a) # Index!Absent)
  BY <1>3, <1>5, IndexProper, IndexTextFields
<1>9. ASSUME v6.faithful
      PROVE  c = v1[a]
  BY <1>1, <1>2, <1>9 DEF Index!FaithfulSoFar, a, c
<1>10. Index!RowsProper(Index!Files) => Index!RowsProper(Index!Files)'
  BY <1>2, <1>7 DEF Index!RowsProper
<1>11. c = v1[a] /\ Index!GraphProper(Index!Files) => Index!GraphProper(Index!Files)'
  BY <1>5, <1>7, <1>8 DEF Index!GraphProper
<1>12. ASSUME c = v1[a], Index!Walking
       PROVE  Index!Walking'
  <2>1. /\ v5.left \cup v5.seen = Index!Live /\ \A s \in v5.seen, g \in v5.left : s < g
        /\ Index!RowsProper(v5.seen) /\ Index!GraphProper(v5.seen \ {a}) /\ Index!EdgesProper(v5.seen \ {a})
        /\ a \in v5.seen /\ \A g \in v5.seen \ {a} : g < a
    BY <1>2, <1>12 DEF Index!Walking, Index!Settled, a
  <2>2. Index!Settled' = v5.seen
    BY <1>4 DEF Index!Settled
  <2>3. Index!RowsProper(v5.seen)'
    BY <1>2, <1>4, <1>7, <2>1 DEF Index!RowsProper
  <2>4. Index!GraphProper(Index!Settled)'
    BY <1>5, <1>7, <1>8, <1>12, <2>1, <2>2 DEF Index!GraphProper
  <2>5. ASSUME NEW f \in v5.seen \ Text, NEW g \in v1[f].uses \cap Index!Live
        PROVE  /\ f > g \/ g \notin TopLevel => [kind |-> "imports", src |-> f, dst |-> g] \in v3'
               /\ f > g /\ v1[f].defs => [kind |-> "calls", src |-> f, dst |-> g] \in v3'
    <3>1. CASE f = a
      <4>1. g \in c.uses /\ v1[f].defs = c.defs
        BY <1>12, <2>5, <3>1
      <4>2. QED
        BY <1>5, <3>1, <4>1
    <3>2. CASE f # a
      <4>1. /\ f > g \/ g \notin TopLevel => [kind |-> "imports", src |-> f, dst |-> g] \in v3
            /\ f > g /\ v1[f].defs => [kind |-> "calls", src |-> f, dst |-> g] \in v3
        BY <2>1, <2>5, <3>2 DEF Index!EdgesProper
      <4>2. g = a => ~(f > g)
        <5>1. f < a /\ f \in Nat /\ a \in Nat BY <1>1, <1>3, <2>1, <2>5, <3>2 DEF Index!Files
        <5>2. QED BY <5>1
      <4>3. \A k : [kind |-> k, src |-> f, dst |-> g].src = f /\ [kind |-> k, src |-> f, dst |-> g].dst = g
                   /\ [kind |-> k, src |-> f, dst |-> g].kind = k
        OBVIOUS
      <4>4. QED
        BY <1>5, <3>2, <4>1, <4>2, <4>3
    <3>3. QED BY <3>1, <3>2
  <2>6. Index!EdgesProper(Index!Settled)'
    BY <1>2, <1>7, <2>2, <2>5 DEF Index!EdgesProper
  <2>7. QED
    BY <1>4, <1>7, <2>1, <2>3, <2>4, <2>6 DEF Index!Walking
<1>13. Index!FaithfulSoFar'
  BY <1>1, <1>2, <1>4, <1>7, <1>9, <1>10, <1>11, <1>12 DEF Index!FaithfulSoFar
<1>14. QED
  BY <1>4, <1>6, <1>13 DEF Index!IndexInv, Index!FullWalksPrune

\* A full walk goes on to what it did not see; another leaves the index as right as it was.
LEMMA IndexEndOfWalkHolds ==
  ASSUME Index!IndexAssumption, Index!IndexInv, Index!EndOfWalk
  PROVE  Index!IndexInv'
<1> DEFINE orphans == {f \in Index!Files : v2[f] # Index!Absent} \ v5.seen
<1>1. /\ Index!IndexTypeOK /\ v5 \in Index!Walks /\ Index!FaithfulSoFar
      /\ v5.left \subseteq Index!Files /\ v5.seen \subseteq Index!Files /\ v6.call \in {"none", "full", "paths"}
  BY IndexTypes DEF Index!IndexInv
<1>2. /\ v5.pc = "walk" /\ v5.left = {} /\ UNCHANGED <<v1, v2, v3, v4, v6>>
      /\ v5' = IF v6.call = "full" THEN [v5 EXCEPT !.pc = "prune", !.left = orphans] ELSE Index!Rest
  BY DEF Index!EndOfWalk
<1>3. orphans \subseteq Index!Files
  OBVIOUS
<1> HIDE DEF orphans
<1>4. /\ v5' \in Index!Walks
      /\ v6.call = "full" => v5'.pc = "prune" /\ v5'.left = orphans /\ v5'.seen = v5.seen
      /\ v6.call # "full" => v5'.pc = "idle"
  BY <1>1, <1>2, <1>3, IndexRest DEF Index!Walks
<1>5. Index!IndexTypeOK'
  BY <1>1, <1>2, <1>4 DEF Index!IndexTypeOK
<1>6. /\ Index!Live' = Index!Live /\ \A f : Index!Proper(f)' = Index!Proper(f)
      /\ Index!RowsProper(Index!Files) => Index!RowsProper(Index!Files)'
      /\ Index!GraphProper(Index!Files) => Index!GraphProper(Index!Files)'
      /\ Index!RowsProper(Index!Live) => Index!RowsProper(Index!Live)'
      /\ Index!GraphProper(Index!Live) => Index!GraphProper(Index!Live)'
      /\ Index!EdgesProper(Index!Live) => Index!EdgesProper(Index!Live)'
  BY <1>2 DEF Index!Live, Index!Proper, Index!RowsProper, Index!GraphProper, Index!EdgesProper
<1>7. ASSUME v6.call = "full", Index!Walking
      PROVE  Index!Pruning'
  <2>1. /\ v5.seen = Index!Live
        /\ Index!RowsProper(Index!Live) /\ Index!GraphProper(Index!Live) /\ Index!EdgesProper(Index!Live)
    BY <1>2, <1>7 DEF Index!Walking, Index!Settled
  <2>2. v5'.left \cap Index!Live = {}
    BY <1>4, <1>7, <2>1 DEF orphans
  <2>3. \A f \in Index!Files \ orphans : v2[f] = Index!Proper(f)
    BY <2>1, IndexProper DEF orphans, Index!RowsProper
  <2>4. Index!RowsProper(Index!Files \ v5.left)'
    BY <1>2, <1>4, <1>6, <1>7, <2>3 DEF Index!RowsProper
  <2>5. QED
    BY <1>4, <1>6, <1>7, <2>1, <2>2, <2>4 DEF Index!Pruning
<1>8. v6.faithful /\ v6.call = "full" => \A f \in v5.seen : v1[f].kind = "text"
  BY <1>1, <1>2 DEF Index!FaithfulSoFar
<1>9. Index!FaithfulSoFar'
  BY <1>1, <1>2, <1>4, <1>6, <1>7, <1>8 DEF Index!FaithfulSoFar
<1>10. Index!FullWalksPrune'
  BY <1>2, <1>4 DEF Index!FullWalksPrune, orphans
<1>11. QED
  BY <1>5, <1>9, <1>10 DEF Index!IndexInv

\* The rows of an orphan go.
LEMMA IndexPruneRowsHolds ==
  ASSUME Index!IndexAssumption, Index!IndexInv, NEW f \in Index!Files, Index!PruneRows(f)
  PROVE  Index!IndexInv'
<1>1. /\ Index!IndexTypeOK /\ v5 \in Index!Walks /\ Index!FaithfulSoFar /\ Index!FullWalksPrune
      /\ v5.left \subseteq Index!Files /\ v5.seen \subseteq Index!Files
  BY IndexTypes DEF Index!IndexInv
<1>2. /\ v5.pc = "prune" /\ f \in v5.left /\ v2' = [v2 EXCEPT ![f] = Index!Absent]
      /\ v5' = [v5 EXCEPT !.left = @ \ {f}] /\ UNCHANGED <<v1, v3, v4, v6>>
  BY DEF Index!PruneRows
<1>3. v5' \in Index!Walks /\ v5'.pc = "prune" /\ v5'.left = v5.left \ {f} /\ v5'.seen = v5.seen
  BY <1>1, <1>2 DEF Index!Walks
<1>4. Index!IndexTypeOK'
  BY <1>1, <1>2, <1>3, IndexNoText DEF Index!IndexTypeOK
<1>5. Index!Live' = Index!Live /\ \A g : Index!Proper(g)' = Index!Proper(g)
  BY <1>2 DEF Index!Live, Index!Proper
<1>6. v2'[f] = Index!Absent /\ \A g \in Index!Files \ {f} : v2'[g] = v2[g]
  BY <1>1, <1>2 DEF Index!IndexTypeOK
<1>7. ASSUME Index!Pruning
      PROVE  Index!Pruning'
  <2>1. /\ v5.seen = Index!Live /\ v5.left \cap Index!Live = {} /\ Index!RowsProper(Index!Files \ v5.left)
        /\ Index!RowsProper(Index!Live) /\ Index!GraphProper(Index!Live) /\ Index!EdgesProper(Index!Live)
    BY <1>2, <1>7 DEF Index!Pruning
  <2>2. f \notin Index!Live /\ Index!Proper(f) = Index!Absent /\ Index!Live \subseteq Index!Files
    BY <1>2, <2>1, IndexProper DEF Index!Live
  <2>3. Index!RowsProper(Index!Files \ v5.left)' /\ Index!RowsProper(Index!Live)'
    BY <1>2, <1>3, <1>5, <1>6, <2>1, <2>2 DEF Index!RowsProper
  <2>4. Index!GraphProper(Index!Live)' /\ Index!EdgesProper(Index!Live)'
    BY <1>2, <1>5, <2>1 DEF Index!GraphProper, Index!EdgesProper
  <2>5. QED
    BY <1>3, <1>5, <2>1, <2>3, <2>4 DEF Index!Pruning
<1>8. v6.call = "full"
  BY <1>1, <1>2 DEF Index!FullWalksPrune
<1>9. Index!FaithfulSoFar'
  BY <1>1, <1>2, <1>3, <1>5, <1>7, <1>8 DEF Index!FaithfulSoFar
<1>10. Index!FullWalksPrune'
  BY <1>1, <1>2, <1>3, <1>8 DEF Index!FullWalksPrune
<1>11. QED
  BY <1>4, <1>9, <1>10 DEF Index!IndexInv

\* The rows done, the graph is pruned of what the walk did not see.
LEMMA IndexEndOfPruningHolds ==
  ASSUME Index!IndexAssumption, Index!IndexInv, Index!EndOfPruning
  PROVE  Index!IndexInv'
<1>1. /\ Index!IndexTypeOK /\ v5 \in Index!Walks /\ Index!FaithfulSoFar /\ Index!FullWalksPrune /\ v4 \subseteq Index!Files
  BY IndexTypes DEF Index!IndexInv, Index!IndexTypeOK
<1>2. /\ v5.pc = "prune" /\ v5.left = {} /\ v5' = [v5 EXCEPT !.pc = "pruneGraph", !.left = v4 \ v5.seen]
      /\ UNCHANGED <<v1, v2, v3, v4, v6>>
  BY DEF Index!EndOfPruning
<1>3. v5' \in Index!Walks /\ v5'.pc = "pruneGraph" /\ v5'.left = v4 \ v5.seen /\ v5'.seen = v5.seen
  BY <1>1, <1>2 DEF Index!Walks
<1>4. Index!IndexTypeOK'
  BY <1>1, <1>2, <1>3 DEF Index!IndexTypeOK
<1>5. Index!Live' = Index!Live /\ \A g : Index!Proper(g)' = Index!Proper(g)
  BY <1>2 DEF Index!Live, Index!Proper
<1>6. ASSUME Index!Pruning
      PROVE  Index!Pruning'
  <2>1. /\ v5.seen = Index!Live /\ Index!RowsProper(Index!Files)
        /\ Index!RowsProper(Index!Live) /\ Index!GraphProper(Index!Live) /\ Index!EdgesProper(Index!Live)
    BY <1>2, <1>6 DEF Index!Pruning
  <2>2. \A g \in Index!Files \ Index!Live : Index!Proper(g) = Index!Absent
    BY IndexProper
  <2>3. Index!GraphProper(Index!Files \ v5.left)'
    BY <1>2, <1>3, <1>5, <2>1, <2>2 DEF Index!GraphProper
  <2>4. Index!RowsProper(Index!Files)' /\ Index!RowsProper(Index!Live)'
        /\ Index!GraphProper(Index!Live)' /\ Index!EdgesProper(Index!Live)'
    BY <1>2, <1>5, <2>1 DEF Index!RowsProper, Index!GraphProper, Index!EdgesProper
  <2>5. QED
    BY <1>3, <1>5, <2>1, <2>3, <2>4 DEF Index!Pruning
<1>7. v6.call = "full"
  BY <1>1, <1>2 DEF Index!FullWalksPrune
<1>8. Index!FaithfulSoFar'
  BY <1>1, <1>2, <1>3, <1>5, <1>6, <1>7 DEF Index!FaithfulSoFar
<1>9. QED
  BY <1>2, <1>3, <1>4, <1>7, <1>8 DEF Index!IndexInv, Index!FullWalksPrune

\* An orphan leaves the graph, with no edge of a file that is there.
LEMMA IndexPruneGraphHolds ==
  ASSUME Index!IndexAssumption, Index!IndexInv, NEW f \in Index!Files, Index!PruneGraph(f)
  PROVE  Index!IndexInv'
<1>1. /\ Index!IndexTypeOK /\ v5 \in Index!Walks /\ Index!FaithfulSoFar /\ Index!FullWalksPrune
  BY IndexTypes DEF Index!IndexInv
<1>2. /\ v5.pc = "pruneGraph" /\ f \in v5.left /\ Index!ReplaceEdges(f, Index!Absent)
      /\ v5' = [v5 EXCEPT !.left = @ \ {f}] /\ UNCHANGED <<v1, v2, v6>>
  BY DEF Index!PruneGraph
<1>3. v5' \in Index!Walks /\ v5'.pc = "pruneGraph" /\ v5'.left = v5.left \ {f} /\ v5'.seen = v5.seen
  BY <1>1, <1>2 DEF Index!Walks
<1>4. /\ v3' \subseteq Index!Edge /\ v4' \subseteq Index!Files \ Text /\ f \notin v4'
      /\ \A e \in v3 : e.src # f /\ e.dst # f => e \in v3'
      /\ \A g : g # f => (g \in v4' <=> g \in v4)
  BY <1>1, <1>2, IndexReplaced
<1>5. Index!IndexTypeOK'
  BY <1>1, <1>2, <1>3, <1>4 DEF Index!IndexTypeOK
<1>6. Index!Live' = Index!Live /\ \A g : Index!Proper(g)' = Index!Proper(g)
  BY <1>2 DEF Index!Live, Index!Proper
<1>7. ASSUME Index!Pruning
      PROVE  Index!Pruning'
  <2>1. /\ v5.seen = Index!Live /\ v5.left \cap Index!Live = {} /\ Index!GraphProper(Index!Files \ v5.left)
        /\ Index!RowsProper(Index!Files)
        /\ Index!RowsProper(Index!Live) /\ Index!GraphProper(Index!Live) /\ Index!EdgesProper(Index!Live)
    BY <1>2, <1>7 DEF Index!Pruning
  <2>2. f \notin Index!Live /\ Index!Proper(f) = Index!Absent
    BY <1>2, <2>1, IndexProper
  <2>3. Index!RowsProper(Index!Files)' /\ Index!RowsProper(Index!Live)'
    BY <1>2, <1>6, <2>1 DEF Index!RowsProper
  <2>4. Index!GraphProper(Index!Live)' /\ Index!GraphProper(Index!Files \ v5.left)'
    BY <1>3, <1>4, <1>6, <2>1, <2>2 DEF Index!GraphProper
  <2>5. ASSUME NEW h \in Index!Live \ Text, NEW g \in v1[h].uses \cap Index!Live, NEW k,
               [kind |-> k, src |-> h, dst |-> g] \in v3
        PROVE  [kind |-> k, src |-> h, dst |-> g] \in v3'
    <3>1. [kind |-> k, src |-> h, dst |-> g].src = h /\ [kind |-> k, src |-> h, dst |-> g].dst = g
      OBVIOUS
    <3>2. h # f /\ g # f
      BY <2>2, <2>5
    <3>3. QED
      BY <1>4, <2>5, <3>1, <3>2
  <2>6. Index!EdgesProper(Index!Live)'
    BY <1>2, <1>6, <2>1, <2>5 DEF Index!EdgesProper
  <2>7. QED
    BY <1>3, <1>6, <2>1, <2>3, <2>4, <2>6 DEF Index!Pruning
<1>8. v6.call = "full"
  BY <1>1, <1>2 DEF Index!FullWalksPrune
<1>9. Index!FaithfulSoFar'
  BY <1>1, <1>2, <1>3, <1>6, <1>7, <1>8 DEF Index!FaithfulSoFar
<1>10. QED
  BY <1>2, <1>3, <1>5, <1>8, <1>9 DEF Index!IndexInv, Index!FullWalksPrune

\* A full reindex that ended describes the tree.
LEMMA IndexEndHolds ==
  ASSUME Index!IndexAssumption, Index!IndexInv, Index!EndOfReindex
  PROVE  Index!IndexInv'
<1>1. /\ Index!IndexTypeOK /\ Index!FaithfulSoFar /\ Index!FullWalksPrune
  BY DEF Index!IndexInv
<1>2. v5.pc = "pruneGraph" /\ v5.left = {} /\ v5' = Index!Rest /\ UNCHANGED <<v1, v2, v3, v4, v6>>
  BY DEF Index!EndOfReindex
<1>3. v5' \in Index!Walks /\ v5'.pc = "idle"
  BY <1>2, IndexRest
<1>4. Index!IndexTypeOK'
  BY <1>1, <1>2, <1>3 DEF Index!IndexTypeOK
<1>5. v6.call = "full"
  BY <1>1, <1>2 DEF Index!FullWalksPrune
<1>6. ASSUME v6.faithful
      PROVE  /\ \A f \in Index!Live : v1[f].kind = "text"
             /\ Index!EdgesProper(Index!Live) /\ Index!RowsProper(Index!Files) /\ Index!GraphProper(Index!Files)
  <2>1. Index!Pruning /\ \A f \in v5.seen : v1[f].kind = "text"
    BY <1>1, <1>2, <1>5, <1>6 DEF Index!FaithfulSoFar
  <2>2. Index!Files \ v5.left = Index!Files
    BY <1>2
  <2>3. QED
    BY <1>2, <2>1, <2>2 DEF Index!Pruning
<1>7. /\ Index!Live' = Index!Live
      /\ Index!RowsProper(Index!Files) => Index!RowsProper(Index!Files)'
      /\ Index!GraphProper(Index!Files) => Index!GraphProper(Index!Files)'
      /\ Index!EdgesProper(Index!Live) => Index!EdgesProper(Index!Live)'
  BY <1>2 DEF Index!Live, Index!Proper, Index!RowsProper, Index!GraphProper, Index!EdgesProper
<1>8. Index!FaithfulSoFar'
  BY <1>2, <1>3, <1>5, <1>6, <1>7 DEF Index!FaithfulSoFar
<1>9. QED
  BY <1>3, <1>4, <1>8 DEF Index!IndexInv, Index!FullWalksPrune

\* Every step keeps it.
LEMMA IndexStepHolds ==
  ASSUME Index!IndexAssumption, Index!IndexInv, Index!IndexNext \/ UNCHANGED slots
  PROVE  Index!IndexInv'
<1>1. CASE UNCHANGED slots
  BY <1>1 DEF slots, Index!IndexInv, Index!IndexTypeOK, Index!FaithfulSoFar, Index!FullWalksPrune, Index!Walking,
    Index!Pruning, Index!Settled, Index!Live, Index!Proper, Index!RowsProper, Index!GraphProper, Index!EdgesProper
<1>2. CASE Index!ReindexAll \/ Index!EnsureIndex
  BY <1>2, IndexAllHolds DEF Index!EnsureIndex
<1>3. ASSUME NEW f \in Index!Files,
             \/ \E c \in Index!Contents(f) : Index!Edit(f, c)
             \/ Index!SkipMissing(f) \/ Index!FailToRead(f) \/ Index!WriteRows(f) \/ Index!PruneRows(f)
             \/ Index!PruneGraph(f)
      PROVE  Index!IndexInv'
  BY <1>3, IndexEditHolds, IndexSkipHolds, IndexEndsHolds, IndexRowsHolds, IndexPruneRowsHolds, IndexPruneGraphHolds
<1>4. CASE Index!Die
  BY <1>4, IndexEndsHolds
<1>5. QED
  BY <1>1, <1>2, <1>3, <1>4, IndexPathsHolds, IndexEdgesHolds, IndexEndOfWalkHolds, IndexEndOfPruningHolds, IndexEndHolds
  DEF Index!IndexNext

\* A reindex that ended, of a tree that stayed, is faithful to it.
LEMMA IndexInvSuffices ==
  ASSUME Index!IndexAssumption, Index!IndexInv
  PROVE  Index!IndexIsFaithful
<1>1. Index!IndexTypeOK /\ Index!FaithfulSoFar
  BY DEF Index!IndexInv
<1> SUFFICES ASSUME v5.pc = "idle", v6.faithful
             PROVE  Index!IndexIsFaithful
  BY DEF Index!IndexIsFaithful, Index!IndexMatchesTree, Index!DependentsAreKept, Index!Described
<1>2. Index!RowsProper(Index!Files) /\ Index!GraphProper(Index!Files) /\ (v6.call = "full" => Index!EdgesProper(Index!Live))
  BY <1>1 DEF Index!FaithfulSoFar
<1>3. v4 \subseteq Index!Files \ Text /\ v3 \subseteq Index!Edge /\ \A f \in Index!Files : v1[f] \in Index!Contents(f)
  BY <1>1 DEF Index!IndexTypeOK
<1>4. v4 = {f \in Index!Files \ Text : v2[f] # Index!Absent}
  BY <1>2, <1>3 DEF Index!RowsProper, Index!GraphProper
<1>5. Index!IndexMatchesTree
  BY <1>2, <1>4 DEF Index!IndexMatchesTree, Index!RowsProper, Index!Proper
<1>6. ASSUME v6.call = "full", NEW g \in Index!Files, NEW f \in Index!Files \ Text,
             v1[g].kind = "text", v1[f].kind = "text", g \in v1[f].uses
      PROVE  /\ f > g \/ g \notin TopLevel => f \in Index!ImpactedBy(g, 1)
             /\ f > g /\ v1[f].defs => f \in Index!CallersOf(g)
  <2>1. f \in Index!Live /\ g \in Index!Live
    BY <1>6, IndexNoText DEF Index!Live
  <2>2. /\ f > g \/ g \notin TopLevel => [kind |-> "imports", src |-> f, dst |-> g] \in v3
        /\ f > g /\ v1[f].defs => [kind |-> "calls", src |-> f, dst |-> g] \in v3
    BY <1>2, <1>6, <2>1 DEF Index!EdgesProper
  <2>3. f # g
    BY <1>3, <1>6, IndexContents, IndexTextFields
  <2>4. ASSUME [kind |-> "imports", src |-> f, dst |-> g] \in v3
        PROVE  f \in Index!ImpactedBy(g, 1)
    <3> DEFINE e == [kind |-> "imports", src |-> f, dst |-> g]
               w == [i \in 0..1 |-> IF i = 0 THEN <<"path", g>> ELSE <<"path", f>>]
    <3>1. e.kind = "imports" /\ e.src = f /\ e.dst = g
      OBVIOUS
    <3> HIDE DEF e
    <3>2. <<"path", f>> \in Index!Dependents(<<"path", g>>)
      <4>1. e \in {x \in v3 : x.dst = <<"path", g>>[2] /\ (x.kind = "imports") = (<<"path", g>>[1] = "path")}
        BY <2>4, <3>1 DEF e
      <4>2. QED
        BY <3>1, <4>1 DEF Index!Dependents
    <3>3. <<"path", g>> \in Index!Nodes /\ <<"path", f>> \in Index!Nodes
      BY DEF Index!Nodes
    <3>4. w \in [0..1 -> Index!Nodes] /\ w[0] = <<"path", g>> /\ w[1] = <<"path", f>>
      BY <3>3
    <3> HIDE DEF w
    <3>5. w[0] \in Index!Seeds(g)
      BY <3>4 DEF Index!Seeds
    <3>6. \A i \in 1..1 : w[i] \in Index!Dependents(w[i - 1])
      BY <3>2, <3>4
    <3>7. w \in Index!Frontiers(g, 1)
      BY <3>4, <3>5, <3>6 DEF Index!Frontiers
    <3>8. 1 \in 0..1
      OBVIOUS
    <3>9. QED
      BY <2>3, <3>4, <3>7, <3>8 DEF Index!ImpactedBy
  <2>5. ASSUME [kind |-> "calls", src |-> f, dst |-> g] \in v3, v1[f].defs
        PROVE  f \in Index!CallersOf(g)
    <3> DEFINE e == [kind |-> "calls", src |-> f, dst |-> g]
    <3>1. e.kind = "calls" /\ e.src = f /\ e.dst = g
      OBVIOUS
    <3>2. f \in v4
      BY <1>2, <1>6, <2>5, IndexProper, IndexNoText DEF Index!GraphProper
    <3> HIDE DEF e
    <3>3. e \in {x \in v3 : x.kind = "calls" /\ x.dst = g /\ x.src \in v4}
      BY <2>5, <3>1, <3>2 DEF e
    <3>4. QED
      BY <3>1, <3>3 DEF Index!CallersOf
  <2>6. QED
    BY <2>2, <2>4, <2>5
<1>7. Index!DependentsAreKept
  BY <1>6 DEF Index!DependentsAreKept, Index!Described
<1>8. QED
  BY <1>5, <1>7 DEF Index!IndexIsFaithful

\* The index keeps what its answers rest on.
LEMMA IndexInvariant == Spec => [](subject = "index" => Index!IndexInv)
<1> DEFINE Inv == subject = "index" => Index!IndexInv
<1> USE PartsAssumption DEF PartsAssumption
<1>1. Init => Inv
  BY IndexInitHolds DEF Init, SlotsInit
<1>2. Inv /\ [Next]_partsVars => Inv'
  <2> SUFFICES ASSUME Index!IndexInv, Index!IndexNext \/ UNCHANGED slots
               PROVE  Index!IndexInv'
    BY DEF Next, SlotsNext, partsVars, slots
  <2>1. QED
    BY IndexStepHolds
<1>3. QED
  BY <1>1, <1>2, PTL DEF Spec

\* A search and an impact query answer from the tree of the last reindex that ended,
\* whatever walk failed or died before it (IndexService).
THEOREM IndexesAreFaithful == Spec => []IndexIsFaithful
<1>1. (subject = "index" => Index!IndexInv) => IndexIsFaithful
  BY PartsAssumption, IndexInvSuffices DEF PartsAssumption, IndexIsFaithful
<1>2. QED
  BY <1>1, IndexInvariant, PTL

-----------------------------------------------------------------------------
(* Benchmark (v1 command, v2 checking, v3 source, v4 suite, v5 cache, v6   *)
(* plan, v7 results, v8 attempt, v9 floor, v10 measured, v11 verdict,      *)
(* v12 benches): a report is of its suite.                                 *)
(* A pass is a prefix of the suite, the second begins when the first is    *)
(* whole, a comparison has a floor, and one of the two passes that are     *)
(* reported is of single shots, which find their repository or end the     *)
(* bench.                                                                  *)

\* Cardinality is the same wherever it is named.
LEMMA BenchCardinality ==
  ASSUME NEW S
  PROVE  Bench!Cardinality(S) = Cardinality(S)
BY DEF Bench!Cardinality, Cardinality

\* The tasks a pass solved are places in it, and as many as a natural number says.
LEMMA BenchSolved ==
  ASSUME NEW pass, Len(pass) \in Nat
  PROVE  /\ Bench!Solved(pass) \in SUBSET (1..Len(pass))
         /\ Bench!Cardinality(Bench!Solved(pass)) \in Nat
         /\ Bench!Solved(pass) = {} => Bench!Cardinality(Bench!Solved(pass)) = 0
<1>1. Bench!Solved(pass) \in SUBSET (1..Len(pass))
  BY DEF Bench!Solved
<1>2. IsFiniteSet(1..Len(pass))
  BY FS_Interval
<1>3. IsFiniteSet(Bench!Solved(pass))
  BY <1>1, <1>2, FS_Subset
<1>4. Cardinality(Bench!Solved(pass)) \in Nat
  BY <1>3, FS_CardinalityType
<1>5. QED
  BY <1>1, <1>4, BenchCardinality, FS_EmptySet

\* The divisor of the comparison is the number of pairs of the floor, once it has one.
LEMMA BenchPairs ==
  ASSUME NEW n \in Nat \ {0}
  PROVE  Bench!Max({n, 1}) = n
<1>1. n \in {n, 1} /\ \A y \in {n, 1} : n >= y
  OBVIOUS
<1>2. \A x \in {n, 1} : (\A y \in {n, 1} : x >= y) => x = n
  OBVIOUS
<1>3. QED
  BY <1>1, <1>2 DEF Bench!Max

\* What the sentence POSITIVE says of the two passes and the floor.
LEMMA BenchPositive ==
  ASSUME NEW c \in Seq(Bench!Result), NEW t \in Seq(Bench!Result), NEW f, NEW inflated \in BOOLEAN,
         Bench!IsFloor(f), Len(t) = Len(c), Bench!Verdict(c, t, f, inflated) = "POSITIVE"
  PROVE  f.n > 0 /\ Bench!Lead(c, t) * f.n > f.drift * Len(c)
<1>1. Bench!Beats(c, t, f) \in {"none", "yes", "no"}
  BY DEF Bench!Beats
<1>2. Bench!Beats(c, t, f) = "yes"
  <2>1. Bench!Beats(c, t, f) # "none"
    BY DEF Bench!Verdict
  <2>2. ~ inflated
    BY <2>1 DEF Bench!Verdict
  <2>3. Bench!Beats(c, t, f) # "no"
    BY <2>1, <2>2 DEF Bench!Verdict
  <2>4. QED
    BY <1>1, <2>1, <2>2, <2>3 DEF Bench!Verdict
<1>3. f.n # 0 /\ Bench!Clears(c, t, f)
  BY <1>2 DEF Bench!Beats
<1>4. f.n \in Nat \ {0} /\ f.drift \in Nat
  BY <1>3 DEF Bench!IsFloor
<1>5. Len(c) \in Nat /\ Len(t) \in Nat
  OBVIOUS
<1>6. Bench!Lead(c, t) \in Int
  BY <1>5, BenchSolved DEF Bench!Lead
<1>7. f.n * Bench!Lead(c, t) > f.drift * Len(c)
  BY <1>3, <1>4, BenchPairs DEF Bench!Clears
<1>8. f.n * Bench!Lead(c, t) = Bench!Lead(c, t) * f.n
  BY <1>4, <1>6
<1>9. QED
  BY <1>4, <1>7, <1>8

\* A floor measured over two passes is a floor.
LEMMA BenchFloors ==
  ASSUME NEW a \in Seq(Bench!Result), NEW b \in Seq(Bench!Result), NEW f \in Bench!NoiseFloors(a, b)
  PROVE  Bench!IsFloor(f)
<1>1. Len(a) \in Nat /\ Len(b) \in Nat
  OBVIOUS
<1>2. Bench!Lead(a, b) \in Int
  BY <1>1, BenchSolved DEF Bench!Lead
<1>3. CASE Len(a) = 0
  BY <1>3 DEF Bench!NoiseFloors, Bench!Floor, Bench!IsFloor
<1>4. CASE Len(a) # 0
  <2> DEFINE drift == IF Bench!Lead(a, b) < 0 THEN - Bench!Lead(a, b) ELSE Bench!Lead(a, b)
  <2>1. drift \in Nat
    BY <1>2
  <2>2. \E hi : f = Bench!Floor(Len(a), drift, hi)
    BY <1>4 DEF Bench!NoiseFloors
  <2> HIDE DEF drift
  <2>3. QED
    BY <1>1, <2>1, <2>2 DEF Bench!Floor, Bench!IsFloor
<1>5. QED
  BY <1>3, <1>4

\* Sequences of the same length and elements are the same.
LEMMA BenchSame ==
  ASSUME NEW S, NEW s \in Seq(S), NEW t \in Seq(S), Len(s) = Len(t), \A i \in 1..Len(s) : s[i] = t[i]
  PROVE  s = t
<1>1. s \in [1..Len(s) -> S] /\ t \in [1..Len(s) -> S]
  OBVIOUS
<1>2. QED
  BY <1>1

\* What is left of a sequence of four.
LEMMA BenchLastTwo ==
  ASSUME NEW S, NEW c \in S, NEW t \in S
  PROVE  SubSeq(<<c, c, c, t>>, 3, 4) = <<c, t>>
<1> DEFINE four == <<c, c, c, t>>
           two == SubSeq(four, 3, 4)
<1>1. four \in Seq(S) /\ Len(four) = 4 /\ four[3] = c /\ four[4] = t
  OBVIOUS
<1> HIDE DEF four
<1>2. two \in Seq(S) /\ Len(two) = 2 /\ two[1] = four[3] /\ two[2] = four[4]
  BY <1>1
<1> HIDE DEF two
<1>3. <<c, t>> \in Seq(S) /\ Len(<<c, t>>) = 2 /\ <<c, t>>[1] = c /\ <<c, t>>[2] = t
  OBVIOUS
<1>4. \A i \in 1..2 : two[i] = <<c, t>>[i]
  <2>1. \A i \in 1..2 : i = 1 \/ i = 2
    OBVIOUS
  <2>2. QED
    BY <1>1, <1>2, <1>3, <2>1
<1>5. two = <<c, t>>
  BY <1>2, <1>3, <1>4, BenchSame
<1>6. QED
  BY <1>5 DEF two, four

\* The plans are of two passes or of four, and what is left of one of four is one of two.
LEMMA BenchPlans ==
  ASSUME NEW p \in Bench!Plans
  PROVE  /\ Len(p) = 2 \/ Len(p) = 4
         /\ Len(p) = 4 => SubSeq(p, 3, 4) \in Bench!Plans
         /\ Len(p) = 2 /\ Bench!IsCompare(p) => ~ Bench!IsAA(p)
<1>1. \E c \in Bench!Strategies, t \in Bench!Strategies : p = <<c, t>> \/ p = <<c, c, c, t>>
  <2>1. "single_shot" \in Bench!Strategies
    BY DEF Bench!Strategies
  <2>2. QED
    BY <2>1 DEF Bench!Plans
<1>2. \A c \in Bench!Strategies, t \in Bench!Strategies : <<c, t>> \in Bench!Plans
  <2>1. TAKE c \in Bench!Strategies, t \in Bench!Strategies
  <2> DEFINE q == <<c, t>>
             Two(x, y) == {<<x, y>>, <<x, x, x, y>>}
  <2>2. q \in Two(c, t)
    OBVIOUS
  <2>3. q \in UNION {Two(x, y) : x \in Bench!Strategies, y \in Bench!Strategies}
    <3> HIDE DEF q, Two
    <3> QED BY <2>2
  <2> HIDE DEF q
  <2>4. q \in Bench!Plans
    BY <2>3 DEF Bench!Plans
  <2>5. QED
    BY <2>4 DEF q
<1>3. PICK c \in Bench!Strategies, t \in Bench!Strategies : p = <<c, t>> \/ p = <<c, c, c, t>>
  BY <1>1
<1>4. CASE p = <<c, t>>
  BY <1>4 DEF Bench!IsCompare, Bench!IsAA
<1>5. CASE p = <<c, c, c, t>>
  <2>1. Len(p) = 4
    BY <1>5
  <2>2. SubSeq(p, 3, 4) = <<c, t>>
    BY <1>5, BenchLastTwo
  <2>3. SubSeq(p, 3, 4) \in Bench!Plans
    BY <1>2, <2>2, Zenon
  <2>4. QED
    BY <2>1, <2>3
<1>6. QED
  BY <1>3, <1>4, <1>5

\* What an appended sequence is made of.
LEMMA BenchAppended ==
  ASSUME NEW S, NEW s \in Seq(S), NEW e \in S
  PROVE  /\ Append(s, e) \in Seq(S) /\ Len(Append(s, e)) = Len(s) + 1 /\ Append(s, e)[Len(s) + 1] = e
         /\ \A i \in 1..Len(s) : Append(s, e)[i] = s[i]
OBVIOUS

\* What a sequence with another element in a place is made of.
LEMMA BenchReplaced ==
  ASSUME NEW S, NEW s \in Seq(S), NEW k \in 1..Len(s), NEW e \in S
  PROVE  /\ [s EXCEPT ![k] = e] \in Seq(S) /\ Len([s EXCEPT ![k] = e]) = Len(s)
         /\ [s EXCEPT ![k] = e][k] = e
         /\ \A p \in 1..Len(s) : p # k => [s EXCEPT ![k] = e][p] = s[p]
OBVIOUS

\* The state a process begins in, or leaves behind, has no bench to follow.
LEMMA BenchIdleHolds ==
  ASSUME v1' # "bench", v4' \in Seq(Bench!Commits), v9' = Bench!NoFloor \/ Bench!IsFloor(v9)',
         v1' = "harvest" => v2'.valid \in Seq(Bench!Commits) /\ DOMAIN v2' = DOMAIN Bench!NotChecking
  PROVE  Bench!BenchmarkInv'
BY DEF Bench!BenchmarkInv, Bench!PassesFollowTheSuite, Bench!ComparisonsHaveAFloor, Bench!IsFloor,
  Bench!NoFloor, Bench!Floor

\* Every suite is of commits: the first of a dataset, all of the log, or those that were validated.
LEMMA BenchSuiteHolds ==
  ASSUME Bench!BenchmarkAssumption, Bench!BenchmarkInv,
         \/ \E n \in Bench!Commits : Bench!Import(n)
         \/ Bench!Unvalidated \/ Bench!Harvest \/ Bench!Fixed \/ Bench!Reject \/ Bench!Save
         \/ \E fails \in BOOLEAN : Bench!Rerun(fails)
  PROVE  Bench!BenchmarkInv'
<1>1. /\ v4 \in Seq(Bench!Commits) /\ (v9 = Bench!NoFloor \/ Bench!IsFloor(v9))
      /\ v1 = "harvest" => v2.valid \in Seq(Bench!Commits) /\ DOMAIN v2 = DOMAIN Bench!NotChecking
  BY DEF Bench!BenchmarkInv, Bench!PassesFollowTheSuite, Bench!ComparisonsHaveAFloor
<1>2. NumCommits \in Nat /\ Bench!Commits = 1..NumCommits
  BY DEF Bench!BenchmarkAssumption, Bench!Commits
<1>3. \A n \in Nat : n <= NumCommits => [i \in 1..n |-> i] \in Seq(Bench!Commits)
  <2>1. SUFFICES ASSUME NEW n \in Nat, n <= NumCommits
                 PROVE  [i \in 1..n |-> i] \in Seq(Bench!Commits)
    OBVIOUS
  <2>2. [i \in 1..n |-> i] \in [1..n -> Bench!Commits]
    BY <1>2, <2>1
  <2> HIDE DEF Bench!Commits
  <2>3. QED
    BY <2>2
<1>4. DOMAIN Bench!NotChecking = {"commit", "runs", "failed", "valid"} /\ Bench!NotChecking.valid = <<>>
  BY DEF Bench!NotChecking, Bench!Check
<1>5. ASSUME NEW c, NEW valid \in Seq(Bench!Commits)
      PROVE  Bench!Check(c, valid).valid \in Seq(Bench!Commits) /\ DOMAIN Bench!Check(c, valid) = DOMAIN Bench!NotChecking
  BY <1>4 DEF Bench!Check
<1>6. v9' = v9 => v9' = Bench!NoFloor \/ Bench!IsFloor(v9)'
  BY <1>1 DEF Bench!IsFloor, Bench!NoFloor, Bench!Floor
<1>7. CASE \E n \in Bench!Commits : Bench!Import(n)
  <2>1. PICK n \in Bench!Commits : Bench!Import(n)
    BY <1>7
  <2>2. v1' = v1 /\ v1 = "" /\ v9' = v9 /\ v4' = [i \in 1..n |-> i]
    BY <2>1 DEF Bench!Import
  <2>3. n \in Nat /\ n <= NumCommits
    BY <1>2
  <2>4. QED
    BY <1>3, <1>6, <2>2, <2>3, BenchIdleHolds
<1>8. CASE Bench!Unvalidated
  <2>1. v1' = v1 /\ v1 = "" /\ v9' = v9 /\ v4' = [i \in 1..NumCommits |-> i]
    BY <1>2, <1>8 DEF Bench!Unvalidated
  <2>2. [i \in 1..NumCommits |-> i] \in Seq(Bench!Commits)
    BY <1>2, <1>3
  <2>3. v1' # "bench" /\ v1' # "harvest" /\ v4' \in Seq(Bench!Commits)
    BY <2>1, <2>2
  <2>4. QED
    BY <1>6, <2>1, <2>3, BenchIdleHolds
<1>9. CASE Bench!Harvest
  <2>1. v1' = "harvest" /\ v9' = v9 /\ v4' = v4 /\ v2' = Bench!Check(1, <<>>)
    BY <1>9 DEF Bench!Harvest
  <2>2. <<>> \in Seq(Bench!Commits)
    OBVIOUS
  <2>3. QED
    BY <1>1, <1>5, <1>6, <2>1, <2>2, BenchIdleHolds
<1>10. CASE Bench!Fixed
  <2>1. /\ v1' = v1 /\ v1 = "harvest" /\ v9' = v9 /\ v4' = v4 /\ v2.commit \in Bench!Commits
        /\ v2' = Bench!Check(v2.commit + 1, Append(v2.valid, v2.commit))
    BY <1>10 DEF Bench!Fixed, Bench!Testing
  <2>2. Append(v2.valid, v2.commit) \in Seq(Bench!Commits)
    BY <1>1, <2>1, BenchAppended
  <2>3. QED
    BY <1>1, <1>5, <1>6, <2>1, <2>2, BenchIdleHolds
<1>11. CASE Bench!Reject
  <2>1. /\ v1' = v1 /\ v1 = "harvest" /\ v9' = v9 /\ v4' = v4 /\ v2' = Bench!Check(v2.commit + 1, v2.valid)
    BY <1>11 DEF Bench!Reject, Bench!Testing
  <2>2. QED
    BY <1>1, <1>5, <1>6, <2>1, BenchIdleHolds
<1>12. CASE Bench!Save
  <2>1. /\ v1' = "" /\ v1 = "harvest" /\ v9' = v9 /\ v4' = v2.valid
    BY <1>12 DEF Bench!Save
  <2>2. QED
    BY <1>1, <1>6, <2>1, BenchIdleHolds
<1>13. CASE \E fails \in BOOLEAN : Bench!Rerun(fails)
  <2>1. PICK fails \in BOOLEAN : Bench!Rerun(fails)
    BY <1>13
  <2>2. /\ v1' = v1 /\ v1 = "harvest" /\ v9' = v9 /\ v4' = v4
        /\ v2' = [v2 EXCEPT !.runs = @ + 1, !.failed = @ + (IF fails THEN 1 ELSE 0)]
    BY <2>1 DEF Bench!Rerun, Bench!Testing
  <2>3. v2'.valid = v2.valid /\ DOMAIN v2' = DOMAIN v2
    BY <1>1, <1>4, <2>2
  <2>4. QED
    BY <1>1, <1>6, <2>2, <2>3, BenchIdleHolds
<1>14. QED
  BY <1>7, <1>8, <1>9, <1>10, <1>11, <1>12, <1>13

\* A bench of two arms without one of its own takes the floor of the last report.
LEMMA BenchBeginHolds ==
  ASSUME Bench!BenchmarkAssumption, Bench!BenchmarkInv, NEW p \in Bench!Plans, Bench!Bench(p)
  PROVE  Bench!BenchmarkInv'
<1>1. /\ v1' = "bench" /\ v6' = p /\ v7' = <<<<>>>> /\ v4' = v4 /\ v9' = v9
      /\ v10' = (IF Bench!IsAA(p) THEN Bench!NoFloor ELSE v9) /\ (Bench!IsAA(p) \/ v9 # Bench!NoFloor)
  BY DEF Bench!Bench
<1>2. v4 \in Seq(Bench!Commits) /\ (v9 = Bench!NoFloor \/ Bench!IsFloor(v9))
  BY DEF Bench!BenchmarkInv, Bench!PassesFollowTheSuite, Bench!ComparisonsHaveAFloor
<1>3. Bench!ComparisonsHaveAFloor'
  <2>1. Len(p) = 2 /\ Bench!IsCompare(p) => v10' = v9 /\ Bench!IsFloor(v9)
    BY <1>1, <1>2, BenchPlans
  <2>2. QED
    BY <1>1, <1>2, <2>1 DEF Bench!ComparisonsHaveAFloor, Bench!IsFloor, Bench!NoFloor, Bench!Floor,
      Bench!Plans, Bench!Strategies, Bench!IsCompare
<1>4. Bench!PassesFollowTheSuite'
  <2>1. <<>> \in Seq(Bench!Result)
    OBVIOUS
  <2>2. <<<<>>>> \in Seq(Seq(Bench!Result)) /\ Len(<<<<>>>>) = 1 /\ <<<<>>>>[1] = <<>>
    BY <2>1
  <2>3. Len(v4) \in Nat
    BY <1>2
  <2>4. v4' \in Seq(Bench!Commits)
    BY <1>1, <1>2
  <2> DEFINE none == <<<<>>>>
  <2>5. v7' = none /\ none \in Seq(Seq(Bench!Result)) /\ Len(none) = 1 /\ Len(none[1]) = 0
    BY <1>1, <2>2
  <2> HIDE DEF none
  <2>6. \A q \in 1..Len(v7') : Len(v7'[q]) = 0
    BY <2>5
  <2>7. QED
    BY <1>1, <2>3, <2>4, <2>5, <2>6 DEF Bench!PassesFollowTheSuite
<1>5. QED
  BY <1>1, <1>3, <1>4 DEF Bench!BenchmarkInv

\* The last pass with one result more: of the next task, after what it has.
LEMMA BenchRecorded ==
  ASSUME Bench!BenchmarkAssumption, Bench!BenchmarkInv, Bench!Running,
         NEW resolved \in BOOLEAN, NEW cost \in Nat \cup {Bench!None}, Bench!Record(resolved, cost)
  PROVE  LET k == Len(v7)
             n == Len(v7[k]) + 1
         IN  /\ k \in 1..2 /\ Len(v7[k]) \in Nat /\ n \in 1..Len(v4)
             /\ v7' \in Seq(Seq(Bench!Result)) /\ Len(v7') = k /\ Len(v7'[k]) = n
             /\ v7'[k][n].task = v4[n] /\ \A i \in 1..Len(v7[k]) : v7'[k][i] = v7[k][i]
             /\ \A i \in 1..n : v7'[k][i].task = v4[i]
             /\ \A p \in 1..k : p # k => v7'[p] = v7[p]
<1> DEFINE k == Len(v7)
           S == Seq(Bench!Result)
           n == Len(v7[k]) + 1
           e == [task |-> v4[n], resolved |-> resolved, cost |-> cost]
           pass == Append(v7[k], e)
<1>1. /\ v4 \in Seq(Bench!Commits) /\ v1 = "bench" /\ v7 \in Seq(S) /\ k \in 1..2
      /\ \A p \in 1..k : /\ Len(v7[p]) <= Len(v4)
                         /\ \A i \in 1..Len(v7[p]) : v7[p][i].task = v4[i]
      /\ k = 2 => Len(v7[1]) = Len(v4)
  BY DEF Bench!BenchmarkInv, Bench!PassesFollowTheSuite, Bench!Running
<1>2. Len(v7[k]) < Len(v4)
  BY DEF Bench!Running, Bench!Last
<1>3. v7' = [v7 EXCEPT ![k] = pass]
  BY DEF Bench!Record, Bench!Task, Bench!Last
<1>4. v7[k] \in S
  <2>1. k \in 1..k
    <3>1. \A j \in 1..2 : j \in 1..j
      OBVIOUS
    <3> HIDE DEF k
    <3>2. QED
      BY <1>1, <3>1
  <2> HIDE DEF S
  <2>2. QED
    BY <1>1, <2>1
<1>5. n \in 1..Len(v4) /\ n = Len(v7[k]) + 1 /\ Len(v7[k]) \in Nat
  BY <1>1, <1>2, <1>4
<1>6. e \in Bench!Result /\ e.task = v4[n]
  <2>1. v4[n] \in Bench!Commits
    <3> HIDE DEF n
    <3> QED BY <1>1, <1>5
  <2> HIDE DEF n
  <2>2. QED
    BY <2>1 DEF Bench!Result
<1> HIDE DEF e
<1>7. /\ pass \in S /\ Len(pass) = n /\ pass[n] = e /\ \A i \in 1..Len(v7[k]) : pass[i] = v7[k][i]
  BY <1>4, <1>5, <1>6, BenchAppended
<1> HIDE DEF pass, n
<1>8. \A i \in 1..n : pass[i].task = v4[i]
  <2>1. \A i \in 1..n : i \in 1..Len(v7[k]) \/ i = n
    BY <1>5
  <2>2. k \in 1..k
    <3>1. \A j \in 1..2 : j \in 1..j
      OBVIOUS
    <3> HIDE DEF k
    <3>2. QED
      BY <1>1, <3>1
  <2>3. \A i \in 1..Len(v7[k]) : v7[k][i].task = v4[i]
    <3> HIDE DEF k
    <3> QED BY <1>1, <2>2
  <2> HIDE DEF k
  <2>4. QED
    BY <1>6, <1>7, <2>1, <2>3
<1>9. v7' \in Seq(S) /\ Len(v7') = k /\ v7'[k] = pass /\ \A p \in 1..k : p # k => v7'[p] = v7[p]
  <2>1. k \in 1..Len(v7)
    <3>1. \A j \in 1..2 : j \in 1..j
      OBVIOUS
    <3>2. QED
      BY <1>1, <3>1, Zenon
  <2> HIDE DEF S
  <2>2. /\ [v7 EXCEPT ![k] = pass] \in Seq(S) /\ Len([v7 EXCEPT ![k] = pass]) = Len(v7)
        /\ [v7 EXCEPT ![k] = pass][k] = pass
        /\ \A p \in 1..Len(v7) : p # k => [v7 EXCEPT ![k] = pass][p] = v7[p]
    BY <1>1, <1>7, <2>1, BenchReplaced
  <2>3. QED
    BY <1>3, <2>2
<1> HIDE DEF S
<1>10. QED
  BY <1>1, <1>5, <1>6, <1>7, <1>8, <1>9 DEF S, n

\* One result more, of the task that is next in the suite.
LEMMA BenchRecordHolds ==
  ASSUME Bench!BenchmarkAssumption, Bench!BenchmarkInv, Bench!Running,
         NEW resolved \in BOOLEAN, NEW cost \in Nat \cup {Bench!None}, Bench!Record(resolved, cost),
         UNCHANGED <<v1, v2, v4, v6, v9, v10>>
  PROVE  Bench!BenchmarkInv'
<1> DEFINE k == Len(v7)
           n == Len(v7[k]) + 1
<1>1. /\ v4 \in Seq(Bench!Commits) /\ v1 = "bench"
      /\ \A p \in 1..k : /\ Len(v7[p]) <= Len(v4)
                         /\ \A i \in 1..Len(v7[p]) : v7[p][i].task = v4[i]
      /\ k = 2 => Len(v7[1]) = Len(v4)
  BY DEF Bench!BenchmarkInv, Bench!PassesFollowTheSuite, Bench!Running
<1>2. /\ k \in 1..2 /\ n \in 1..Len(v4) /\ v7' \in Seq(Seq(Bench!Result)) /\ Len(v7') = k /\ Len(v7'[k]) = n
      /\ \A i \in 1..n : v7'[k][i].task = v4[i]
      /\ \A p \in 1..k : p # k => v7'[p] = v7[p]
  BY BenchRecorded
<1> HIDE DEF k, n
<1>3. \A p \in 1..k : /\ Len(v7'[p]) <= Len(v4)
                      /\ \A i \in 1..Len(v7'[p]) : v7'[p][i].task = v4[i]
  <2>1. SUFFICES ASSUME NEW p \in 1..k
                 PROVE  /\ Len(v7'[p]) <= Len(v4)
                        /\ \A i \in 1..Len(v7'[p]) : v7'[p][i].task = v4[i]
    OBVIOUS
  <2>2. CASE p = k
    BY <1>2, <2>2
  <2>3. CASE p # k
    BY <1>1, <1>2, <2>3
  <2>4. QED
    BY <2>2, <2>3
<1>4. k = 2 => Len(v7'[1]) = Len(v4)
  BY <1>1, <1>2
<1>5. Bench!PassesFollowTheSuite'
  BY <1>1, <1>2, <1>3, <1>4 DEF Bench!PassesFollowTheSuite
<1>6. QED
  BY <1>1, <1>5 DEF Bench!BenchmarkInv, Bench!ComparisonsHaveAFloor, Bench!IsFloor, Bench!IsCompare

\* The second pass begins when the first is whole.
LEMMA BenchNextPassHolds ==
  ASSUME Bench!BenchmarkAssumption, Bench!BenchmarkInv, Bench!NextPass
  PROVE  Bench!BenchmarkInv'
<1> DEFINE S == Seq(Bench!Result)
<1>1. /\ v4 \in Seq(Bench!Commits) /\ v1 = "bench" /\ v7 \in Seq(S)
      /\ \A p \in 1..Len(v7) : /\ Len(v7[p]) <= Len(v4)
                               /\ \A i \in 1..Len(v7[p]) : v7[p][i].task = v4[i]
      /\ Len(v7) = 1 /\ v7' = Append(v7, <<>>) /\ UNCHANGED <<v1, v2, v4, v6, v9, v10>>
  BY DEF Bench!BenchmarkInv, Bench!PassesFollowTheSuite, Bench!NextPass, Bench!PassDone
<1>2. Len(v7[1]) = Len(v4)
  BY <1>1 DEF Bench!NextPass, Bench!PassDone, Bench!Last
<1>3. <<>> \in S
  OBVIOUS
<1> HIDE DEF S
<1>4. v7' \in Seq(S) /\ Len(v7') = 2 /\ v7'[2] = <<>> /\ v7'[1] = v7[1]
  <2> DEFINE none == <<>>
  <2>0. none \in S /\ v7 \in Seq(S)
    BY <1>1, <1>3
  <2>1. v7' = Append(v7, none)
    BY <1>1
  <2> HIDE DEF none
  <2>2. /\ Append(v7, none) \in Seq(S) /\ Len(Append(v7, none)) = Len(v7) + 1
        /\ Append(v7, none)[Len(v7) + 1] = none
        /\ \A i \in 1..Len(v7) : Append(v7, none)[i] = v7[i]
    BY <2>0, BenchAppended
  <2>3. Len(v7) + 1 = 2 /\ 1 \in 1..Len(v7)
    BY <1>1
  <2>4. QED
    BY <1>1, <2>1, <2>2, <2>3 DEF none
<1>5. \A p \in 1..2 : /\ Len(v7'[p]) <= Len(v4)
                      /\ \A i \in 1..Len(v7'[p]) : v7'[p][i].task = v4[i]
  <2>1. \A p \in 1..2 : p = 1 \/ p = 2
    OBVIOUS
  <2>2. Len(<<>>) = 0 /\ Len(v4) \in Nat
    BY <1>1
  <2>3. QED
    BY <1>1, <1>4, <2>1, <2>2
<1>6. Bench!PassesFollowTheSuite'
  BY <1>1, <1>2, <1>4, <1>5 DEF Bench!PassesFollowTheSuite, S
<1>7. QED
  BY <1>1, <1>6 DEF Bench!BenchmarkInv, Bench!ComparisonsHaveAFloor, Bench!IsFloor, Bench!IsCompare

\* What a done bench of two passes holds.
LEMMA BenchDone ==
  ASSUME Bench!BenchmarkInv, Bench!PassDone, Len(v7) = 2
  PROVE  /\ v7[1] \in Seq(Bench!Result) /\ v7[2] \in Seq(Bench!Result)
         /\ Len(v7[1]) = Len(v4) /\ Len(v7[2]) = Len(v4) /\ v4 \in Seq(Bench!Commits)
         /\ \A q \in 1..2 : \A i \in 1..Len(v7[q]) : v7[q][i].task = v4[i]
         /\ v6 \in Bench!Plans /\ (Len(v6) = 2 /\ Bench!IsCompare(v6) => Bench!IsFloor(v10))
<1> DEFINE S == Seq(Bench!Result)
<1>1. /\ v4 \in Seq(Bench!Commits) /\ v1 = "bench" /\ v7 \in Seq(S) /\ Len(v7[2]) = Len(v4)
      /\ \A p \in 1..Len(v7) : \A i \in 1..Len(v7[p]) : v7[p][i].task = v4[i]
      /\ Len(v7[1]) = Len(v4)
  BY DEF Bench!BenchmarkInv, Bench!PassesFollowTheSuite, Bench!PassDone, Bench!Last
<1>2. v6 \in Bench!Plans /\ (Len(v6) = 2 /\ Bench!IsCompare(v6) => Bench!IsFloor(v10))
  BY <1>1 DEF Bench!BenchmarkInv, Bench!ComparisonsHaveAFloor
<1>3. v7[1] \in S /\ v7[2] \in S
  <2> HIDE DEF S
  <2> QED BY <1>1
<1>4. QED
  BY <1>1, <1>2, <1>3

\* The passes of the control against itself become the floor of the comparison.
LEMMA BenchCalibrateHolds ==
  ASSUME Bench!BenchmarkAssumption, Bench!BenchmarkInv, Bench!Calibrate
  PROVE  Bench!BenchmarkInv'
<1>1. /\ v1 = "bench" /\ Len(v7) = 2 /\ Len(v6) = 4 /\ v10' \in Bench!NoiseFloors(v7[1], v7[2])
      /\ v6' = SubSeq(v6, 3, 4) /\ v7' = <<<<>>>> /\ UNCHANGED <<v1, v2, v4, v9>>
  BY DEF Bench!Calibrate, Bench!PassDone
<1>2. /\ v7[1] \in Seq(Bench!Result) /\ v7[2] \in Seq(Bench!Result) /\ v4 \in Seq(Bench!Commits) /\ v6 \in Bench!Plans
  BY <1>1, BenchDone DEF Bench!Calibrate
<1>3. Bench!IsFloor(v10')
  BY <1>1, <1>2, BenchFloors
<1>4. v6' \in Bench!Plans
  BY <1>1, <1>2, BenchPlans
<1>5. Bench!ComparisonsHaveAFloor'
  <2>1. v9 = Bench!NoFloor \/ Bench!IsFloor(v9)
    BY DEF Bench!BenchmarkInv, Bench!ComparisonsHaveAFloor
  <2>2. QED
    BY <1>1, <1>3, <1>4, <2>1 DEF Bench!ComparisonsHaveAFloor, Bench!IsFloor, Bench!NoFloor, Bench!Floor,
      Bench!Plans, Bench!Strategies
<1>6. Bench!PassesFollowTheSuite'
  <2>1. <<>> \in Seq(Bench!Result)
    OBVIOUS
  <2> DEFINE none == <<<<>>>>
  <2>2. v7' = none /\ none \in Seq(Seq(Bench!Result)) /\ Len(none) = 1 /\ Len(none[1]) = 0
    BY <1>1, <2>1
  <2> HIDE DEF none
  <2>3. \A q \in 1..Len(v7') : Len(v7'[q]) = 0
    BY <2>2
  <2>4. Len(v4) \in Nat
    BY <1>2
  <2>5. QED
    BY <1>1, <1>2, <2>2, <2>3, <2>4 DEF Bench!PassesFollowTheSuite
<1>7. QED
  BY <1>1, <1>5, <1>6 DEF Bench!BenchmarkInv

\* A report ends the bench, and with it goes its floor.
LEMMA BenchReportHolds ==
  ASSUME Bench!BenchmarkAssumption, Bench!BenchmarkInv, NEW inflated \in BOOLEAN, Bench!Report(inflated)
  PROVE  Bench!BenchmarkInv'
<1>1. /\ v1' = "" /\ v4' = v4 /\ Len(v7) = 2 /\ Len(v6) = 2
      /\ Bench!IsCompare(v6) => v9' = v10 /\ v11' = Bench!Verdict(v7[1], v7[2], v10, inflated)
      /\ ~ Bench!IsCompare(v6) => v9' \in Bench!NoiseFloors(v7[1], v7[2]) /\ v11' = v11
  BY DEF Bench!Report
<1>2. /\ v7[1] \in Seq(Bench!Result) /\ v7[2] \in Seq(Bench!Result)
      /\ Len(v7[1]) = Len(v4) /\ Len(v7[2]) = Len(v4) /\ v4 \in Seq(Bench!Commits)
      /\ \A q \in 1..2 : \A i \in 1..Len(v7[q]) : v7[q][i].task = v4[i]
      /\ Bench!IsCompare(v6) => Bench!IsFloor(v10)
  BY <1>1, BenchDone DEF Bench!Report
<1>3. Bench!IsFloor(v9')
  BY <1>1, <1>2, BenchFloors
<1>4. Bench!BenchmarkInv'
  BY <1>1, <1>2, <1>3, BenchIdleHolds DEF Bench!IsFloor
<1>5. QED
  BY <1>4

\* The other steps touch neither the passes nor the floors, or end the bench.
LEMMA BenchOtherHolds ==
  ASSUME Bench!BenchmarkAssumption, Bench!BenchmarkInv,
         UNCHANGED <<v4, v9>>, UNCHANGED <<v1, v2, v6, v7, v10>> \/ v1' = ""
  PROVE  Bench!BenchmarkInv'
<1>1. CASE UNCHANGED <<v1, v2, v6, v7, v10>>
  BY <1>1 DEF Bench!BenchmarkInv, Bench!PassesFollowTheSuite, Bench!ComparisonsHaveAFloor, Bench!IsFloor,
    Bench!IsCompare
<1>2. CASE v1' = ""
  BY <1>2, BenchIdleHolds DEF Bench!BenchmarkInv, Bench!PassesFollowTheSuite, Bench!ComparisonsHaveAFloor,
    Bench!IsFloor
<1>3. QED
  BY <1>1, <1>2

\* The invariant holds at the start.
LEMMA BenchInitHolds ==
  ASSUME Bench!BenchmarkAssumption, Bench!BenchmarkInit
  PROVE  Bench!BenchmarkInv
<1>1. v1 = "" /\ v4 = <<>> /\ v9 = Bench!NoFloor
  BY DEF Bench!BenchmarkInit
<1>2. <<>> \in Seq(Bench!Commits)
  OBVIOUS
<1>3. QED
  BY <1>1, <1>2 DEF Bench!BenchmarkInv, Bench!PassesFollowTheSuite, Bench!ComparisonsHaveAFloor

\* Every step keeps the invariant.
LEMMA BenchStepHolds ==
  ASSUME Bench!BenchmarkAssumption, Bench!BenchmarkInv, Bench!BenchmarkNext \/ UNCHANGED slots
  PROVE  Bench!BenchmarkInv'
<1>1. Bench!None = -1
  BY DEF Bench!None
<1>2. CASE UNCHANGED slots
  BY <1>2, BenchOtherHolds DEF slots
<1>3. CASE Bench!Resolve \/ Bench!GitInit \/ Bench!AddRemote \/ Bench!Fetch \/ Bench!Die
  BY <1>3, BenchOtherHolds DEF Bench!Resolve, Bench!GitInit, Bench!AddRemote, Bench!Fetch, Bench!Die
<1>4. CASE Bench!FetchFails
  <2>1. Bench!Running /\ UNCHANGED <<v2, v4, v9>>
    BY <1>4 DEF Bench!FetchFails, Bench!Missing
  <2>2. CASE Bench!Strategy = "bon"
    <3>1. Bench!Record(FALSE, Bench!None) /\ UNCHANGED <<v1, v6, v10>>
      BY <1>4, <2>2 DEF Bench!FetchFails
    <3>2. QED
      BY <2>1, <3>1, BenchRecordHolds
  <2>3. CASE Bench!Strategy # "bon"
    <3>1. v1' = ""
      BY <1>4, <2>3 DEF Bench!FetchFails
    <3>2. QED
      BY <2>1, <3>1, BenchOtherHolds
  <2>4. QED
    BY <2>2, <2>3
<1>5. ASSUME NEW admitted \in BOOLEAN, NEW cost \in UNION {Costs[s] : s \in Bench!Strategies},
             NEW strategy, Bench!Attempt(strategy, admitted, cost)
      PROVE  Bench!BenchmarkInv'
  <2>1. cost \in Nat
    BY DEF Bench!BenchmarkAssumption
  <2>2. /\ Bench!Running /\ Bench!Record(admitted, cost)
        /\ UNCHANGED <<v1, v2, v4, v6, v9, v10>>
    BY <1>5 DEF Bench!Attempt
  <2>3. QED
    BY <2>1, <2>2, BenchRecordHolds
<1>6. CASE Bench!Raises
  <2>1. /\ Bench!Running /\ Bench!Record(FALSE, Bench!None)
        /\ UNCHANGED <<v1, v2, v4, v6, v9, v10>>
    BY <1>6 DEF Bench!Raises
  <2>2. QED
    BY <2>1, BenchRecordHolds
<1>7. QED
  BY <1>2, <1>3, <1>4, <1>5, <1>6, BenchSuiteHolds, BenchBeginHolds, BenchNextPassHolds, BenchCalibrateHolds,
    BenchReportHolds DEF Bench!BenchmarkNext, Bench!SingleShot, Bench!BestOfN

\* Between benches no attempt is under way.
LEMMA FoundWhenIdle ==
  ASSUME v1' # "bench", v8' = ""
  PROVE  Bench!SingleShotsFindTheRepository'
BY DEF Bench!SingleShotsFindTheRepository, Bench!Running

\* The ends of a plan of two passes and of one of four.
LEMMA PlanOfTwo ==
  ASSUME NEW S, NEW c \in S, NEW t \in S, NEW p, p = <<c, t>>
  PROVE  p \in Seq(S) /\ Len(p) = 2 /\ p[Len(p) - 1] = c /\ p[Len(p)] = t
<1>1. p \in Seq(S) /\ Len(p) = 2 /\ p[1] = c /\ p[2] = t
  OBVIOUS
<1>2. Len(p) - 1 = 1
  BY <1>1
<1>3. QED
  BY <1>1, <1>2, Zenon

LEMMA PlanOfFour ==
  ASSUME NEW S, NEW c \in S, NEW t \in S, NEW p, p = <<c, c, c, t>>
  PROVE  p \in Seq(S) /\ Len(p) = 4 /\ p[Len(p) - 1] = c /\ p[Len(p)] = t
<1>1. p \in Seq(S) /\ Len(p) = 4 /\ p[3] = c /\ p[4] = t
  OBVIOUS
<1>2. Len(p) - 1 = 3
  BY <1>1
<1>3. QED
  BY <1>1, <1>2, Zenon

\* Of the two passes of a comparison, and of the two of --aa, one is of single shots.
LEMMA OneIsOfSingleShots ==
  ASSUME NEW p \in Bench!Plans, Bench!IsCompare(p) \/ p = <<"single_shot", "single_shot">>
  PROVE  "single_shot" \in {p[Len(p) - 1], p[Len(p)]}
<1>1. CASE p = <<"single_shot", "single_shot">>
  BY <1>1
<1>2. CASE Bench!IsCompare(p)
  <2>1. PICK c \in Bench!Strategies, t \in Bench!Strategies : p = <<c, t>> \/ p = <<c, c, c, t>>
    <3>1. "single_shot" \in Bench!Strategies
      BY DEF Bench!Strategies
    <3>2. QED
      BY <3>1 DEF Bench!Plans
  <2>2. p[Len(p) - 1] = c /\ p[Len(p)] = t
    BY <2>1, PlanOfTwo, PlanOfFour
  <2>3. QED
    BY <1>2, <2>2 DEF Bench!IsCompare, Bench!Strategies
<1>3. QED
  BY <1>1, <1>2

\* One pass, and nothing in it.
LEMMA OneEmptyPass ==
  ASSUME NEW passes, passes = <<<<>>>>
  PROVE  \A q \in 1..Len(passes) : 1..Len(passes[q]) = {}
<1> DEFINE none == <<>>
           one == <<none>>
<1>1. Len(none) = 0
  OBVIOUS
<1>2. passes = one
  OBVIOUS
<1> HIDE DEF none
<1>3. Len(one) = 1 /\ one[1] = none
  OBVIOUS
<1> HIDE DEF one
<1>4. QED
  BY <1>1, <1>2, <1>3

\* A bench begins with one of them to come.
LEMMA FoundWhenBegun ==
  ASSUME Bench!SingleShotsFindTheRepository, NEW p \in Bench!Plans, Bench!Bench(p)
  PROVE  Bench!SingleShotsFindTheRepository'
<1>1. v8' = "" /\ v6' = p
  BY DEF Bench!Bench, Bench!SingleShotsFindTheRepository, Bench!Running
<1>2. "single_shot" \in {v6'[Len(v6') - 1], v6'[Len(v6')]}
  <2>1. Bench!IsCompare(p) \/ p = <<"single_shot", "single_shot">>
    BY DEF Bench!Bench
  <2>2. "single_shot" \in {p[Len(p) - 1], p[Len(p)]}
    BY <2>1, OneIsOfSingleShots
  <2>3. QED
    BY <1>1, <2>2
<1>3. \A q \in 1..Len(v7') : 1..Len(v7'[q]) = {}
  BY OneEmptyPass DEF Bench!Bench
<1>4. QED
  BY <1>1, <1>2, <1>3, Zenon DEF Bench!SingleShotsFindTheRepository

\* While a task is under way, its repository may come, and does not go.
LEMMA FoundOnTheWay ==
  ASSUME Bench!BenchmarkInv, Bench!SingleShotsFindTheRepository, Bench!Running, UNCHANGED <<v1, v3, v4, v6, v7>>,
         v5.has \subseteq v5'.has, v8' = "resolved" => Bench!Present(Bench!Task)'
  PROVE  Bench!SingleShotsFindTheRepository'
<1>1. Bench!Running'
  BY DEF Bench!Running, Bench!Last
<1>2. \A wanted : Bench!Present(wanted) => Bench!Present(wanted)'
  BY DEF Bench!Present
<1>3. QED
  BY <1>1, <1>2 DEF Bench!SingleShotsFindTheRepository, Bench!Running

\* The last pass is a pass.
LEMMA BenchLastPass ==
  ASSUME Bench!BenchmarkInv, v1 = "bench"
  PROVE  /\ Len(v7) \in 1..2 /\ v7 \in Seq(Seq(Bench!Result)) /\ Bench!Last(v7) = v7[Len(v7)]
         /\ v7[Len(v7)] \in Seq(Bench!Result) /\ Len(v7[Len(v7)]) \in Nat
<1> DEFINE S == Seq(Bench!Result)
<1>1. v7 \in Seq(S) /\ Len(v7) \in 1..2
  BY DEF Bench!BenchmarkInv, Bench!PassesFollowTheSuite
<1>2. v7[Len(v7)] \in S
  <2> HIDE DEF S
  <2>1. Len(v7) \in 1..Len(v7) BY <1>1
  <2>2. QED BY <1>1, <2>1
<1>3. QED
  BY <1>1, <1>2 DEF Bench!Last

\* A result more, of a single shot that found its repository or of an arm that needs not have.
LEMMA FoundWhenRecorded ==
  ASSUME Bench!BenchmarkAssumption, Bench!BenchmarkInv, Bench!SingleShotsFindTheRepository, Bench!Running,
         NEW resolved \in BOOLEAN, NEW cost \in Nat \cup {Bench!None}, Bench!Record(resolved, cost),
         UNCHANGED <<v1, v3, v4, v5, v6>>, Bench!Strategy = "single_shot" => Bench!Present(Bench!Task)
  PROVE  Bench!SingleShotsFindTheRepository'
<1> DEFINE k == Len(v7)
           n == Len(v7[k]) + 1
<1>1. v1 = "bench" /\ v8' = ""
  BY DEF Bench!Running, Bench!Record
<1>2. /\ "single_shot" \in {v6[Len(v6) - 1], v6[Len(v6)]}
      /\ \A p \in 1..k : v6[p] = "single_shot" => \A i \in 1..Len(v7[p]) : Bench!Present(v7[p][i].task)
  BY <1>1 DEF Bench!SingleShotsFindTheRepository
<1>3. /\ k \in 1..2 /\ Len(v7[k]) \in Nat /\ Len(v7') = k /\ Len(v7'[k]) = n
      /\ v7'[k][n].task = v4[n] /\ \A i \in 1..Len(v7[k]) : v7'[k][i] = v7[k][i]
      /\ \A p \in 1..k : p # k => v7'[p] = v7[p]
  BY BenchRecorded
<1>4. v6[k] = "single_shot" => Bench!Present(v4[n])
  BY DEF Bench!Strategy, Bench!Task, Bench!Last
<1>5. \A wanted : Bench!Present(wanted)' = Bench!Present(wanted)
  BY DEF Bench!Present
<1>6. n = Len(v7[k]) + 1
  OBVIOUS
<1> HIDE DEF k, n
<1>7. ASSUME NEW p \in 1..k, v6[p] = "single_shot", NEW i \in 1..Len(v7'[p])
      PROVE  Bench!Present(v7'[p][i].task)
  <2>1. CASE p = k /\ i = n
    BY <1>3, <1>4, <1>7, <2>1
  <2>2. CASE p = k /\ i # n
    <3>1. i \in 1..Len(v7[k])
      BY <1>3, <1>6, <1>7, <2>2
    <3>2. QED
      BY <1>2, <1>3, <1>7, <2>2, <3>1
  <2>3. CASE p # k
    BY <1>2, <1>3, <1>7, <2>3
  <2>4. QED
    BY <2>1, <2>2, <2>3
<1>8. QED
  BY <1>1, <1>2, <1>3, <1>5, <1>7 DEF Bench!SingleShotsFindTheRepository

\* A pass that is done leaves no attempt under way.
LEMMA NothingUnderWay ==
  ASSUME Bench!BenchmarkInv, Bench!SingleShotsFindTheRepository, Bench!PassDone
  PROVE  v8 = ""
<1>1. Len(Bench!Last(v7)) = Len(v4) /\ Len(Bench!Last(v7)) \in Nat
  BY BenchLastPass DEF Bench!PassDone
<1>2. ~ Bench!Running
  BY <1>1 DEF Bench!Running
<1>3. QED
  BY <1>2 DEF Bench!SingleShotsFindTheRepository

\* An empty pass more.
LEMMA FoundInNextPass ==
  ASSUME Bench!BenchmarkInv, Bench!SingleShotsFindTheRepository, Bench!NextPass
  PROVE  Bench!SingleShotsFindTheRepository'
<1> DEFINE none == <<>>
           S == Seq(Bench!Result)
<1>1. v1 = "bench" /\ v8' = "" /\ Len(v7) = 1 /\ UNCHANGED <<v1, v3, v4, v5, v6>>
  BY NothingUnderWay DEF Bench!NextPass, Bench!PassDone
<1>2. v7' = Append(v7, none)
  BY DEF Bench!NextPass
<1>3. Len(none) = 0 /\ none \in S
  OBVIOUS
<1>4. v7 \in Seq(S)
  BY <1>1, BenchLastPass
<1> HIDE DEF none, S
<1>5. Len(v7') = 2 /\ v7'[1] = v7[1] /\ v7'[2] = none
  <2>1. /\ Len(Append(v7, none)) = Len(v7) + 1 /\ Append(v7, none)[Len(v7) + 1] = none
        /\ \A i \in 1..Len(v7) : Append(v7, none)[i] = v7[i]
    BY <1>3, <1>4, BenchAppended
  <2>2. Len(v7) + 1 = 2 /\ 1 \in 1..Len(v7)
    <3>1. \A n : n = 1 => n + 1 = 2 /\ 1 \in 1..n
      OBVIOUS
    <3>2. QED
      BY <1>1, <3>1, Zenon
  <2>3. QED
    BY <1>2, <2>1, <2>2, Zenon
<1>6. /\ "single_shot" \in {v6[Len(v6) - 1], v6[Len(v6)]}
      /\ v6[1] = "single_shot" => \A i \in 1..Len(v7[1]) : Bench!Present(v7[1][i].task)
  <2>1. 1 \in 1..Len(v7)
    <3>1. \A n : n = 1 => 1 \in 1..n
      OBVIOUS
    <3>2. QED
      BY <1>1, <3>1, Zenon
  <2>2. QED
    BY <1>1, <2>1, Zenon DEF Bench!SingleShotsFindTheRepository
<1>7. \A wanted : Bench!Present(wanted)' = Bench!Present(wanted)
  BY <1>1 DEF Bench!Present
<1>8. ASSUME NEW p \in 1..2, v6[p] = "single_shot", NEW i \in 1..Len(v7'[p])
      PROVE  Bench!Present(v7'[p][i].task)
  <2>1. CASE p = 1
    BY <1>5, <1>6, <1>8, <2>1
  <2>2. CASE p = 2
    BY <1>3, <1>5, <1>8, <2>2
  <2>3. QED
    BY <2>1, <2>2
<1>9. QED
  BY <1>1, <1>5, <1>6, <1>7, <1>8 DEF Bench!SingleShotsFindTheRepository

\* The floor's passes go, and those that are left begin.
LEMMA FoundInComparison ==
  ASSUME Bench!BenchmarkInv, Bench!SingleShotsFindTheRepository, Bench!Calibrate
  PROVE  Bench!SingleShotsFindTheRepository'
<1>1. v1 = "bench" /\ v8' = "" /\ Len(v6) = 4 /\ v6' = SubSeq(v6, 3, 4)
  BY NothingUnderWay DEF Bench!Calibrate, Bench!PassDone
<1>2. v6 \in Bench!Plans
  BY <1>1 DEF Bench!BenchmarkInv, Bench!ComparisonsHaveAFloor
<1>3. PICK c \in Bench!Strategies, t \in Bench!Strategies : v6 = <<c, c, c, t>>
  <2>1. PICK c \in Bench!Strategies, t \in Bench!Strategies : v6 = <<c, t>> \/ v6 = <<c, c, c, t>>
    <3>1. "single_shot" \in Bench!Strategies
      BY DEF Bench!Strategies
    <3>2. QED
      BY <1>2, <3>1 DEF Bench!Plans
  <2>2. CASE v6 = <<c, t>>
    <3>1. Len(v6) = 2
      BY <2>2, PlanOfTwo
    <3>2. 2 # 4
      OBVIOUS
    <3>3. QED
      BY <1>1, <3>1, <3>2, Zenon
  <2>3. QED
    BY <2>1, <2>2
<1>4. "single_shot" \in {c, t}
  <2>1. v6[Len(v6) - 1] = c /\ v6[Len(v6)] = t
    BY <1>3, PlanOfFour
  <2>2. "single_shot" \in {v6[Len(v6) - 1], v6[Len(v6)]}
    BY <1>1, Zenon DEF Bench!SingleShotsFindTheRepository
  <2>3. QED
    BY <2>1, <2>2, Zenon
<1>5. "single_shot" \in {v6'[Len(v6') - 1], v6'[Len(v6')]}
  <2>1. v6' = <<c, t>>
    BY <1>1, <1>3, BenchLastTwo
  <2>2. v6'[Len(v6') - 1] = c /\ v6'[Len(v6')] = t
    BY <2>1, PlanOfTwo
  <2>3. QED
    BY <1>4, <2>2, Zenon
<1>6. \A q \in 1..Len(v7') : 1..Len(v7'[q]) = {}
  BY OneEmptyPass DEF Bench!Calibrate
<1>7. QED
  BY <1>1, <1>5, <1>6, Zenon DEF Bench!SingleShotsFindTheRepository

\* Every step keeps single shots to repositories that are there.
LEMMA FoundInEveryStep ==
  ASSUME Bench!BenchmarkAssumption, Bench!BenchmarkInv, Bench!SingleShotsFindTheRepository,
         v5.has \in SUBSET Bench!Commits, DOMAIN v5 = {"git", "origin", "has"},
         Bench!BenchmarkNext \/ UNCHANGED slots
  PROVE  Bench!SingleShotsFindTheRepository'
<1>0. v1 # "bench" => v8 = ""
  BY DEF Bench!SingleShotsFindTheRepository, Bench!Running
<1>1. CASE UNCHANGED slots
  BY <1>1 DEF slots, Bench!SingleShotsFindTheRepository, Bench!Running, Bench!Present, Bench!Task, Bench!Last
<1>2. CASE \/ \E n \in Bench!Commits : Bench!Import(n)
           \/ Bench!Unvalidated \/ Bench!Harvest \/ Bench!Fixed \/ Bench!Reject \/ Bench!Save
           \/ \E fails \in BOOLEAN : Bench!Rerun(fails)
  <2>1. v1 # "bench" /\ v1' # "bench" /\ v8' = v8
    BY <1>2 DEF Bench!Import, Bench!Unvalidated, Bench!Harvest, Bench!Fixed, Bench!Reject, Bench!Save, Bench!Rerun,
      Bench!Testing
  <2>2. QED
    BY <1>0, <2>1, FoundWhenIdle
<1>3. CASE Bench!Die
  BY <1>3, FoundWhenIdle DEF Bench!Die
<1>4. CASE Bench!Resolve
  <2>1. Bench!Present(Bench!Task)'
    BY <1>4 DEF Bench!Resolve, Bench!Present, Bench!Task, Bench!Last
  <2>2. Bench!Running /\ UNCHANGED <<v1, v3, v4, v5, v6, v7>>
    BY <1>4 DEF Bench!Resolve
  <2>3. QED
    BY <2>1, <2>2, FoundOnTheWay
<1>5. CASE Bench!GitInit \/ Bench!AddRemote
  <2>1. Bench!Running /\ UNCHANGED <<v1, v3, v4, v6, v7>> /\ v5'.has = v5.has /\ v8' # "resolved"
    BY <1>5 DEF Bench!GitInit, Bench!AddRemote, Bench!Missing
  <2>2. QED
    BY <2>1, FoundOnTheWay
<1>6. CASE Bench!Fetch
  <2>1. Bench!Running /\ UNCHANGED <<v1, v3, v4, v6, v7>> /\ v5' = [v5 EXCEPT !.has = v5.has \cup {Bench!Task}]
    BY <1>6 DEF Bench!Fetch, Bench!Fetching, Bench!Missing
  <2>2. v5'.has = v5.has \cup {Bench!Task}
    BY <2>1
  <2>3. Bench!Task' = Bench!Task
    BY <2>1 DEF Bench!Task, Bench!Last
  <2>4. Bench!Present(Bench!Task)'
    BY <2>2, <2>3 DEF Bench!Present
  <2>5. QED
    BY <2>1, <2>2, <2>4, FoundOnTheWay
<1>7. CASE Bench!FetchFails
  <2>1. CASE Bench!Strategy = "bon"
    <3>1. Bench!Running /\ Bench!Record(FALSE, Bench!None) /\ UNCHANGED <<v1, v3, v4, v5, v6>>
      BY <1>7, <2>1 DEF Bench!FetchFails, Bench!Missing
    <3>2. QED
      BY <2>1, <3>1, FoundWhenRecorded
  <2>2. CASE Bench!Strategy # "bon"
    BY <1>7, <2>2, FoundWhenIdle DEF Bench!FetchFails
  <2>3. QED
    BY <2>1, <2>2
<1>8. ASSUME NEW strategy, NEW admitted \in BOOLEAN, NEW cost \in UNION {Costs[s] : s \in Bench!Strategies},
             Bench!Attempt(strategy, admitted, cost)
      PROVE  Bench!SingleShotsFindTheRepository'
  <2>1. Bench!Running /\ v8 = "resolved" /\ Bench!Record(admitted, cost) /\ UNCHANGED <<v1, v3, v4, v5, v6>>
    BY <1>8 DEF Bench!Attempt
  <2>2. Bench!Present(Bench!Task)
    BY <2>1 DEF Bench!SingleShotsFindTheRepository
  <2>3. cost \in Nat
    BY DEF Bench!BenchmarkAssumption
  <2>4. QED
    BY <2>1, <2>2, <2>3, FoundWhenRecorded
<1>9. CASE Bench!Raises
  <2>1. Bench!Running /\ v8 = "resolved" /\ Bench!Record(FALSE, Bench!None) /\ UNCHANGED <<v1, v3, v4, v5, v6>>
    BY <1>9 DEF Bench!Raises
  <2>2. Bench!Present(Bench!Task)
    BY <2>1 DEF Bench!SingleShotsFindTheRepository
  <2>3. QED
    BY <2>1, <2>2, FoundWhenRecorded
<1>10. ASSUME NEW inflated \in BOOLEAN, Bench!Report(inflated)
       PROVE  Bench!SingleShotsFindTheRepository'
  <2>1. v1' = "" /\ v8' = v8 /\ v8 = ""
    BY <1>10, NothingUnderWay DEF Bench!Report
  <2>2. QED
    BY <2>1, FoundWhenIdle
<1>11. QED
  BY <1>1, <1>2, <1>3, <1>4, <1>5, <1>6, <1>7, <1>8, <1>9, <1>10, FoundWhenBegun, FoundInNextPass, FoundInComparison
    DEF Bench!BenchmarkNext, Bench!SingleShot, Bench!BestOfN

\* What a report is of.
LEMMA BenchReports ==
  ASSUME Bench!BenchmarkAssumption, Bench!BenchmarkInv, Bench!SingleShotsFindTheRepository,
         NEW inflated \in BOOLEAN, Bench!Report(inflated)
  PROVE  Bench!ReportIsOfItsSuite
<1>1. /\ v1 = "bench" /\ Len(v7) = 2 /\ Len(v6) = 2
      /\ Bench!IsCompare(v6) => v9' = v10 /\ v11' = Bench!Verdict(v7[1], v7[2], v10, inflated)
      /\ ~ Bench!IsCompare(v6) => v11' = v11
  BY DEF Bench!Report, Bench!PassDone
<1>2. /\ v7[1] \in Seq(Bench!Result) /\ v7[2] \in Seq(Bench!Result)
      /\ Len(v7[1]) = Len(v4) /\ Len(v7[2]) = Len(v4) /\ v4 \in Seq(Bench!Commits)
      /\ \A q \in 1..2 : \A i \in 1..Len(v7[q]) : v7[q][i].task = v4[i]
      /\ Bench!IsCompare(v6) => Bench!IsFloor(v10)
  BY <1>1, BenchDone DEF Bench!Report
<1>3. \A pass \in {v7[1], v7[2]} : [i \in 1..Len(pass) |-> pass[i].task] = v4
  <2>1. SUFFICES ASSUME NEW q \in 1..2
                 PROVE  [i \in 1..Len(v7[q]) |-> v7[q][i].task] = v4
    OBVIOUS
  <2>2. Len(v7[q]) = Len(v4) /\ \A i \in 1..Len(v4) : v7[q][i].task = v4[i]
    BY <1>2
  <2>3. v4 = [i \in 1..Len(v4) |-> v4[i]]
    BY <1>2
  <2>4. [i \in 1..Len(v7[q]) |-> v7[q][i].task] = [i \in 1..Len(v4) |-> v4[i]]
    BY <2>2
  <2>5. QED
    BY <2>3, <2>4
<1>4. ASSUME NEW i \in 1..Len(v4)
      PROVE  Bench!Present(v4[i])
  <2>1. "single_shot" \in {v6[1], v6[2]}
    <3>1. "single_shot" \in {v6[Len(v6) - 1], v6[Len(v6)]}
      BY <1>1, Zenon DEF Bench!SingleShotsFindTheRepository
    <3>2. Len(v6) = 2 /\ 2 - 1 = 1
      BY <1>1
    <3>3. QED
      BY <3>1, <3>2, Zenon
  <2>2. PICK q \in 1..2 : v6[q] = "single_shot"
    BY <2>1
  <2>3. \A j \in 1..Len(v7[q]) : Bench!Present(v7[q][j].task)
    BY <1>1, <2>2 DEF Bench!SingleShotsFindTheRepository
  <2>4. i \in 1..Len(v7[q]) /\ v7[q][i].task = v4[i]
    BY <1>2
  <2>5. QED
    BY <2>3, <2>4
<1>5. ASSUME v11' = "POSITIVE", v11' # v11
      PROVE  v9'.n > 0 /\ Bench!Lead(v7[1], v7[2]) * v9'.n > v9'.drift * Len(v4)
  BY <1>1, <1>2, <1>5, BenchPositive
<1>6. QED
  BY <1>3, <1>4, <1>5 DEF Bench!ReportIsOfItsSuite

\* The actions of the benchmark that write no report.
BenchQuiet ==
  \/ \E n \in Bench!Commits : Bench!Import(n)
  \/ Bench!Unvalidated \/ Bench!Harvest \/ Bench!Fixed \/ Bench!Reject \/ Bench!Save
  \/ \E fails \in BOOLEAN : Bench!Rerun(fails)
  \/ \E p \in Bench!Plans : Bench!Bench(p)
  \/ Bench!Resolve \/ Bench!GitInit \/ Bench!AddRemote \/ Bench!Fetch \/ Bench!FetchFails
  \/ \E admitted \in BOOLEAN, cost \in UNION {Costs[s] : s \in Bench!Strategies} :
       Bench!SingleShot(admitted, cost) \/ Bench!BestOfN(admitted, cost)
  \/ Bench!Raises \/ Bench!NextPass \/ Bench!Calibrate \/ Bench!Die

\* No step but a report leaves a floor or a sentence.
LEMMA OnlyReportsReport ==
  ASSUME Bench!BenchmarkAssumption, Bench!BenchmarkInv, Bench!SingleShotsFindTheRepository,
         Bench!BenchmarkNext \/ UNCHANGED slots
  PROVE  Bench!ReportIsOfItsSuite
<1>1. CASE v9' = v9 /\ (v11' = v11 \/ v11' = "")
  BY <1>1 DEF Bench!ReportIsOfItsSuite, Bench!Reported
<1>2. CASE \E inflated \in BOOLEAN : Bench!Report(inflated)
  BY <1>2, BenchReports
<1>3. CASE BenchQuiet
  BY <1>1, <1>3 DEF BenchQuiet, Bench!Import, Bench!Unvalidated, Bench!Harvest, Bench!Fixed, Bench!Reject,
    Bench!Save, Bench!Rerun, Bench!Bench, Bench!Resolve, Bench!GitInit, Bench!AddRemote, Bench!Fetch,
    Bench!FetchFails, Bench!SingleShot, Bench!BestOfN, Bench!Attempt, Bench!Raises, Bench!NextPass,
    Bench!Calibrate, Bench!Die
<1>4. CASE UNCHANGED slots
  BY <1>1, <1>4 DEF slots
<1>5. QED
  BY <1>2, <1>3, <1>4 DEF BenchQuiet, Bench!BenchmarkNext

\* what a validation may be at
Checks == [commit : 0..(NumCommits + 1), runs : 0..Determinism, failed : 0..Determinism, valid : Seq(Bench!Commits)]

\* The types rest on the invariant, and on that a check has failed at most as often as it ran.
BenchTyped ==
  Bench!BenchmarkInv /\ Bench!SingleShotsFindTheRepository /\ Bench!BenchmarkTypeOK /\ v2.failed <= v2.runs

\* The actions of the benchmark that leave the validation of a suite alone.
BenchApart ==
  \/ \E n \in Bench!Commits : Bench!Import(n)
  \/ Bench!Unvalidated \/ \E p \in Bench!Plans : Bench!Bench(p)
  \/ Bench!Resolve \/ Bench!GitInit \/ Bench!AddRemote \/ Bench!Fetch \/ Bench!FetchFails
  \/ \E admitted \in BOOLEAN, cost \in UNION {Costs[s] : s \in Bench!Strategies} :
       Bench!SingleShot(admitted, cost) \/ Bench!BestOfN(admitted, cost)
  \/ Bench!Raises \/ Bench!NextPass \/ Bench!Calibrate \/ \E inflated \in BOOLEAN : Bench!Report(inflated)

\* A check that begins.
LEMMA BenchCheckBegins ==
  ASSUME Bench!BenchmarkAssumption, NEW c \in 0..(NumCommits + 1), NEW valid \in Seq(Bench!Commits),
         NEW x, x = Bench!Check(c, valid)
  PROVE  x \in Checks /\ x.failed <= x.runs
<1>1. NumCommits \in Nat /\ Determinism \in Nat \ {0}
  BY DEF Bench!BenchmarkAssumption
<1>2. x = [commit |-> c, runs |-> 0, failed |-> 0, valid |-> valid] /\ 0 \in 0..Determinism
  BY <1>1 DEF Bench!Check
<1>3. QED
  BY <1>2 DEF Checks

\* The validation of a commit keeps its shape.
LEMMA BenchChecking ==
  ASSUME Bench!BenchmarkAssumption, v2 \in Checks, v2.failed <= v2.runs, Bench!BenchmarkNext \/ UNCHANGED slots
  PROVE  v2' \in Checks /\ v2'.failed <= v2'.runs
<1>0. NumCommits \in Nat /\ Determinism \in Nat \ {0} /\ <<>> \in Seq(Bench!Commits)
  BY DEF Bench!BenchmarkAssumption
<1>1. ASSUME NEW c \in 0..(NumCommits + 1), NEW valid \in Seq(Bench!Commits), v2' = Bench!Check(c, valid)
      PROVE  v2' \in Checks /\ v2'.failed <= v2'.runs
  BY <1>1, BenchCheckBegins
<1>2. CASE v2' = v2
  BY <1>2
<1>3. CASE Bench!Harvest \/ Bench!Save \/ Bench!Die
  <2>1. v2' = Bench!Check(1, <<>>) \/ v2' = Bench!Check(0, <<>>)
    BY <1>3 DEF Bench!Harvest, Bench!Save, Bench!Die, Bench!NotChecking
  <2>2. 0 \in 0..(NumCommits + 1) /\ 1 \in 0..(NumCommits + 1)
    BY <1>0
  <2>3. QED
    BY <1>0, <1>1, <2>1, <2>2
<1>4. CASE Bench!Fixed
  <2>1. v2.commit \in Bench!Commits /\ v2.valid \in Seq(Bench!Commits)
    BY <1>4 DEF Bench!Fixed, Bench!Testing, Checks
  <2>2. Append(v2.valid, v2.commit) \in Seq(Bench!Commits) /\ v2.commit + 1 \in 0..(NumCommits + 1)
    BY <1>0, <2>1 DEF Bench!Commits
  <2>3. QED
    BY <1>1, <1>4, <2>2 DEF Bench!Fixed
<1>5. CASE Bench!Reject
  <2>1. v2.valid \in Seq(Bench!Commits) /\ v2.commit + 1 \in 0..(NumCommits + 1)
    BY <1>0, <1>5 DEF Bench!Reject, Bench!Testing, Bench!Commits, Checks
  <2>2. QED
    BY <1>1, <1>5, <2>1 DEF Bench!Reject
<1>6. ASSUME NEW fails \in BOOLEAN, Bench!Rerun(fails)
      PROVE  v2' \in Checks /\ v2'.failed <= v2'.runs
  <2> DEFINE x == IF fails THEN 1 ELSE 0
  <2>1. /\ v2.runs < Determinism
        /\ v2' = [v2 EXCEPT !.runs = v2.runs + 1, !.failed = v2.failed + x]
    BY <1>6 DEF Bench!Rerun
  <2>2. x \in 0..1 OBVIOUS
  <2> HIDE DEF x
  <2>3. v2.runs + 1 \in 0..Determinism /\ v2.failed + x \in 0..Determinism /\ v2.failed + x <= v2.runs + 1
    BY <1>0, <2>1, <2>2 DEF Checks
  <2>4. /\ v2'.runs = v2.runs + 1 /\ v2'.failed = v2.failed + x /\ v2' \in Checks
    BY <2>1, <2>3 DEF Checks
  <2>5. QED
    BY <2>3, <2>4
<1>7. BenchApart \/ UNCHANGED slots => v2' = v2
  BY DEF BenchApart, slots, Bench!Import, Bench!Unvalidated, Bench!Bench, Bench!Resolve, Bench!GitInit, Bench!AddRemote,
    Bench!Fetch, Bench!FetchFails, Bench!SingleShot, Bench!BestOfN, Bench!Attempt, Bench!Raises, Bench!NextPass,
    Bench!Calibrate, Bench!Report
<1>8. QED
  BY <1>2, <1>3, <1>4, <1>5, <1>6, <1>7 DEF Bench!BenchmarkNext, BenchApart

\* The task at hand is of the suite.
LEMMA BenchTask ==
  ASSUME Bench!BenchmarkInv, Bench!Running
  PROVE  Bench!Task \in Bench!Commits
<1> DEFINE S == Seq(Bench!Result)
<1>1. v7 \in Seq(S) /\ Len(v7) \in 1..2 /\ v4 \in Seq(Bench!Commits)
  BY DEF Bench!Running, Bench!BenchmarkInv, Bench!PassesFollowTheSuite
<1>2. v7[Len(v7)] \in S
  <2> HIDE DEF S
  <2>1. Len(v7) \in 1..Len(v7) BY <1>1
  <2>2. QED BY <1>1, <2>1
<1>3. Len(v7[Len(v7)]) < Len(v4)
  BY DEF Bench!Running, Bench!Last
<1>4. Len(v7[Len(v7)]) + 1 \in 1..Len(v4)
  BY <1>1, <1>2, <1>3
<1>5. QED
  BY <1>1, <1>4 DEF Bench!Task, Bench!Last

\* The passes of a bench are at most the planned ones.
LEMMA BenchPasses ==
  ASSUME Bench!BenchmarkAssumption, Bench!BenchmarkInv, Bench!BenchmarkInv', Bench!BenchmarkNext \/ UNCHANGED slots,
         v6 \in Seq(Bench!Strategies), v7 \in Seq(Seq(Bench!Result)), Len(v7) <= Len(v6)
  PROVE  v6' \in Seq(Bench!Strategies) /\ v7' \in Seq(Seq(Bench!Result)) /\ Len(v7') <= Len(v6')
<1>1. CASE v1' = "bench"
  <2>1. v6' \in Bench!Plans /\ v7' \in Seq(Seq(Bench!Result)) /\ Len(v7') \in 1..2
    BY <1>1 DEF Bench!BenchmarkInv, Bench!PassesFollowTheSuite, Bench!ComparisonsHaveAFloor
  <2>2. Len(v6') = 2 \/ Len(v6') = 4
    BY <2>1, BenchPlans
  <2>3. v6' \in Seq(Bench!Strategies)
    <3>1. PICK c \in Bench!Strategies, t \in Bench!Strategies : v6' = <<c, t>> \/ v6' = <<c, c, c, t>>
      <4>1. "single_shot" \in Bench!Strategies
        BY DEF Bench!Strategies
      <4>2. QED
        BY <2>1, <4>1 DEF Bench!Plans
    <3>2. <<c, t>> \in Seq(Bench!Strategies) /\ <<c, c, c, t>> \in Seq(Bench!Strategies)
      OBVIOUS
    <3>3. QED
      BY <3>1, <3>2
  <2>4. QED
    BY <2>1, <2>2, <2>3
<1>2. CASE v1' # "bench"
  <2>1. (v6' = v6 /\ v7' = v7) \/ (v6' = <<>> /\ v7' = <<>>)
    <3>1. CASE BenchApart
      BY <1>2, <3>1 DEF BenchApart, Bench!Import, Bench!Unvalidated, Bench!Bench, Bench!Resolve, Bench!GitInit,
        Bench!AddRemote, Bench!Fetch, Bench!FetchFails, Bench!SingleShot, Bench!BestOfN, Bench!Attempt, Bench!Raises,
        Bench!NextPass, Bench!Calibrate, Bench!Report, Bench!Missing, Bench!Running, Bench!PassDone
    <3>2. CASE UNCHANGED slots
      BY <3>2 DEF slots
    <3>3. CASE \/ Bench!Harvest \/ Bench!Fixed \/ Bench!Reject \/ Bench!Save \/ Bench!Die
               \/ \E fails \in BOOLEAN : Bench!Rerun(fails)
      BY <3>3 DEF Bench!Harvest, Bench!Fixed, Bench!Reject, Bench!Save, Bench!Die, Bench!Rerun
    <3>4. QED
      BY <3>1, <3>2, <3>3 DEF Bench!BenchmarkNext, BenchApart
  <2>2. <<>> \in Seq(Bench!Strategies) /\ <<>> \in Seq(Seq(Bench!Result)) /\ Len(<<>>) <= Len(<<>>)
    OBVIOUS
  <2>3. QED
    BY <2>1, <2>2
<1>3. QED
  BY <1>1, <1>2

\* The types hold at the start.
LEMMA BenchTypedInit ==
  ASSUME Bench!BenchmarkAssumption, Bench!BenchmarkInit
  PROVE  BenchTyped
<1>1. Bench!BenchmarkInv /\ Bench!SingleShotsFindTheRepository
  BY BenchInitHolds DEF Bench!BenchmarkInit, Bench!SingleShotsFindTheRepository
<1>2. NumCommits \in Nat /\ Determinism \in Nat /\ MaxBenches \in Nat
  BY DEF Bench!BenchmarkAssumption
<1>3. /\ v1 = "" /\ v2 = Bench!Check(0, <<>>) /\ v3 = "" /\ v4 = <<>> /\ v5 = [git |-> FALSE, origin |-> FALSE, has |-> {}]
      /\ v6 = <<>> /\ v7 = <<>> /\ v8 = "" /\ v9 = Bench!NoFloor /\ v10 = Bench!NoFloor /\ v11 = "" /\ v12 = 0
  BY DEF Bench!BenchmarkInit, Bench!NotChecking
<1>4. /\ <<>> \in Seq(Bench!Commits) /\ <<>> \in Seq(Bench!Strategies) /\ <<>> \in Seq(Seq(Bench!Result))
      /\ Len(<<>>) <= Len(<<>>)
  OBVIOUS
<1>5. v2 \in Checks /\ v2.failed <= v2.runs
  <2>1. 0 \in 0..(NumCommits + 1)
    BY <1>2
  <2>2. QED
    BY <1>3, <1>4, <2>1, BenchCheckBegins
<1>6. v9.n = Bench!None /\ v10.n = Bench!None
  BY <1>3 DEF Bench!NoFloor, Bench!Floor
<1>7. v5 \in [git : BOOLEAN, origin : BOOLEAN, has : SUBSET Bench!Commits]
  BY <1>3
<1>8. v4 \in Seq(Bench!Commits) /\ v6 \in Seq(Bench!Strategies) /\ v7 \in Seq(Seq(Bench!Result)) /\ Len(v7) <= Len(v6)
  BY <1>3, <1>4
<1>9. v12 \in 0..MaxBenches /\ v11 \in Bench!Verdicts
  <2>1. v12 = 0
    BY <1>3
  <2>2. v12 \in 0..MaxBenches
    BY <1>2, <2>1
  <2>3. v11 \in Bench!Verdicts
    BY <1>3 DEF Bench!Verdicts
  <2>4. QED
    BY <2>2, <2>3
<1>10. v1 \in {"", "harvest", "bench"} /\ v3 \in {"", "harvested", "imported"} /\ v8 \in {"", "remote", "fetch", "resolved"}
  BY <1>3
<1>11. QED
  BY <1>1, <1>5, <1>6, <1>7, <1>8, <1>9, <1>10 DEF BenchTyped, Checks, Bench!BenchmarkTypeOK

\* Every step keeps them.
LEMMA BenchTypedStep ==
  ASSUME Bench!BenchmarkAssumption, BenchTyped, Bench!BenchmarkNext \/ UNCHANGED slots
  PROVE  BenchTyped'
<1>1. Bench!BenchmarkInv /\ Bench!BenchmarkInv' /\ Bench!SingleShotsFindTheRepository'
  <2>1. v5.has \in SUBSET Bench!Commits /\ DOMAIN v5 = {"git", "origin", "has"}
    BY DEF BenchTyped, Bench!BenchmarkTypeOK
  <2>2. QED
    BY <2>1, BenchStepHolds, FoundInEveryStep DEF BenchTyped
<1>2. v2' \in Checks /\ v2'.failed <= v2'.runs
  <2>1. v2 \in Checks /\ v2.failed <= v2.runs
    BY DEF BenchTyped, Bench!BenchmarkTypeOK, Checks
  <2>2. QED
    BY <2>1, BenchChecking
<1>3. v6' \in Seq(Bench!Strategies) /\ v7' \in Seq(Seq(Bench!Result)) /\ Len(v7') <= Len(v6')
  <2>1. v6 \in Seq(Bench!Strategies) /\ v7 \in Seq(Seq(Bench!Result)) /\ Len(v7) <= Len(v6)
    BY DEF BenchTyped, Bench!BenchmarkTypeOK
  <2>2. QED
    BY <1>1, <2>1, BenchPasses
<1>4. v4' \in Seq(Bench!Commits) /\ v9'.n \in Nat \cup {Bench!None}
  BY <1>1 DEF Bench!BenchmarkInv, Bench!PassesFollowTheSuite, Bench!ComparisonsHaveAFloor, Bench!IsFloor, Bench!NoFloor,
    Bench!Floor
<1> DEFINE Caches == [git : BOOLEAN, origin : BOOLEAN, has : SUBSET Bench!Commits]
           Rest == /\ v1' \in {"", "harvest", "bench"} /\ v3' \in {"", "harvested", "imported"} /\ v5' \in Caches
                   /\ v8' \in {"", "remote", "fetch", "resolved"} /\ v10'.n \in Nat \cup {Bench!None}
                   /\ v11' \in Bench!Verdicts /\ v12' \in 0..MaxBenches
<1>5. Rest => BenchTyped'
  BY <1>1, <1>2, <1>3, <1>4 DEF BenchTyped, Bench!BenchmarkTypeOK, Checks
<1>6. /\ v1 \in {"", "harvest", "bench"} /\ v3 \in {"", "harvested", "imported"} /\ v5 \in Caches
      /\ v8 \in {"", "remote", "fetch", "resolved"} /\ v10.n \in Nat \cup {Bench!None} /\ v9.n \in Nat \cup {Bench!None}
      /\ v11 \in Bench!Verdicts /\ v12 \in 0..MaxBenches /\ MaxBenches \in Nat
  BY DEF BenchTyped, Bench!BenchmarkTypeOK, Bench!BenchmarkAssumption
<1>7. v12 < MaxBenches => v12 + 1 \in 0..MaxBenches
  <2>1. v12 \in 0..MaxBenches /\ MaxBenches \in Nat
    BY <1>6
  <2>2. QED
    BY <2>1
<1>8. Bench!NoFloor.n = Bench!None /\ "" \in Bench!Verdicts
  BY DEF Bench!NoFloor, Bench!Floor, Bench!Verdicts
<1> HIDE DEF Rest, Caches
<1>9. CASE UNCHANGED slots
  BY <1>5, <1>6, <1>9 DEF slots, Rest
<1>10. CASE \/ \E n \in Bench!Commits : Bench!Import(n)
           \/ Bench!Unvalidated \/ Bench!Harvest \/ Bench!Fixed \/ Bench!Reject \/ Bench!Save
           \/ \E fails \in BOOLEAN : Bench!Rerun(fails)
  <2>1. CASE Bench!Harvest
    <3>1. v12 < MaxBenches /\ v12' = v12 + 1 /\ v1' = "harvest" /\ UNCHANGED <<v3, v5, v8, v10, v11>>
      BY <2>1 DEF Bench!Harvest
    <3>2. v12' \in 0..MaxBenches
      BY <1>7, <3>1
    <3>3. QED
      BY <1>5, <1>6, <3>1, <3>2 DEF Rest
  <2>2. ASSUME ~ Bench!Harvest PROVE BenchTyped'
    <3>1. /\ v1' = v1 \/ v1' = ""
          /\ v3' = v3 \/ v3' = "imported" \/ v3' = "harvested"
          /\ UNCHANGED <<v5, v8, v10, v11, v12>>
      BY <1>10, <2>2 DEF Bench!Import, Bench!Unvalidated, Bench!Fixed, Bench!Reject, Bench!Save, Bench!Rerun
    <3>2. QED
      BY <1>5, <1>6, <3>1 DEF Rest
  <2>3. QED
    BY <2>1, <2>2
<1>11. ASSUME NEW p \in Bench!Plans, Bench!Bench(p) PROVE BenchTyped'
  <2>1. /\ v12 < MaxBenches /\ v12' = v12 + 1 /\ v1' = "bench" /\ v11' = "" /\ UNCHANGED <<v3, v5, v8>>
        /\ v10' = Bench!NoFloor \/ v10' = v9
    BY <1>11 DEF Bench!Bench
  <2>2. v12' \in 0..MaxBenches
    BY <1>7, <2>1
  <2>3. v10'.n \in Nat \cup {Bench!None}
    BY <1>6, <1>8, <2>1
  <2>4. QED
    BY <1>5, <1>6, <1>8, <2>1, <2>2, <2>3 DEF Rest
<1>12. CASE Bench!Resolve
  BY <1>5, <1>6, <1>12 DEF Rest, Bench!Resolve
<1>13. CASE Bench!GitInit \/ Bench!AddRemote
  BY <1>5, <1>6, <1>13 DEF Rest, Caches, Bench!GitInit, Bench!AddRemote
<1>14. CASE Bench!Fetch
  <2>1. Bench!Task \in Bench!Commits
    BY <1>1, <1>14, BenchTask DEF Bench!Fetch, Bench!Fetching, Bench!Missing
  <2>2. QED
    BY <1>5, <1>6, <1>14, <2>1 DEF Rest, Caches, Bench!Fetch
<1>15. CASE Bench!FetchFails
  BY <1>5, <1>6, <1>8, <1>15 DEF Rest, Bench!FetchFails, Bench!Record
<1>16. ASSUME NEW strategy, NEW admitted, NEW cost, Bench!Attempt(strategy, admitted, cost) PROVE BenchTyped'
  BY <1>5, <1>6, <1>16 DEF Rest, Bench!Attempt, Bench!Record
<1>17. CASE Bench!Raises \/ Bench!NextPass
  BY <1>5, <1>6, <1>17 DEF Rest, Bench!Raises, Bench!NextPass, Bench!Record
<1>18. CASE Bench!Calibrate
  <2>1. v10'.n \in Nat
    <3>1. v7[1] \in Seq(Bench!Result) /\ v7[2] \in Seq(Bench!Result)
      BY <1>1, <1>18, BenchDone DEF Bench!Calibrate
    <3>2. QED
      BY <1>18, <3>1, BenchFloors DEF Bench!Calibrate, Bench!IsFloor
  <2>2. QED
    BY <1>5, <1>6, <1>18, <2>1 DEF Rest, Bench!Calibrate
<1>19. ASSUME NEW inflated \in BOOLEAN, Bench!Report(inflated) PROVE BenchTyped'
  <2>1. v11' \in Bench!Verdicts
    BY <1>6, <1>19 DEF Bench!Report, Bench!Verdict, Bench!Verdicts
  <2>2. QED
    BY <1>5, <1>6, <1>8, <1>19, <2>1 DEF Rest, Bench!Report
<1>20. CASE Bench!Die
  BY <1>5, <1>6, <1>8, <1>20 DEF Rest, Bench!Die
<1>21. QED
  BY <1>9, <1>10, <1>11, <1>12, <1>13, <1>14, <1>15, <1>16, <1>17, <1>18, <1>19, <1>20 DEF Bench!BenchmarkNext,
    Bench!SingleShot, Bench!BestOfN

\* A bench keeps what its verdict rests on, and its types.
LEMMA BenchmarkInvariant == Spec => [](subject = "benchmark" => BenchTyped)
<1> DEFINE Inv == subject = "benchmark" => BenchTyped
<1> USE PartsAssumption DEF PartsAssumption
<1>1. Init => Inv
  BY BenchTypedInit DEF Init, SlotsInit
<1>2. Inv /\ [Next]_partsVars => Inv'
  <2> SUFFICES ASSUME BenchTyped, Bench!BenchmarkNext \/ UNCHANGED slots
               PROVE  BenchTyped'
    BY DEF Next, SlotsNext, partsVars, slots
  <2>1. QED
    BY BenchTypedStep
<1>3. QED
  BY <1>1, <1>2, PTL DEF Spec

\* A report is of its suite, whatever the suite, the deaths and the floors are (bench,
\* run_suite, ensure_repo, reporter.verdict).
THEOREM ReportsAreOfTheirSuite == Spec => ReportIsOfItsSuite
<1> DEFINE Inv == subject = "benchmark" => BenchTyped
<1> USE PartsAssumption DEF PartsAssumption
<1>1. Inv /\ [Next]_partsVars => [subject = "benchmark" => Bench!ReportIsOfItsSuite]_partsVars
  <2> SUFFICES ASSUME BenchTyped, Bench!BenchmarkNext \/ UNCHANGED slots
               PROVE  Bench!ReportIsOfItsSuite
    BY DEF Next, SlotsNext, partsVars, slots
  <2>1. QED
    BY OnlyReportsReport DEF BenchTyped
<1>2. QED
  BY <1>1, BenchmarkInvariant, PTL DEF Spec, ReportIsOfItsSuite

=============================================================================
