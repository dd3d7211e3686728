------------------------------- MODULE Journal -------------------------------
(***************************************************************************)
(* The record of an aether run: the executor, the dispatcher and the       *)
(* governor emit to the bus, which queues for the trajectory store without *)
(* bound and for a display with one; engine.run empties the store's queue  *)
(* into SQLite when the topology has run or raised, adds run_completed     *)
(* only in the first case, and empties it again.  Each drain asks the      *)
(* table for its last number before it appends.  A process that dies loses *)
(* what is in its queues, and nothing ever writes to the run's rows again. *)
(***************************************************************************)
EXTENDS Naturals, Sequences, FiniteSets

CONSTANTS
  Kinds,     \* event kinds emitted between run_started and run_completed
  MaxEvents, \* bound on the events of the execution
  Frames     \* maxsize of the display's queue

JournalAssumption == MaxEvents \in Nat /\ Frames \in Nat \ {0}

VARIABLES
  running,  \* what engine.run is at
  emitted,  \* history: the events emitted
  queue,    \* the store's queue on the bus
  screen,   \* the display's
  batch,    \* what drain() took and _drain_to_trajectory_store has yet to append
  next,     \* the number its next row gets
  rows      \* the events table: the rows of this run

journalVars == <<running, emitted, queue, screen, batch, next, rows>>

Stages == {"begin", "execute", "drain", "unwind", "report", "completed", "drain last"}
Ended == {"returned", "raised", "dead"}
AllKinds == Kinds \cup {"run_started", "run_completed"}

JournalTypeOK ==
  /\ running \in Stages \cup Ended
  /\ emitted \in Seq(AllKinds) /\ queue \in Seq(AllKinds)
  /\ screen \in Seq(AllKinds) /\ Len(screen) <= Frames
  /\ batch \in Seq(AllKinds) /\ next \in Nat
  /\ rows \in SUBSET [seq : Nat, kind : AllKinds]

JournalInit ==
  /\ running = "begin" /\ emitted = <<>> /\ queue = <<>> /\ screen = <<>>
  /\ batch = <<>> /\ next = 0 /\ rows = {}

-----------------------------------------------------------------------------
BugEmit(kind) ==
  /\ emitted' = Append(emitted, kind)
  /\ queue' = Append(queue, kind)
  /\ screen' = Append(screen, kind)
\* a full display queue drops its oldest event; the store's never drops one
MakeRoom(waiting) == IF Len(waiting) = Frames THEN Tail(waiting) ELSE waiting
Emit(kind) ==
  /\ emitted' = Append(emitted, kind)
  /\ queue' = Append(queue, kind)
  /\ screen' = Append(MakeRoom(screen), kind)

Begin ==
  /\ running = "begin" /\ Emit("run_started") /\ running' = "execute"
  /\ UNCHANGED <<batch, next, rows>>

Happen(kind) ==
  /\ running = "execute" /\ Len(emitted) <= MaxEvents /\ Emit(kind)
  /\ UNCHANGED <<running, batch, next, rows>>

\* the reader of the display takes what is there
Show == screen # <<>> /\ screen' = <<>> /\ UNCHANGED <<running, emitted, queue, batch, next, rows>>

\* MAX(seq) of an empty table is 0
LatestSeq == IF rows = {} THEN 0 ELSE CHOOSE s \in {r.seq : r \in rows} : \A r \in rows : r.seq <= s

\* bus.drain() and latest_seq(): once, before the first row
Drain == batch' = queue /\ queue' = <<>> /\ next' = LatestSeq + 1

\* execute() has returned, or raised (the finally clause drains either way), or
\* the run is complete
StartDrain(stage) ==
  /\ \/ running = "execute" /\ stage \in {"drain", "unwind"}
     \/ running = "completed" /\ stage = "drain last"
  /\ Drain /\ running' = stage
  /\ UNCHANGED <<emitted, screen, rows>>

\* RunCompleted, after a run that did not raise
Complete ==
  /\ running = "report" /\ Emit("run_completed") /\ running' = "completed"
  /\ UNCHANGED <<batch, next, rows>>

\* (run_id, seq) is the primary key: an insert that meets a row of its number fails
Store ==
  /\ batch # <<>> /\ running \notin Ended
  /\ next \notin {r.seq : r \in rows}
  /\ rows' = rows \cup {[seq |-> next, kind |-> Head(batch)]}
  /\ batch' = Tail(batch) /\ next' = next + 1
  /\ UNCHANGED <<running, emitted, queue, screen>>

\* a failure swallowed and the next event tried
BugStoreFails ==
  /\ batch # <<>> /\ running \notin Ended
  /\ batch' = Tail(batch)
  /\ UNCHANGED <<running, emitted, queue, screen, next, rows>>

\* the insert raises: what is left of the batch is lost with the exception
StoreFails ==
  /\ batch # <<>> /\ running \notin Ended
  /\ batch' = <<>> /\ running' = "raised"
  /\ UNCHANGED <<emitted, queue, screen, next, rows>>

AfterDrain == [stage \in {"drain", "unwind", "drain last"} |->
  CASE stage = "drain" -> "report" [] stage = "unwind" -> "raised" [] OTHER -> "returned"]

EndOfDrain ==
  /\ running \in DOMAIN AfterDrain /\ batch = <<>>
  /\ running' = AfterDrain[running]
  /\ UNCHANGED <<emitted, queue, screen, batch, next, rows>>

Die == running \notin Ended /\ running' = "dead" /\ UNCHANGED <<emitted, queue, screen, batch, next, rows>>

JournalNext ==
  \/ Begin \/ \E kind \in Kinds : Happen(kind)
  \/ Show \/ \E stage \in {"drain", "unwind", "drain last"} : StartDrain(stage)
  \/ Complete \/ Store \/ StoreFails \/ EndOfDrain \/ Die

JournalSpec == JournalInit /\ [][JournalNext]_journalVars

-----------------------------------------------------------------------------
JournalIsAPrefix ==
  /\ {r.seq : r \in rows} = 1..Cardinality(rows)
  /\ \A r \in rows : r.seq <= Len(emitted) /\ r.kind = emitted[r.seq]
  /\ running = "returned" => Cardinality(rows) = Len(emitted)

\* part is what whole has after its first n
Follows(part, whole, n) == \A i \in 1..Len(part) : part[i] = whole[n + i]

ScreenIsNewest == Follows(screen, emitted, Len(emitted) - Len(screen))

\* What is in the table is the beginning of what happened, numbered from 1
\* without a gap and in order, whatever insert failed and wherever the process
\* died; of a run that returned it is everything.  The display may miss events
\* but what waits for it is always the newest, in order (drop_oldest).
EventsKeepTheirOrder == JournalIsAPrefix /\ ScreenIsNewest

-----------------------------------------------------------------------------
(* The inductive invariant: of what was emitted the first n are rows, the  *)
(* next are in the batch, the last in the queue, until something fails.    *)

Written(n) == n <= Len(emitted) /\ rows = {[seq |-> i, kind |-> emitted[i]] : i \in 1..n}

Outstanding(n) ==
  /\ n + Len(batch) + Len(queue) = Len(emitted)
  /\ Follows(batch, emitted, n) /\ Follows(queue, emitted, n + Len(batch))
  /\ running \in DOMAIN AfterDrain => queue = <<>> /\ next = n + 1
  /\ running \in {"begin", "execute", "report", "completed", "returned"} => batch = <<>>
  /\ running = "returned" => queue = <<>>

JournalInv ==
  /\ JournalTypeOK /\ ScreenIsNewest /\ Len(screen) <= Len(emitted)
  /\ \E n \in Nat : Written(n) /\ (running \notin {"raised", "dead"} => Outstanding(n))
=============================================================================
