---------------------------- MODULE SearchProofs ----------------------------
(***************************************************************************)
(* Proofs about Search, for every number of candidates, slots, rounds and  *)
(* scores, in turn or in parallel: no worktree outlives its batch, what is *)
(* open at a time is bounded, an admission is kept and wins, and the cap   *)
(* on evaluations is passed by less than N.                                *)
(***************************************************************************)
EXTENDS Search, SumsProofs, FiniteSetTheorems, TLAPS

-----------------------------------------------------------------------------
(* The inductive invariant: the type, and one part for each thing promised *)

Pcs == {"waiting", "proposed", "allocate", "materialize", "running", "ran", "release",
        "emit", "done", "cancelled", "raised"}
Workers == [pc : Pcs, round : 0..MaxRounds, verdict : Verdicts \cup {None},
            exit : {"return", "raise", "cancel"}]
Audits == [admitted : SUBSET Candidates, stuck : SUBSET Candidates]

AtWork  == {"waiting", "proposed", "allocate", "materialize", "running", "ran"}
InATree == {"materialize", "running", "ran", "release"}
Judged  == {"emit", "done"}
Ended   == {"done", "cancelled", "raised"}

\* a worker carries a verdict from its last run to its outcome, and an admitted one is
\* written in both
Verdict(c) ==
  /\ work[c].pc \in AtWork => work[c].exit = "return"
  /\ work[c].pc = "ran" => work[c].verdict \in Verdicts
  /\ work[c].pc = "release" /\ work[c].exit = "return" => work[c].verdict \in Verdicts
  /\ work[c].pc \in Judged => outcomes[c] = work[c].verdict /\ work[c].verdict \in Verdicts
  /\ work[c].pc \notin Judged => outcomes[c] = None
  /\ c \in audit.admitted <=>
       /\ work[c].verdict = "admitted"
       /\ work[c].pc \in Judged \/ (work[c].pc = "release" /\ work[c].exit = "return")

\* the manager tracks the worktrees workers are in; git has those, and the stuck ones
Trees ==
  /\ \A c \in tracked : work[c].pc \in InATree
  /\ disk = tracked \cup audit.stuck
  /\ \A c \in audit.stuck : work[c].pc \in Judged \cup Ended

\* in turn: nobody starts before the one before it is done
Turns == ~Parallel =>
  /\ ~cancelled
  /\ \A c, d \in Candidates : d < c /\ work[c].pc # "waiting" => work[d].pc = "done"

\* in parallel: the limiter
Slots == Parallel => Cardinality(Holding) <= Concurrent

\* a cancellation has a reason
Cuts ==
  /\ \A c \in Candidates : work[c].pc = "cancelled" \/ work[c].exit = "cancel" => cancelled
  /\ cancelled => Raised \/ \E c \in Candidates : outcomes[c] = "admitted"

\* when the task has its answer, the workers have ended
Phases ==
  /\ Over => Settled
  /\ phase \in {"returned", "selected"} => ~Raised

\* whoever may still be judged once more is counted
Pending == {c \in Candidates : work[c].pc \in AtWork}
Capped == total + Cardinality(Pending) <= Cap + N - 1

Choice == phase = "selected" =>
  winner \in Candidates /\ (audit.admitted # {} => winner \in audit.admitted)

SearchInv ==
  /\ SearchTypeOK /\ Trees /\ Turns /\ Slots /\ Cuts /\ Phases /\ Capped /\ Choice
  /\ \A c \in Candidates : Verdict(c)

USE SearchAssumption

-----------------------------------------------------------------------------
(* select() names a candidate of its pool.                                 *)

\* Some candidate of a nonempty set has the greatest score of the set: the least upper bound
\* of the scores, which their sum shows to exist, is one of them.
LEMMA BestExists ==
  ASSUME NEW score \in [Candidates -> Nat], NEW S \in SUBSET Candidates, S # {}
  PROVE  \E c \in S : \A d \in S : score[d] <= score[c]
<1> DEFINE Bounds == {u \in Nat : \A c \in S : score[c] <= u}
<1>1. score \in [1..N -> Nat] /\ N \in Nat /\ N > 0
  BY DEF Candidates
<1>2. SumTo(score, N) \in Nat
  BY <1>1, SumToNat
<1>3. \A k \in 1..N : score[k] <= SumTo(score, N)
  BY <1>1, TermAtMostSum
<1>4. SumTo(score, N) \in Bounds
  BY <1>2, <1>3 DEF Candidates
<1>5. PICK u \in Bounds : \A v \in Bounds : u <= v
  BY <1>4, LeastNatural
<1>6. ASSUME \A c \in S : score[c] # u
      PROVE  FALSE
  <2>1. \A c \in S : score[c] \in Nat /\ score[c] < u
    BY <1>5, <1>6
  <2>2. u - 1 \in Nat
    BY <1>5, <2>1
  <2>3. u - 1 \in Bounds
    BY <1>5, <2>1, <2>2
  <2>4. QED
    BY <1>5, <2>3
<1>7. QED
  BY <1>5, <1>6

\* The answer of the ranking is in its pool, whatever the scores and the outcomes.
LEMMA RankedInPool ==
  ASSUME NEW score \in [Candidates -> Scores], NEW pool \in SUBSET Candidates, pool # {}
  PROVE  Ranked(score, pool) \in pool
<1> DEFINE scored == {c \in pool : outcomes[c] # None}
           best   == {c \in scored : \A d \in scored : score[d] <= score[c]}
           first(set) == CHOOSE c \in set : \A d \in set : c <= d
           Of == IF scored = {} THEN pool ELSE best
<1>1. Of # {} /\ Of \subseteq pool
  <2>1. CASE scored = {}
    BY <2>1
  <2>2. CASE scored # {}
    <3>1. score \in [Candidates -> Nat] /\ scored \in SUBSET Candidates
      OBVIOUS
    <3>2. \E c \in scored : \A d \in scored : score[d] <= score[c]
      BY <2>2, <3>1, BestExists
    <3>3. QED
      BY <2>2, <3>2
  <2>3. QED
    BY <2>1, <2>2
<1>2. Ranked(score, pool) = first(Of)
  BY DEF Ranked
<1> HIDE DEF Of
<1>3. Of \subseteq Nat
  BY <1>1 DEF Candidates
<1>4. \E m \in Of : \A k \in Of : m <= k
  BY <1>1, <1>3, LeastNatural
<1>5. first(Of) \in Of
  BY <1>4
<1>6. QED
  BY <1>1, <1>2, <1>5

LEMMA PoolIsNotEmpty == Pool # {} /\ Pool \subseteq Candidates
<1>1. 1 \in Candidates
  BY DEF Candidates
<1>2. QED
  BY <1>1 DEF Pool

-----------------------------------------------------------------------------
(* Types *)

\* A worker is a record, and stays one with a field changed.
LEMMA WorkerFields ==
  ASSUME SearchTypeOK, NEW c \in Candidates
  PROVE  work \in [Candidates -> Workers] /\ work[c] \in Workers
<1>1. work \in [Candidates -> Workers]
  BY DEF SearchTypeOK, Workers, Pcs
<1>2. QED
  BY <1>1

LEMMA FieldTypes ==
  ASSUME NEW w \in Workers, NEW pc \in Pcs, NEW exit \in {"return", "raise", "cancel"}
  PROVE  [w EXCEPT !.pc = pc] \in Workers /\ [w EXCEPT !.pc = pc, !.exit = exit] \in Workers
BY DEF Workers

\* What go, exit, run and collect make of a worker.
LEMMA GoType ==
  ASSUME SearchTypeOK, NEW c \in Candidates, NEW pc \in Pcs, Go(c, pc)
  PROVE  /\ work' \in [Candidates -> Workers]
         /\ work'[c].pc = pc /\ work'[c].verdict = work[c].verdict /\ work'[c].exit = work[c].exit
         /\ \A d \in Candidates \ {c} : work'[d] = work[d]
<1>1. work \in [Candidates -> Workers] /\ work[c] \in Workers
  BY WorkerFields
<1>2. [work[c] EXCEPT !.pc = pc] \in Workers
  BY <1>1, FieldTypes
<1>3. work' \in [Candidates -> Workers] /\ work'[c] = [work[c] EXCEPT !.pc = pc]
  BY <1>1, <1>2 DEF Go
<1>4. \A d \in Candidates \ {c} : work'[d] = work[d]
  BY <1>1 DEF Go
<1>5. QED
  BY <1>1, <1>3, <1>4 DEF Workers

LEMMA ExitType ==
  ASSUME SearchTypeOK, NEW c \in Candidates, NEW exit \in {"return", "raise", "cancel"}, Exit(c, exit)
  PROVE  /\ work' \in [Candidates -> Workers]
         /\ work'[c].pc = "release" /\ work'[c].verdict = work[c].verdict /\ work'[c].exit = exit
         /\ \A d \in Candidates \ {c} : work'[d] = work[d]
<1>1. work \in [Candidates -> Workers] /\ work[c] \in Workers
  BY WorkerFields
<1>2. [work[c] EXCEPT !.pc = "release", !.exit = exit] \in Workers
  BY <1>1, FieldTypes DEF Pcs
<1>3. work' \in [Candidates -> Workers] /\ work'[c] = [work[c] EXCEPT !.pc = "release", !.exit = exit]
  BY <1>1, <1>2 DEF Exit
<1>4. \A d \in Candidates \ {c} : work'[d] = work[d]
  BY <1>1 DEF Exit
<1>5. QED
  BY <1>1, <1>3, <1>4 DEF Workers

LEMMA RunType ==
  ASSUME SearchTypeOK, NEW c \in Candidates, NEW verdict \in Verdicts, Run(c, verdict)
  PROVE  /\ work' \in [Candidates -> Workers]
         /\ work'[c].pc = "ran" /\ work'[c].verdict = verdict /\ work'[c].exit = work[c].exit
         /\ \A d \in Candidates \ {c} : work'[d] = work[d]
<1>1. work \in [Candidates -> Workers] /\ work[c] \in Workers
  BY WorkerFields
<1>2. [work[c] EXCEPT !.pc = "ran", !.verdict = verdict] \in Workers
  BY <1>1 DEF Workers, Pcs
<1>3. /\ work' \in [Candidates -> Workers]
      /\ work'[c] = [work[c] EXCEPT !.pc = "ran", !.verdict = verdict]
      /\ \A d \in Candidates \ {c} : work'[d] = work[d]
  BY <1>1, <1>2 DEF Run
<1>4. QED
  BY <1>1, <1>3 DEF Workers

LEMMA CollectType ==
  ASSUME SearchTypeOK, NEW c \in Candidates, Collect(c)
  PROVE  /\ work' \in [Candidates -> Workers]
         /\ work'[c].exit = work[c].exit
         /\ Repairs(c) => work'[c].pc = "running" /\ work'[c].verdict = None
         /\ ~Repairs(c) => work'[c].pc = "release" /\ work'[c].verdict = work[c].verdict
         /\ \A d \in Candidates \ {c} : work'[d] = work[d]
<1>1. work \in [Candidates -> Workers] /\ work[c] \in Workers
  BY WorkerFields
<1>2. \A d \in Candidates \ {c} : work'[d] = work[d]
  BY <1>1 DEF Collect
<1>3. CASE Repairs(c)
  <2> DEFINE w == [work[c] EXCEPT !.pc = "running", !.round = work[c].round + 1, !.verdict = None]
  <2>1. work[c].round + 1 \in 0..MaxRounds
    BY <1>1, <1>3 DEF Repairs, Workers
  <2>2. w \in Workers
    BY <1>1, <2>1 DEF Workers, Pcs
  <2>3. w.pc = "running" /\ w.verdict = None /\ w.exit = work[c].exit
    BY <1>1 DEF Workers
  <2>4. work' = [work EXCEPT ![c] = w]
    BY <1>1, <1>3 DEF Collect
  <2> HIDE DEF w
  <2>5. QED
    BY <1>1, <1>2, <1>3, <2>2, <2>3, <2>4
<1>4. CASE ~Repairs(c)
  <2>1. [work[c] EXCEPT !.pc = "release"] \in Workers
    BY <1>1, FieldTypes DEF Pcs
  <2>2. work' \in [Candidates -> Workers] /\ work'[c] = [work[c] EXCEPT !.pc = "release"]
    BY <1>1, <1>4, <2>1 DEF Collect
  <2>3. QED
    BY <1>1, <1>2, <1>4, <2>2 DEF Workers
<1>5. QED
  BY <1>3, <1>4

LEMMA LeftType ==
  ASSUME SearchTypeOK, NEW c \in Candidates
  PROVE  Left(work[c].exit) \in {"emit", "cancelled", "raised"}
<1>1. work[c].exit \in {"return", "raise", "cancel"}
  BY WorkerFields DEF Workers
<1>2. QED
  BY <1>1 DEF Left

\* What each action makes of its worker.
Moves(c) ==
  /\ work \in [Candidates -> Workers] /\ work' \in [Candidates -> Workers]
  /\ \A d \in Candidates \ {c} : work'[d] = work[d]
  /\ UNCHANGED <<phase, winner>>

LEMMA WorkerMoves ==
  ASSUME SearchTypeOK, NEW c \in Candidates, Worker(c)
  PROVE  Moves(c)
<1>1. work \in [Candidates -> Workers]
  BY WorkerFields
<1>2. CASE Launch(c)
  <2>1. "proposed" \in Pcs BY DEF Pcs
  <2> QED BY <1>1, <1>2, <2>1, GoType DEF Launch, Moves
<1>3. CASE Enter(c)
  <2>1. "allocate" \in Pcs BY DEF Pcs
  <2> QED BY <1>1, <1>3, <2>1, GoType DEF Enter, Moves
<1>4. CASE AllocateTree(c)
  <2>1. "materialize" \in Pcs BY DEF Pcs
  <2> QED BY <1>1, <1>4, <2>1, GoType, ExitType DEF AllocateTree, Moves
<1>5. CASE Materialize(c)
  <2>1. "running" \in Pcs BY DEF Pcs
  <2> QED BY <1>1, <1>5, <2>1, GoType DEF Materialize, Moves
<1>6. ASSUME NEW verdict \in Verdicts, Run(c, verdict)
      PROVE  Moves(c)
  <2>1. UNCHANGED <<phase, winner>> BY <1>6 DEF Run
  <2> QED BY <1>1, <1>6, <2>1, RunType DEF Moves
<1>7. CASE Fail(c)
  BY <1>1, <1>7, ExitType DEF Fail, Moves
<1>8. CASE Collect(c)
  <2>1. UNCHANGED <<phase, winner>> BY <1>8 DEF Collect
  <2> QED BY <1>1, <1>8, <2>1, CollectType DEF Moves
<1>9. CASE Cancel(c)
  <2>1. "cancelled" \in Pcs BY DEF Pcs
  <2> QED BY <1>1, <1>9, <2>1, GoType, ExitType DEF Cancel, Moves
<1>10. CASE Release(c)
  <2>1. Left(work[c].exit) \in Pcs BY LeftType DEF Pcs
  <2> QED BY <1>1, <1>10, <2>1, GoType DEF Release, Moves
<1>11. CASE Finish(c)
  <2>1. "done" \in Pcs BY DEF Pcs
  <2> QED BY <1>1, <1>11, <2>1, GoType DEF Finish, Moves
<1> QED BY <1>2, <1>3, <1>4, <1>5, <1>6, <1>7, <1>8, <1>9, <1>10, <1>11 DEF Worker

\* The same, read off for each action.
Step(c, from, to) ==
  /\ work[c].pc = from /\ work'[c].pc = to
  /\ work'[c].verdict = work[c].verdict /\ work'[c].exit = work[c].exit
Aborts(c, exit) ==
  /\ work'[c].pc = "release"
  /\ work'[c].verdict = work[c].verdict /\ work'[c].exit = exit

LEMMA PlainSteps ==
  ASSUME SearchTypeOK, NEW c \in Candidates
  PROVE  /\ Launch(c) => Step(c, "waiting", "proposed")
         /\ Enter(c) => Step(c, "proposed", "allocate")
         /\ Materialize(c) => Step(c, "materialize", "running")
         /\ Finish(c) => Step(c, "emit", "done")
         /\ Release(c) => Step(c, "release", Left(work[c].exit))
<1>1. {"proposed", "allocate", "running", "done"} \subseteq Pcs
  BY DEF Pcs
<1>2. Left(work[c].exit) \in Pcs
  BY LeftType DEF Pcs
<1>3. Launch(c) => Step(c, "waiting", "proposed")
  BY <1>1, GoType DEF Launch, Step
<1>4. Enter(c) => Step(c, "proposed", "allocate")
  BY <1>1, GoType DEF Enter, Step
<1>5. Materialize(c) => Step(c, "materialize", "running")
  BY <1>1, GoType DEF Materialize, Step
<1>6. Finish(c) => Step(c, "emit", "done")
  BY <1>1, GoType DEF Finish, Step
<1>7. Release(c) => Step(c, "release", Left(work[c].exit))
  BY <1>2, GoType DEF Release, Step
<1>8. QED
  BY <1>3, <1>4, <1>5, <1>6, <1>7

LEMMA OtherSteps ==
  ASSUME SearchTypeOK, NEW c \in Candidates
  PROVE  /\ AllocateTree(c) =>
              \/ Step(c, "allocate", "materialize") /\ Allocate(c)
              \/ work[c].pc = "allocate" /\ Aborts(c, "raise") /\ UNCHANGED <<tracked, disk>>
         /\ Fail(c) => work[c].pc \in {"materialize", "running", "ran"} /\ Aborts(c, "raise")
         /\ Cancel(c) =>
              \/ Step(c, "waiting", "cancelled")
              \/ Step(c, "proposed", "cancelled")
              \/ work[c].pc \in {"materialize", "running", "ran"} /\ Aborts(c, "cancel")
         /\ Collect(c) => Step(c, "ran", "release") \/
              (work[c].pc = "ran" /\ work'[c].pc = "running" /\ work'[c].exit = work[c].exit
               /\ work'[c].verdict = None /\ Repairs(c))
<1>1. {"materialize", "cancelled"} \subseteq Pcs
  BY DEF Pcs
<1>2. AllocateTree(c) =>
        \/ Step(c, "allocate", "materialize") /\ Allocate(c)
        \/ work[c].pc = "allocate" /\ Aborts(c, "raise") /\ UNCHANGED <<tracked, disk>>
  BY <1>1, GoType, ExitType DEF AllocateTree, AllocateFails, Step, Aborts
<1>3. Fail(c) => work[c].pc \in {"materialize", "running", "ran"} /\ Aborts(c, "raise")
  BY ExitType DEF Fail, Aborts
<1>4. Cancel(c) =>
        \/ Step(c, "waiting", "cancelled")
        \/ Step(c, "proposed", "cancelled")
        \/ work[c].pc \in {"materialize", "running", "ran"} /\ Aborts(c, "cancel")
  BY <1>1, GoType, ExitType DEF Cancel, Step, Aborts
<1>5. ASSUME Collect(c)
      PROVE  \/ Step(c, "ran", "release")
             \/ (work[c].pc = "ran" /\ work'[c].pc = "running" /\ work'[c].exit = work[c].exit
                 /\ work'[c].verdict = None /\ Repairs(c))
  <2>1. work[c].pc = "ran"
    BY <1>5 DEF Collect
  <2>2. QED
    BY <1>5, <2>1, CollectType DEF Step
<1>6. QED
  BY <1>2, <1>3, <1>4, <1>5

\* What every action of a worker has in common.
LEMMA WorkerShape ==
  ASSUME SearchTypeOK, NEW c \in Candidates, Worker(c)
  PROVE  /\ Moves(c) /\ work[c].pc \in Pcs /\ work'[c].pc \in Pcs
         /\ work[c].pc \notin Ended /\ work'[c].pc # "waiting"
         /\ work[c].pc = "waiting" => Launch(c) \/ (cancelled /\ work'[c].pc = "cancelled")
         /\ work'[c].pc \in AtWork => work[c].pc \in AtWork
         /\ work'[c].pc \in InATree \/ work[c].pc \in AtWork \cup {"release", "emit"}
<1> USE DEF Step, Aborts, Ended, AtWork, InATree
<1>1. Moves(c)
  BY WorkerMoves
<1>2. work[c].pc \in Pcs /\ work'[c].pc \in Pcs
  BY <1>1 DEF Moves, Workers
<1> DEFINE Shape ==
  /\ work[c].pc \notin Ended /\ work'[c].pc # "waiting"
  /\ work[c].pc = "waiting" => Launch(c) \/ (cancelled /\ work'[c].pc = "cancelled")
  /\ work'[c].pc \in AtWork => work[c].pc \in AtWork
  /\ work'[c].pc \in InATree \/ work[c].pc \in AtWork \cup {"release", "emit"}
<1> SUFFICES Shape
  BY <1>1, <1>2
<1>3. ASSUME Launch(c) \/ Enter(c) \/ Materialize(c) \/ Finish(c)
      PROVE  Shape
  BY <1>3, PlainSteps
<1>4. CASE Release(c)
  BY <1>4, PlainSteps, LeftType
<1>5. CASE AllocateTree(c)
  BY <1>5, OtherSteps
<1>6. CASE Fail(c)
  BY <1>6, OtherSteps
<1>7. CASE Cancel(c)
  <2>1. cancelled BY <1>7 DEF Cancel
  <2> QED BY <1>7, <2>1, OtherSteps
<1>8. CASE Collect(c)
  BY <1>8, OtherSteps
<1>9. ASSUME NEW verdict \in Verdicts, Run(c, verdict)
      PROVE  Shape
  <2>1. work[c].pc = "running" /\ work'[c].pc = "ran"
    BY <1>9, RunType DEF Run
  <2>2. QED
    BY <2>1
<1> QED BY <1>3, <1>4, <1>5, <1>6, <1>7, <1>8, <1>9 DEF Worker

\* The type, the part of the workers aside.
Rest ==
  /\ outcomes \in [Candidates -> Verdicts \cup {None}] /\ total \in Nat /\ cancelled \in BOOLEAN
  /\ audit \in Audits /\ tracked \subseteq Candidates /\ disk \subseteq Candidates

LEMMA TypeParts ==
  SearchTypeOK <=>
    /\ phase \in {"idle", "proposing", "returned", "raised", "selected"} /\ winner \in 0..N
    /\ work \in [Candidates -> Workers] /\ Rest
BY DEF SearchTypeOK, Workers, Pcs, Rest, Audits

LEMMA TypePartsNext ==
  SearchTypeOK' <=>
    /\ phase' \in {"idle", "proposing", "returned", "raised", "selected"} /\ winner' \in 0..N
    /\ work' \in [Candidates -> Workers] /\ Rest'
BY DEF SearchTypeOK, Workers, Pcs, Rest, Audits

LEMMA TypeInit == Init => SearchTypeOK
<1>1. ASSUME Init PROVE SearchTypeOK
  <2>1. Idle \in Workers
    BY DEF Idle, Workers, Pcs
  <2>2. work \in [Candidates -> Workers] /\ outcomes \in [Candidates -> Verdicts \cup {None}]
    BY <1>1, <2>1 DEF Init
  <2>3. audit \in Audits
    BY <1>1 DEF Init, Audits
  <2>4. winner \in 0..N /\ total \in Nat
    BY <1>1 DEF Init
  <2>5. phase = "idle" /\ cancelled \in BOOLEAN /\ tracked = {} /\ disk = {}
    BY <1>1 DEF Init, WorktreesInit
  <2>6. QED
    BY <2>2, <2>3, <2>4, <2>5, TypeParts DEF Rest
<1>2. QED
  BY <1>1

LEMMA RestOfWorker ==
  ASSUME SearchTypeOK, NEW c \in Candidates, Worker(c), Verdict(c)
  PROVE  Rest'
<1>1. Rest
  BY TypeParts
<1>2. CASE Launch(c) \/ Enter(c) \/ Materialize(c) \/ Fail(c) \/ Cancel(c)
  BY <1>1, <1>2 DEF Launch, Enter, Materialize, Fail, Cancel, Rest
<1>3. CASE AllocateTree(c)
  BY <1>1, <1>3 DEF AllocateTree, Allocate, AllocateFails, Rest
<1>4. ASSUME NEW verdict \in Verdicts, Run(c, verdict)
      PROVE  Rest'
  <2>1. audit' \in Audits
    BY <1>1, <1>4 DEF Run, Rest, Audits
  <2>2. QED
    BY <1>1, <1>4, <2>1 DEF Run, Rest
<1>5. CASE Collect(c)
  <2>1. audit' \in Audits /\ total' \in Nat
    BY <1>1, <1>5 DEF Collect, Rest, Audits
  <2>2. QED
    BY <1>1, <1>5, <2>1 DEF Collect, Rest
<1>6. CASE Release(c)
  <2>1. work[c].exit = "return" => work[c].verdict \in Verdicts
    BY <1>6 DEF Release, Verdict
  <2>2. outcomes' \in [Candidates -> Verdicts \cup {None}]
    BY <1>1, <1>6, <2>1 DEF Release, Rest
  <2>3. audit' \in Audits
    BY <1>1, <1>6 DEF Release, Rest, Audits
  <2>4. tracked' \subseteq Candidates /\ disk' \subseteq Candidates
    BY <1>1, <1>6 DEF Release, Remove, RemoveFails, Rest
  <2>5. cancelled' \in BOOLEAN /\ total' \in Nat
    BY <1>1, <1>6 DEF Release, Rest
  <2>6. QED
    BY <2>2, <2>3, <2>4, <2>5 DEF Rest
<1>7. CASE Finish(c)
  BY <1>1, <1>7 DEF Finish, Rest
<1> QED BY <1>2, <1>3, <1>4, <1>5, <1>6, <1>7 DEF Worker

LEMMA TypeStep ==
  ASSUME SearchTypeOK, \A c \in Candidates : Verdict(c), [Next]_vars
  PROVE  SearchTypeOK'
<1> USE TypeParts
<1>1. CASE Propose
  BY <1>1, TypePartsNext DEF Propose, Rest
<1>2. ASSUME NEW c \in Candidates, Worker(c)
      PROVE  SearchTypeOK'
  <2>1. Rest'
    BY <1>2, RestOfWorker
  <2>2. QED
    BY <1>2, <2>1, WorkerMoves, TypePartsNext DEF Moves
<1>3. CASE Return
  BY <1>3, TypePartsNext DEF Return, Rest
<1>4. ASSUME NEW score \in [Candidates -> Scores], Select(score)
      PROVE  SearchTypeOK'
  <2>1. winner' \in 0..N
    <3>1. Pool \in SUBSET Candidates /\ Pool # {}
      BY PoolIsNotEmpty
    <3>2. Ranked(score, Pool) \in Pool
      BY <3>1, RankedInPool
    <3>3. winner' \in Candidates
      BY <1>4, <3>1, <3>2 DEF Select
    <3>4. QED
      BY <3>3 DEF Candidates
  <2>2. QED
    BY <1>4, <2>1, TypePartsNext DEF Select, Rest
<1>5. CASE UNCHANGED vars
  BY <1>5, TypePartsNext DEF vars, Rest
<1> QED BY <1>1, <1>2, <1>3, <1>4, <1>5 DEF Next

-----------------------------------------------------------------------------
(* The parts, over a step of a worker                                      *)

LEMMA VerdictStep ==
  ASSUME SearchTypeOK, NEW c \in Candidates, Worker(c), NEW d \in Candidates, Verdict(d)
  PROVE  Verdict(d)'
<1> USE DEF Verdict, Step, Aborts, AtWork, Judged
<1>1. Moves(c) /\ Rest
  BY WorkerMoves, TypeParts
<1>2. CASE d # c
  <2>1. work'[d] = work[d]
    BY <1>1, <1>2 DEF Moves
  <2>2. outcomes'[d] = outcomes[d] /\ (d \in audit'.admitted <=> d \in audit.admitted)
    BY <1>1, <1>2 DEF Worker, Launch, Enter, Materialize, AllocateTree, Run, Fail, Collect, Cancel,
                      Release, Finish, Rest, Audits
  <2>3. QED
    BY <2>1, <2>2
<1>3. CASE d = c
  <2>1. ASSUME Launch(c) \/ Enter(c) \/ Materialize(c) \/ Finish(c)
        PROVE  Verdict(c)'
    <3>1. UNCHANGED <<outcomes, audit>>
      BY <2>1 DEF Launch, Enter, Materialize, Finish
    <3>2. QED
      BY <1>3, <2>1, <3>1, PlainSteps
  <2>2. ASSUME AllocateTree(c) \/ Fail(c) \/ Cancel(c)
        PROVE  Verdict(c)'
    <3>1. UNCHANGED <<outcomes, audit>>
      BY <2>2 DEF AllocateTree, Fail, Cancel
    <3>2. QED
      BY <1>3, <2>2, <3>1, OtherSteps
  <2>3. ASSUME NEW verdict \in Verdicts, Run(c, verdict)
        PROVE  Verdict(c)'
    <3>1. audit'.admitted = audit.admitted /\ outcomes' = outcomes /\ work[c].pc = "running"
      BY <1>1, <2>3 DEF Run, Rest, Audits
    <3>2. work'[c].pc = "ran" /\ work'[c].verdict = verdict /\ work'[c].exit = work[c].exit
      BY <2>3, RunType
    <3>3. QED
      BY <1>3, <3>1, <3>2
  <2>4. ASSUME Collect(c)
        PROVE  Verdict(c)'
    <3>1. outcomes' = outcomes /\ work[c].pc = "ran"
      BY <2>4 DEF Collect
    <3>2. c \in audit'.admitted <=> work[c].verdict = "admitted"
      BY <1>1, <1>3, <2>4, <3>1 DEF Collect, Rest, Audits
    <3>3. Repairs(c) => work[c].verdict # "admitted"
      BY DEF Repairs
    <3>4. QED
      BY <1>3, <2>4, <3>1, <3>2, <3>3, OtherSteps DEF None, Verdicts
  <2>5. ASSUME Release(c)
        PROVE  Verdict(c)'
    <3>1. work[c].pc = "release" /\ Step(c, "release", Left(work[c].exit))
      BY <2>5, PlainSteps
    <3>2. audit'.admitted = audit.admitted
      BY <1>1, <2>5 DEF Release, Rest, Audits
    <3>3. outcomes'[c] = IF work[c].exit = "return" THEN work[c].verdict ELSE outcomes[c]
      BY <1>1, <2>5 DEF Release, Rest
    <3>4. work[c].exit \in {"return", "raise", "cancel"}
      BY <1>1 DEF Moves, Workers
    <3>5. QED
      BY <1>3, <3>1, <3>2, <3>3, <3>4 DEF Left
  <2>6. QED
    BY <1>3, <2>1, <2>2, <2>3, <2>4, <2>5 DEF Worker
<1> QED BY <1>2, <1>3

LEMMA TreesStep ==
  ASSUME SearchTypeOK, NEW c \in Candidates, Worker(c), Trees
  PROVE  Trees'
<1> USE DEF Trees, Step, Aborts, InATree, Judged, Ended
<1>1. Moves(c) /\ Rest /\ (\A d \in Candidates \ {c} : work'[d] = work[d])
  BY WorkerMoves, TypeParts DEF Moves
<1>2. tracked \subseteq Candidates /\ audit.stuck \subseteq Candidates
  BY <1>1 DEF Rest, Audits
<1>3. ASSUME UNCHANGED <<tracked, disk>>, audit'.stuck = audit.stuck,
             work[c].pc \in InATree => work'[c].pc \in InATree,
             work[c].pc \in Judged \cup Ended => work'[c].pc \in Judged \cup Ended
      PROVE  Trees'
  BY <1>1, <1>2, <1>3
<1>4. CASE Launch(c) \/ Enter(c) \/ Materialize(c) \/ Finish(c)
  <2>1. UNCHANGED <<tracked, disk, audit>>
    BY <1>4 DEF Launch, Enter, Materialize, Finish
  <2>2. QED
    BY <1>3, <1>4, <2>1, PlainSteps
<1>5. CASE Fail(c) \/ Cancel(c)
  <2>1. UNCHANGED <<tracked, disk, audit>>
    BY <1>5 DEF Fail, Cancel
  <2>2. QED
    BY <1>3, <1>5, <2>1, OtherSteps
<1>6. ASSUME NEW verdict \in Verdicts, Run(c, verdict)
      PROVE  Trees'
  <2>1. UNCHANGED <<tracked, disk>> /\ audit'.stuck = audit.stuck /\ work[c].pc = "running"
    BY <1>1, <1>6 DEF Run, Rest, Audits
  <2>2. work'[c].pc = "ran"
    BY <1>6, RunType
  <2>3. QED
    BY <1>3, <2>1, <2>2
<1>7. CASE Collect(c)
  <2>1. UNCHANGED <<tracked, disk>> /\ audit'.stuck = audit.stuck
    BY <1>1, <1>7 DEF Collect, Rest, Audits
  <2>2. QED
    BY <1>3, <1>7, <2>1, OtherSteps
<1>8. CASE AllocateTree(c)
  <2>1. audit' = audit
    BY <1>8 DEF AllocateTree
  <2>2. CASE Step(c, "allocate", "materialize") /\ Allocate(c)
    BY <1>1, <1>2, <2>1, <2>2 DEF Allocate
  <2>3. CASE work[c].pc = "allocate" /\ Aborts(c, "raise") /\ UNCHANGED <<tracked, disk>>
    BY <1>3, <2>1, <2>3
  <2>4. QED
    BY <1>8, <2>2, <2>3, OtherSteps
<1>9. CASE Release(c)
  <2>1. work[c].pc = "release" /\ work'[c].pc \in Judged \cup Ended
    BY <1>9, PlainSteps, LeftType
  <2>2. c \notin audit.stuck
    BY <2>1
  <2>3. \/ Remove(c) /\ audit' = audit
        \/ RemoveFails(c) /\ audit'.stuck = audit.stuck \cup {c}
    BY <1>1, <1>9 DEF Release, Rest, Audits
  <2>4. QED
    BY <1>1, <1>2, <2>1, <2>2, <2>3 DEF Remove, RemoveFails
<1> QED BY <1>4, <1>5, <1>6, <1>7, <1>8, <1>9 DEF Worker

LEMMA TurnsStep ==
  ASSUME SearchTypeOK, NEW c \in Candidates, Worker(c), Turns
  PROVE  Turns'
<1> SUFFICES ASSUME ~Parallel
             PROVE  /\ ~cancelled'
                    /\ \A e, d \in Candidates : d < e /\ work'[e].pc # "waiting" => work'[d].pc = "done"
  BY DEF Turns
<1>1. ~cancelled'
  BY DEF Turns, Worker, Launch, Enter, AllocateTree, Materialize, Run, Fail, Collect, Cancel, Release,
         Finish
<1>2. ASSUME NEW e \in Candidates, NEW d \in Candidates, d < e, work'[e].pc # "waiting"
      PROVE  work'[d].pc = "done"
  <2>1. Moves(c) /\ work[c].pc \notin Ended
    BY WorkerShape
  <2>2. e = c => work[d].pc = "done"
    <3>1. CASE Launch(c)
      BY <1>2, <3>1 DEF Launch
    <3>2. CASE ~Launch(c)
      BY <1>2, <3>2, WorkerShape DEF Turns
    <3>3. QED
      BY <3>1, <3>2
  <2>3. e # c => work[d].pc = "done"
    BY <1>2, <2>1 DEF Turns, Moves
  <2>4. d # c
    BY <2>1, <2>2, <2>3 DEF Ended
  <2>5. QED
    BY <2>1, <2>2, <2>3, <2>4 DEF Moves
<1> QED BY <1>1, <1>2

LEMMA CandidatesFinite == IsFiniteSet(Candidates) /\ Cardinality(Candidates) = N
<1>1. IsFiniteSet(1..N) /\ Cardinality(1..N) = N
  BY FS_Interval
<1>2. QED
  BY <1>1 DEF Candidates

LEMMA SlotsStep ==
  ASSUME SearchTypeOK, NEW c \in Candidates, Worker(c), Slots
  PROVE  Slots'
<1> SUFFICES ASSUME Parallel
             PROVE  Cardinality(Holding') <= Concurrent
  BY DEF Slots
<1>1. Moves(c)
  BY WorkerShape
<1>2. Holding \subseteq Candidates /\ Holding' \subseteq Candidates
  BY DEF Holding
<1>3. IsFiniteSet(Holding) /\ Cardinality(Holding) \in Nat
  BY <1>2, CandidatesFinite, FS_Subset, FS_CardinalityType
<1>4. CASE Launch(c)
  <2>1. Cardinality(Holding) < Concurrent
    BY <1>4 DEF Launch
  <2>2. Holding' \subseteq Holding \cup {c} /\ c \notin Holding
    BY <1>1, <1>4, PlainSteps DEF Holding, Moves, Step
  <2>3. IsFiniteSet(Holding \cup {c}) /\ Cardinality(Holding \cup {c}) = Cardinality(Holding) + 1
    BY <1>3, <2>2, FS_AddElement
  <2>4. Cardinality(Holding') <= Cardinality(Holding \cup {c}) /\ Cardinality(Holding') \in Nat
    BY <2>2, <2>3, FS_Subset, FS_CardinalityType
  <2>5. QED
    BY <1>3, <2>1, <2>3, <2>4
<1>5. CASE ~Launch(c)
  <2>1. c \in Holding' => c \in Holding
    BY <1>5, WorkerShape DEF Holding, Ended
  <2>2. Holding' \subseteq Holding
    BY <1>1, <1>2, <2>1 DEF Holding, Moves
  <2>3. Cardinality(Holding') <= Cardinality(Holding) /\ Cardinality(Holding') \in Nat
    BY <1>3, <2>2, FS_Subset, FS_CardinalityType
  <2>4. QED
    BY <1>3, <2>3 DEF Slots
<1> QED BY <1>4, <1>5

LEMMA CutsStep ==
  ASSUME SearchTypeOK, NEW c \in Candidates, Worker(c), Verdict(c), Cuts
  PROVE  Cuts'
<1>1. Moves(c) /\ work[c].pc \notin Ended /\ Rest
  BY WorkerShape, TypeParts
<1>2. cancelled => cancelled'
  BY DEF Worker, Launch, Enter, AllocateTree, Materialize, Run, Fail, Collect, Cancel, Release, Finish
<1>3. work'[c].pc = "cancelled" \/ work'[c].exit = "cancel" => cancelled'
  <2> USE DEF Step, Aborts, Ended
  <2>1. CASE Launch(c) \/ Enter(c) \/ Materialize(c) \/ Finish(c)
    BY <1>2, <2>1, PlainSteps DEF Cuts
  <2>2. CASE AllocateTree(c) \/ Fail(c) \/ Collect(c)
    BY <1>2, <2>2, OtherSteps DEF Cuts
  <2>3. ASSUME NEW verdict \in Verdicts, Run(c, verdict)
        PROVE  work'[c].pc = "cancelled" \/ work'[c].exit = "cancel" => cancelled'
    BY <1>2, <2>3, RunType DEF Cuts
  <2>4. CASE Cancel(c)
    BY <1>2, <2>4 DEF Cancel
  <2>5. CASE Release(c)
    <3>1. work[c].exit \in {"return", "raise", "cancel"}
      BY <1>1 DEF Moves, Workers
    <3>2. work'[c].pc = "cancelled" => work[c].exit = "cancel"
      BY <2>5, <3>1, PlainSteps DEF Left
    <3>3. QED
      BY <1>2, <2>5, <3>2, PlainSteps DEF Cuts
  <2> QED BY <2>1, <2>2, <2>3, <2>4, <2>5 DEF Worker
<1>4. \A d \in Candidates : work'[d].pc = "cancelled" \/ work'[d].exit = "cancel" => cancelled'
  BY <1>1, <1>2, <1>3 DEF Cuts, Moves
<1>5. Raised => Raised'
  BY <1>1 DEF Raised, Ended, Moves
<1>6. ASSUME NEW d \in Candidates, outcomes[d] = "admitted"
      PROVE  outcomes'[d] = "admitted"
  <2>1. CASE Release(c)
    <3>1. outcomes[c] = None
      BY <2>1 DEF Release, Verdict, Judged
    <3>2. d # c
      BY <1>6, <3>1 DEF None
    <3>3. QED
      BY <1>1, <1>6, <2>1, <3>2 DEF Release, Rest
  <2>2. CASE ~Release(c)
    BY <1>6, <2>2 DEF Worker, Launch, Enter, AllocateTree, Materialize, Run, Fail, Collect, Cancel, Finish
  <2> QED BY <2>1, <2>2
<1>7. ASSUME cancelled'
      PROVE  Raised' \/ \E d \in Candidates : outcomes'[d] = "admitted"
  <2>1. CASE cancelled
    BY <1>5, <1>6, <2>1 DEF Cuts
  <2>2. CASE ~cancelled /\ Release(c)
    <3>1. work[c].exit = "raise"
      BY <1>7, <2>2 DEF Release
    <3>2. work'[c].pc = "raised"
      BY <2>2, <3>1, PlainSteps DEF Step, Left
    <3>3. QED
      BY <3>2 DEF Raised
  <2>3. CASE ~cancelled /\ Finish(c)
    <3>1. outcomes[c] = "admitted"
      BY <1>7, <2>3 DEF Finish
    <3>2. QED
      BY <1>6, <3>1
  <2>4. CASE ~cancelled /\ ~Release(c) /\ ~Finish(c)
    BY <1>7, <2>4 DEF Worker, Launch, Enter, AllocateTree, Materialize, Run, Fail, Collect, Cancel
  <2> QED BY <2>1, <2>2, <2>3, <2>4
<1> QED BY <1>4, <1>7 DEF Cuts

\* Nobody works once the task has its answer.
LEMMA NobodyWorksAfter ==
  ASSUME SearchTypeOK, NEW c \in Candidates, Worker(c), Turns, Phases
  PROVE  ~Over
<1> SUFFICES ASSUME Over PROVE FALSE
  OBVIOUS
<1>1. work[c].pc \notin Ended
  BY WorkerShape
<1>2. PICK r \in Candidates : ~Parallel /\ work[r].pc = "raised"
  BY <1>1 DEF Phases, Settled, Raised, Ended
<1>3. CASE work[c].pc = "waiting"
  <2>1. Launch(c) \/ cancelled
    BY <1>3, WorkerShape
  <2>2. QED
    BY <1>2, <2>1 DEF Launch, Over, Turns
<1>4. CASE work[c].pc # "waiting"
  <2>1. r # c /\ work[r].pc # "waiting" /\ work[r].pc # "done" /\ work[c].pc # "done"
    BY <1>1, <1>2 DEF Ended
  <2>2. r < c \/ c < r
    BY <2>1 DEF Candidates
  <2>3. QED
    BY <1>2, <1>4, <2>1, <2>2 DEF Turns
<1> QED BY <1>3, <1>4

LEMMA CappedStep ==
  ASSUME SearchTypeOK, NEW c \in Candidates, Worker(c), Capped
  PROVE  Capped'
<1>1. Moves(c) /\ Rest
  BY WorkerShape, TypeParts
<1>2. Pending \subseteq Candidates /\ Pending' \subseteq Pending
  BY <1>1, WorkerShape DEF Pending, Moves
<1>3. IsFiniteSet(Pending) /\ Cardinality(Pending) \in Nat
  BY <1>2, CandidatesFinite, FS_Subset, FS_CardinalityType
<1>4. IsFiniteSet(Pending') /\ Cardinality(Pending') \in Nat /\ Cardinality(Pending') <= Cardinality(Pending)
  BY <1>2, <1>3, FS_Subset, FS_CardinalityType
<1>5. total \in Nat
  BY <1>1 DEF Rest
<1>6. CASE ~Collect(c)
  <2>1. total' = total
    BY <1>6 DEF Worker, Launch, Enter, AllocateTree, Materialize, Run, Fail, Cancel, Release, Finish
  <2>2. QED
    BY <1>3, <1>4, <1>5, <2>1 DEF Capped
<1>7. CASE Collect(c) /\ Repairs(c)
  <2>1. total' = total + 1 /\ total + 1 < Cap
    BY <1>7 DEF Collect, Repairs
  <2>2. Cardinality(Pending') <= N
    BY <1>2, <1>4, CandidatesFinite, FS_Subset
  <2>3. QED
    BY <1>4, <1>5, <2>1, <2>2 DEF Capped
<1>8. CASE Collect(c) /\ ~Repairs(c)
  <2>1. total' = total + 1
    BY <1>8 DEF Collect
  <2>2. work[c].pc = "ran" /\ work'[c].pc = "release"
    BY <1>8, CollectType DEF Collect
  <2>3. c \in Pending /\ Pending' = Pending \ {c}
    BY <1>1, <1>2, <2>2 DEF Pending, AtWork, Moves
  <2>4. Cardinality(Pending') = Cardinality(Pending) - 1
    BY <1>3, <2>3, FS_RemoveElement
  <2>5. QED
    BY <1>3, <1>4, <1>5, <2>1, <2>4 DEF Capped
<1> QED BY <1>6, <1>7, <1>8

-----------------------------------------------------------------------------
(* The steps of the task, and the theorems.                                *)

\* Where a batch returned, every candidate is done or was cancelled.
LEMMA ReturnedWorkers ==
  ASSUME SearchTypeOK, Turns, Settled, ~Raised, NEW c \in Candidates
  PROVE  work[c].pc \in {"done", "cancelled"}
BY DEF Settled, Raised

\* What does not move the workers keeps their parts.
LEMMA FrameStep ==
  ASSUME SearchInv, UNCHANGED <<work, outcomes, total, cancelled, audit, tracked, disk>>
  PROVE  /\ Trees' /\ Turns' /\ Slots' /\ Cuts' /\ Capped' /\ (\A c \in Candidates : Verdict(c)')
         /\ Settled' = Settled /\ Raised' = Raised
<1>1. Trees' /\ Turns' /\ (\A c \in Candidates : Verdict(c)')
  BY DEF SearchInv, Trees, Turns, Verdict
<1>2. Holding' = Holding /\ Pending' = Pending /\ Settled' = Settled /\ Raised' = Raised
  BY DEF Holding, Pending, Settled, Raised
<1>3. Slots' /\ Capped'
  BY <1>2 DEF SearchInv, Slots, Capped
<1>4. Cuts'
  BY <1>2 DEF SearchInv, Cuts
<1> QED BY <1>1, <1>2, <1>3, <1>4

LEMMA SelectChoice ==
  ASSUME SearchInv, NEW score \in [Candidates -> Scores], Select(score)
  PROVE  Choice'
<1>1. /\ audit' = audit /\ winner' = Ranked(score, Pool)
      /\ Settled /\ ~Raised
  BY DEF SearchInv, Phases, Over, Select
<1>2. Pool \in SUBSET Candidates /\ Pool # {}
  BY PoolIsNotEmpty
<1>3. winner' \in Pool
  BY <1>1, <1>2, RankedInPool
<1>4. ASSUME NEW c \in audit.admitted
      PROVE  outcomes[winner'] = "admitted"
  <2>1. c \in Candidates
    BY TypeParts DEF SearchInv, Rest, Audits
  <2>2. work[c].pc \in {"done", "cancelled"}
    BY <1>1, <2>1, ReturnedWorkers DEF SearchInv
  <2>3. outcomes[c] = "admitted"
    BY <2>1, <2>2 DEF SearchInv, Verdict, Judged
  <2>4. QED
    BY <1>3, <2>1, <2>3 DEF Pool
<1>5. ASSUME outcomes[winner'] = "admitted"
      PROVE  winner' \in audit.admitted
  <2>1. winner' \in Candidates
    BY <1>2, <1>3
  <2>2. QED
    BY <1>5, <2>1 DEF SearchInv, Verdict, Judged, None
<1>6. winner' \in Candidates
  BY <1>2, <1>3
<1> QED BY <1>1, <1>4, <1>5, <1>6 DEF Choice

LEMMA InvInit == Init => SearchInv
<1> SUFFICES ASSUME Init PROVE SearchInv
  OBVIOUS
<1>1. SearchTypeOK
  BY TypeInit
<1>2. \A c \in Candidates : work[c] = Idle /\ work[c].pc = "waiting" /\ work[c].exit = "return"
                            /\ work[c].verdict = None
  BY DEF Init, Idle
<1>3. \A c \in Candidates : Verdict(c)
  BY <1>2 DEF Init, Verdict, AtWork, Judged, None
<1>4. Trees /\ Turns /\ Cuts
  BY <1>2 DEF Init, WorktreesInit, Trees, Turns, Cuts
<1>5. Slots
  <2>1. Holding = {}
    BY <1>2 DEF Holding
  <2>2. QED
    BY <2>1, FS_EmptySet DEF Slots
<1>6. Phases /\ Choice
  BY DEF Init, Phases, Over, Choice
<1>7. Capped
  <2>1. Pending = Candidates
    BY <1>2 DEF Pending, AtWork
  <2>2. total = 0
    BY DEF Init
  <2>3. QED
    BY <2>1, <2>2, CandidatesFinite DEF Capped
<1> QED BY <1>1, <1>3, <1>4, <1>5, <1>6, <1>7 DEF SearchInv

LEMMA InvStep == SearchInv /\ [Next]_vars => SearchInv'
<1> SUFFICES ASSUME SearchInv, [Next]_vars PROVE SearchInv'
  OBVIOUS
<1>1. SearchTypeOK'
  BY TypeStep DEF SearchInv
<1>2. ASSUME NEW c \in Candidates, Worker(c)
      PROVE  SearchInv'
  <2>1. Trees' /\ Turns' /\ Slots' /\ Capped'
    BY <1>2, TreesStep, TurnsStep, SlotsStep, CappedStep DEF SearchInv
  <2>2. Cuts'
    BY <1>2, CutsStep DEF SearchInv
  <2>3. \A d \in Candidates : Verdict(d)'
    BY <1>2, VerdictStep DEF SearchInv
  <2>4. ~Over /\ phase' = phase
    BY <1>2, NobodyWorksAfter, WorkerMoves DEF SearchInv, Moves
  <2>5. Phases' /\ Choice'
    BY <2>4 DEF Phases, Choice, Over
  <2>6. QED
    BY <1>1, <2>1, <2>2, <2>3, <2>5 DEF SearchInv
<1>3. CASE Propose
  <2>1. Phases' /\ Choice'
    BY <1>3 DEF Propose, Phases, Choice, Over
  <2>2. QED
    BY <1>1, <1>3, <2>1, FrameStep DEF Propose, SearchInv
<1>4. CASE Return
  <2>1. Settled' = Settled /\ Raised' = Raised
    BY <1>4, FrameStep DEF Return
  <2>2. Phases' /\ Choice'
    BY <1>4, <2>1 DEF Return, Phases, Choice, Over
  <2>3. QED
    BY <1>1, <1>4, <2>2, FrameStep DEF Return, SearchInv
<1>5. ASSUME NEW score \in [Candidates -> Scores], Select(score)
      PROVE  SearchInv'
  <2>1. Settled' = Settled /\ Raised' = Raised
    BY <1>5, FrameStep DEF Select
  <2>2. Phases'
    BY <1>5, <2>1 DEF Select, SearchInv, Phases, Over
  <2>3. QED
    BY <1>1, <1>5, <2>2, FrameStep, SelectChoice DEF Select, SearchInv
<1>6. CASE UNCHANGED vars
  <2>1. Settled' = Settled /\ Raised' = Raised
    BY <1>6, FrameStep DEF vars
  <2>2. Phases' /\ Choice'
    BY <1>6, <2>1 DEF vars, SearchInv, Phases, Choice, Over
  <2>3. QED
    BY <1>1, <1>6, <2>2, FrameStep DEF vars, SearchInv
<1> QED BY <1>2, <1>3, <1>4, <1>5, <1>6 DEF Next

\* The invariant of a batch: workers and their verdicts, worktrees, turns or slots, the reason
\* of a cancellation, the answer of the task.
THEOREM SearchInvariant == Spec => []SearchInv
<1>1. QED
  BY InvInit, InvStep, PTL DEF Spec

\* A batch keeps its shape, and no worker repairs past max_repair_rounds.
THEOREM SearchTypes == Spec => []SearchTypeOK
<1>1. SearchInv => SearchTypeOK
  BY DEF SearchInv
<1>2. QED
  BY <1>1, SearchInvariant, PTL

\* Whatever was cancelled or raised, and wherever it was, no worktree outlives propose() but
\* those git could not remove.
THEOREM WorktreesAreReturned == Spec => []NoWorktreeIsLost
<1>1. SearchInv => NoWorktreeIsLost
  <2> SUFFICES ASSUME SearchInv, Over
               PROVE  tracked = {} /\ disk = audit.stuck
    BY DEF NoWorktreeIsLost
  <2>1. Settled
    BY DEF SearchInv, Phases
  <2>2. ASSUME NEW c \in Candidates
        PROVE  work[c].pc \notin InATree
    <3>1. CASE work[c].pc \in Ended
      BY <3>1 DEF Ended, InATree
    <3>2. CASE work[c].pc \notin Ended
      <4>1. PICK r \in Candidates : ~Parallel /\ work[r].pc = "raised"
        BY <2>1, <3>2 DEF Settled, Raised, Ended
      <4>2. work[c].pc = "waiting"
        <5>1. r # c /\ work[r].pc # "waiting" /\ work[r].pc # "done" /\ work[c].pc # "done"
          BY <3>2, <4>1 DEF Ended
        <5>2. r < c \/ c < r
          BY <5>1 DEF Candidates
        <5>3. QED
          BY <4>1, <5>1, <5>2 DEF SearchInv, Turns
      <4>3. QED
        BY <4>2 DEF InATree
    <3>3. QED
      BY <3>1, <3>2
  <2>3. tracked \subseteq Candidates
    BY TypeParts DEF SearchInv, Rest
  <2>4. tracked = {}
    BY <2>2, <2>3 DEF SearchInv, Trees
  <2>5. QED
    BY <2>4 DEF SearchInv, Trees
<1>2. QED
  BY <1>1, SearchInvariant, PTL

\* No more worktrees are open at a time than the limiter has slots, or one in turn.
THEOREM BoundedWorktrees == Spec => []WorktreesAreBounded
<1>1. SearchInv => WorktreesAreBounded
  <2> SUFFICES ASSUME SearchInv
               PROVE  Cardinality(tracked) <= IF Parallel THEN Concurrent ELSE 1
    BY DEF WorktreesAreBounded
  <2>1. tracked \subseteq Candidates /\ IsFiniteSet(Candidates)
    BY CandidatesFinite, TypeParts DEF SearchInv, Rest
  <2>2. CASE Parallel
    <3>1. tracked \subseteq Holding /\ Holding \subseteq Candidates
      BY <2>1 DEF SearchInv, Trees, InATree, Holding
    <3>2. IsFiniteSet(Holding)
      BY <2>1, <3>1, FS_Subset
    <3>3. Cardinality(tracked) <= Cardinality(Holding) /\ Cardinality(Holding) <= Concurrent
      BY <2>2, <3>1, <3>2, FS_Subset DEF SearchInv, Slots
    <3>4. IsFiniteSet(tracked) /\ Cardinality(tracked) \in Nat /\ Cardinality(Holding) \in Nat
      BY <2>1, <3>2, FS_Subset, FS_CardinalityType
    <3>5. QED
      BY <2>2, <3>3, <3>4
  <2>3. CASE ~Parallel
    <3>1. ASSUME NEW c \in tracked, NEW d \in tracked
          PROVE  c = d
      <4>1. work[c].pc \notin {"waiting", "done"} /\ work[d].pc \notin {"waiting", "done"}
        BY DEF SearchInv, Trees, InATree
      <4>2. ~(c < d) /\ ~(d < c)
        BY <2>1, <2>3, <4>1 DEF SearchInv, Turns
      <4>3. QED
        BY <2>1, <4>2 DEF Candidates
    <3>2. CASE tracked = {}
      BY <2>3, <3>2, FS_EmptySet
    <3>3. CASE tracked # {}
      <4>1. PICK c \in tracked : TRUE
        BY <3>3
      <4>2. tracked = {c}
        BY <3>1, <4>1
      <4>3. Cardinality({c}) = 1
        BY FS_Singleton
      <4>4. QED
        BY <2>3, <4>2, <4>3
    <3> QED BY <3>2, <3>3
  <2> QED BY <2>2, <2>3
<1>2. QED
  BY <1>1, SearchInvariant, PTL

\* An admission is never lost to a cancellation, and where there is one, one wins.
THEOREM AdmittedIsSelected == Spec => []AdmittedWins
<1>1. SearchInv => AdmittedWins
  <2> SUFFICES ASSUME SearchInv, phase = "selected"
               PROVE  /\ \A c \in audit.admitted : outcomes[c] = "admitted"
                      /\ audit.admitted # {} => winner \in audit.admitted
    BY DEF AdmittedWins
  <2>1. Settled /\ ~Raised
    BY DEF SearchInv, Phases, Over
  <2>2. ASSUME NEW c \in audit.admitted
        PROVE  outcomes[c] = "admitted"
    <3>1. c \in Candidates
      BY TypeParts DEF SearchInv, Rest, Audits
    <3>2. work[c].pc \in {"done", "cancelled"}
      BY <2>1, <3>1, ReturnedWorkers DEF SearchInv
    <3>3. QED
      BY <3>1, <3>2 DEF SearchInv, Verdict, Judged
  <2>3. QED
    BY <2>2 DEF SearchInv, Choice
<1>2. QED
  BY <1>1, SearchInvariant, PTL

\* A batch that returns has judged every candidate or admitted one.
THEOREM ReturnedIsWhole == Spec => []AdmittedOrAllJudged
<1>1. SearchInv => AdmittedOrAllJudged
  <2> SUFFICES ASSUME SearchInv, phase = "returned",
                      ~ \E c \in Candidates : outcomes[c] = "admitted"
               PROVE  \A c \in Candidates : outcomes[c] # None
    BY DEF AdmittedOrAllJudged
  <2>1. Settled /\ ~Raised /\ ~cancelled
    BY DEF SearchInv, Phases, Over, Cuts
  <2>2. ASSUME NEW c \in Candidates
        PROVE  outcomes[c] # None
    <3>1. work[c].pc = "done"
      BY <2>1, ReturnedWorkers DEF SearchInv, Cuts
    <3>2. QED
      BY <3>1 DEF SearchInv, Verdict, Judged, Verdicts, None
  <2>3. QED
    BY <2>2
<1>2. QED
  BY <1>1, SearchInvariant, PTL

\* Gate evaluations pass the cap by less than the number of candidates.
THEOREM CappedEvaluations == Spec => []EvaluationsAreCapped
<1>1. SearchInv => EvaluationsAreCapped
  <2>1. Pending \subseteq Candidates
    BY DEF Pending
  <2>2. Cardinality(Pending) \in Nat
    BY <2>1, CandidatesFinite, FS_Subset, FS_CardinalityType
  <2>3. SearchInv => total \in Nat
    BY TypeParts DEF SearchInv, Rest
  <2>4. QED
    BY <2>2, <2>3 DEF SearchInv, Capped, EvaluationsAreCapped
<1>2. QED
  BY <1>1, SearchInvariant, PTL

\* Worktrees open at once and gate runs in all stay within their bounds.
THEOREM BoundedSearch == Spec => []SearchIsBounded
BY BoundedWorktrees, CappedEvaluations, PTL DEF SearchIsBounded

\* No admission is lost and every batch that returns was judged.
THEOREM JudgedSelection == Spec => []SelectionIsJudged
BY AdmittedIsSelected, ReturnedIsWhole, PTL DEF SelectionIsJudged
=============================================================================
