------------------------------- MODULE Search -------------------------------
(***************************************************************************)
(* One benchmark task of the best-of-N arm: BestOfNSearch.propose and      *)
(* select, the executor that runs a candidate in its own worktree, and     *)
(* the worktree manager.  Candidates run one after the other, or as tasks  *)
(* of one group behind a capacity limiter, where a clean admission or an   *)
(* exception cancels the others at their next await.                       *)
(*                                                                         *)
(* A run of a candidate is one step here (RunLoop models its inside): it   *)
(* costs one unit and ends admitted, refused, refused with a large diff,   *)
(* or with an exception.  A cancelled worker goes no further than the      *)
(* thread or the shield it is in.                                          *)
(***************************************************************************)
EXTENDS Worktrees

CONSTANTS
  N,               \* SearchConfig.candidates
  Parallel,        \* launch_mode = "parallel"
  Concurrent,      \* max_concurrent
  CancelOnAdmit,   \* cancel_on_clean_admit
  Prune,           \* prune_on_first_gate_fail
  MaxRounds,       \* max_repair_rounds
  EscalateAfter,   \* escalate_after_failures; 0 stands for n_policy = "fixed"
  Cap,             \* max_total_gate_evaluations
  Scores           \* what a scorer may say

ASSUME SearchAssumption ==
  /\ N \in Nat \ {0} /\ Concurrent \in Nat \ {0} /\ Cap \in Nat \ {0}
  /\ {Parallel, CancelOnAdmit, Prune} \subseteq BOOLEAN
  /\ MaxRounds \in Nat /\ EscalateAfter \in Nat
  /\ Scores \subseteq Nat /\ Scores # {}

VARIABLES
  phase,       \* of the task: "idle", "proposing", "returned", "raised", "selected"
  work,        \* the worker of each candidate
  outcomes,    \* _outcomes
  total,       \* _total_gate_evaluations
  cancelled,   \* the scope of the group, or the group itself, is cancelled
  winner,      \* the answer of select(); 0: none yet
  audit        \* history: candidates that were admitted, removals that failed

vars == <<phase, work, outcomes, total, cancelled, winner, audit, tracked, disk>>

Candidates == 1..N
Verdicts == {"admitted", "refused", "large"}
None == "none"

\* a worker waits (stagger, limiter), announces itself, allocates, materializes, runs, reads
\* the diff of its run, releases, announces its end
Idle == [pc |-> "waiting", round |-> 0, verdict |-> None, exit |-> "return"]

Init ==
  /\ WorktreesInit
  /\ phase = "idle" /\ work = [c \in Candidates |-> Idle]
  /\ outcomes = [c \in Candidates |-> None] /\ total = 0
  /\ cancelled = FALSE /\ winner = 0
  /\ audit = [admitted |-> {}, stuck |-> {}]

Go(c, pc) == work' = [work EXCEPT ![c].pc = pc]
Exit(c, exit) == work' = [work EXCEPT ![c].pc = "release", ![c].exit = exit]

Propose ==
  /\ phase = "idle" /\ phase' = "proposing"
  /\ UNCHANGED <<work, outcomes, total, cancelled, winner, audit, tracked, disk>>

-----------------------------------------------------------------------------
(* A worker: _worker, _run_and_release_one, _run_one_candidate, execute.   *)

Holding == {c \in Candidates : work[c].pc \notin {"waiting", "done", "cancelled", "raised"}}

\* the limiter serves its queue in order; without it, candidates run one by one and the
\* first exception is the last thing that happens
BugLaunch(c) ==
  /\ phase = "proposing" /\ ~cancelled /\ work[c].pc = "waiting"
  /\ \A d \in Candidates : d < c => work[d].pc # "waiting"
  /\ IF Parallel THEN Cardinality(Holding) <= Concurrent
     ELSE \A d \in Candidates : d < c => work[d].pc = "done"
  /\ Go(c, "proposed")
  /\ UNCHANGED <<phase, outcomes, total, cancelled, winner, audit, tracked, disk>>

Launch(c) ==
  /\ phase = "proposing" /\ ~cancelled /\ work[c].pc = "waiting"
  /\ \A d \in Candidates : d < c => work[d].pc # "waiting"
  /\ IF Parallel THEN Cardinality(Holding) < Concurrent
     ELSE \A d \in Candidates : d < c => work[d].pc = "done"
  /\ Go(c, "proposed")
  /\ UNCHANGED <<phase, outcomes, total, cancelled, winner, audit, tracked, disk>>

\* CandidateProposed is delivered, and the thread of `git worktree add` is under way
Enter(c) ==
  /\ work[c].pc = "proposed" /\ ~cancelled
  /\ Go(c, "allocate")
  /\ UNCHANGED <<phase, outcomes, total, cancelled, winner, audit, tracked, disk>>

AllocateTree(c) ==
  /\ work[c].pc = "allocate"
  /\ \/ Allocate(c) /\ Go(c, "materialize")
     \/ AllocateFails /\ Exit(c, "raise")
  /\ UNCHANGED <<phase, outcomes, total, cancelled, winner, audit>>

Materialize(c) ==
  /\ work[c].pc = "materialize" /\ ~cancelled
  /\ Go(c, "running")
  /\ UNCHANGED <<phase, outcomes, total, cancelled, winner, audit, tracked, disk>>

\* the loop of the candidate ends with a gate report; the diff is still to be read
Run(c, verdict) ==
  /\ work[c].pc = "running" /\ ~cancelled
  /\ work' = [work EXCEPT ![c].pc = "ran", ![c].verdict = verdict]
  /\ UNCHANGED <<phase, outcomes, total, cancelled, winner, audit, tracked, disk>>

\* an exception of materialize(), of the loop or of the git commands after it
Fail(c) ==
  /\ work[c].pc \in {"materialize", "running", "ran"} /\ ~cancelled
  /\ Exit(c, "raise")
  /\ UNCHANGED <<phase, outcomes, total, cancelled, winner, audit, tracked, disk>>

\* should_escalate: stop repairing
Escalate(c) ==
  EscalateAfter > 0 /\ (work[c].round + 1 >= EscalateAfter \/ work[c].verdict = "large")

\* the cap forgotten
BugRepairs(c) ==
  /\ work[c].verdict # "admitted" /\ ~Prune
  /\ work[c].round < MaxRounds /\ ~Escalate(c)

\* max_repair_rounds forgotten
BugRounds(c) ==
  work[c].verdict # "admitted" /\ ~Prune /\ total + 1 < Cap /\ ~Escalate(c)

\* one more round in the same worktree; the count includes the evaluation just made
Repairs(c) ==
  /\ work[c].verdict # "admitted" /\ ~Prune
  /\ work[c].round < MaxRounds /\ total + 1 < Cap /\ ~Escalate(c)

\* execute() returns: its answer may cross a cancellation
Collect(c) ==
  /\ work[c].pc = "ran"
  /\ total' = total + 1
  /\ work' = IF Repairs(c)
             THEN [work EXCEPT ![c].pc = "running", ![c].round = @ + 1, ![c].verdict = None]
             ELSE [work EXCEPT ![c].pc = "release"]
  /\ audit' = IF work[c].verdict = "admitted" THEN [audit EXCEPT !.admitted = @ \cup {c}]
              ELSE audit
  /\ UNCHANGED <<phase, outcomes, cancelled, winner, tracked, disk>>

\* only the workers that already run are cancelled
BugCancel(c) ==
  /\ cancelled
  /\ work[c].pc \in {"materialize", "running", "ran"} /\ Exit(c, "cancel")
  /\ UNCHANGED <<phase, outcomes, total, cancelled, winner, audit, tracked, disk>>

\* a cancellation is delivered: before the worker enters its try, or inside it
Cancel(c) ==
  /\ cancelled
  /\ \/ work[c].pc \in {"waiting", "proposed"} /\ Go(c, "cancelled")
     \/ work[c].pc \in {"materialize", "running", "ran"} /\ Exit(c, "cancel")
  /\ UNCHANGED <<phase, outcomes, total, cancelled, winner, audit, tracked, disk>>

\* what is left of a worker that has released its worktree
Left(exit) == CASE exit = "return" -> "emit" [] exit = "cancel" -> "cancelled" [] OTHER -> "raised"

\* no finally: only a candidate that returned releases its worktree
BugRelease(c) ==
  /\ work[c].pc = "release"
  /\ IF work[c].exit = "return"
     THEN \/ Remove(c) /\ UNCHANGED audit
          \/ RemoveFails(c) /\ audit' = [audit EXCEPT !.stuck = @ \cup {c}]
     ELSE UNCHANGED <<tracked, disk, audit>>
  /\ Go(c, Left(work[c].exit))
  /\ outcomes' = IF work[c].exit = "return" THEN [outcomes EXCEPT ![c] = work[c].verdict]
                 ELSE outcomes
  /\ cancelled' = (cancelled \/ (Parallel /\ work[c].exit = "raise"))
  /\ UNCHANGED <<phase, total, winner>>

\* no shield: a cancelled candidate does not get to record what it returned
BugReleaseUnshielded(c) ==
  /\ work[c].pc = "release"
  /\ \/ Remove(c) /\ UNCHANGED audit
     \/ RemoveFails(c) /\ audit' = [audit EXCEPT !.stuck = @ \cup {c}]
  /\ Go(c, IF cancelled THEN "cancelled" ELSE Left(work[c].exit))
  /\ outcomes' = IF work[c].exit = "return" /\ ~cancelled
                 THEN [outcomes EXCEPT ![c] = work[c].verdict] ELSE outcomes
  /\ cancelled' = (cancelled \/ (Parallel /\ work[c].exit = "raise"))
  /\ UNCHANGED <<phase, total, winner>>

\* the shielded release, then the outcome; an exception cancels the other tasks of a group
Release(c) ==
  /\ work[c].pc = "release"
  /\ \/ Remove(c) /\ UNCHANGED audit
     \/ RemoveFails(c) /\ audit' = [audit EXCEPT !.stuck = @ \cup {c}]
  /\ Go(c, Left(work[c].exit))
  /\ outcomes' = IF work[c].exit = "return" THEN [outcomes EXCEPT ![c] = work[c].verdict]
                 ELSE outcomes
  /\ cancelled' = (cancelled \/ (Parallel /\ work[c].exit = "raise"))
  /\ UNCHANGED <<phase, total, winner>>

\* the first to finish cancels the others, admitted or not
BugFinish(c) ==
  /\ work[c].pc = "emit"
  /\ Go(c, "done")
  /\ cancelled' = (cancelled \/ (Parallel /\ CancelOnAdmit))
  /\ UNCHANGED <<phase, outcomes, total, winner, audit, tracked, disk>>

\* GateEvaluated and WorktreeReleased are delivered
Finish(c) ==
  /\ work[c].pc = "emit"
  /\ Go(c, "done")
  /\ cancelled' = (cancelled \/ (Parallel /\ CancelOnAdmit /\ outcomes[c] = "admitted"))
  /\ UNCHANGED <<phase, outcomes, total, winner, audit, tracked, disk>>

-----------------------------------------------------------------------------
(* The task.                                                               *)

Raised == \E c \in Candidates : work[c].pc = "raised"

\* every worker has ended; without a group, nobody starts after an exception
Settled ==
  \/ \A c \in Candidates : work[c].pc \in {"done", "cancelled", "raised"}
  \/ ~Parallel /\ Raised

Return ==
  /\ phase = "proposing" /\ Settled
  /\ phase' = IF Raised THEN "raised" ELSE "returned"
  /\ UNCHANGED <<work, outcomes, total, cancelled, winner, audit, tracked, disk>>

Pool ==
  LET admitted == {c \in Candidates : outcomes[c] = "admitted"}
  IN  IF admitted # {} THEN admitted ELSE Candidates

\* the first of the best scored; the first of the pool where none has an outcome
Ranked(score, pool) ==
  LET scored == {c \in pool : outcomes[c] # None}
      best   == {c \in scored : \A d \in scored : score[d] <= score[c]}
      first(set) == CHOOSE c \in set : \A d \in set : c <= d
  IN  first(IF scored = {} THEN pool ELSE best)

\* everything ranked together
BugSelect(score) ==
  /\ phase = "returned" /\ phase' = "selected"
  /\ winner' = Ranked(score, Candidates)
  /\ UNCHANGED <<work, outcomes, total, cancelled, audit, tracked, disk>>

Select(score) ==
  /\ phase = "returned" /\ phase' = "selected"
  /\ winner' = Ranked(score, Pool)
  /\ UNCHANGED <<work, outcomes, total, cancelled, audit, tracked, disk>>

Worker(c) ==
  \/ Launch(c) \/ Enter(c) \/ AllocateTree(c) \/ Materialize(c)
  \/ \E verdict \in Verdicts : Run(c, verdict)
  \/ Fail(c) \/ Collect(c) \/ Cancel(c) \/ Release(c) \/ Finish(c)

Next ==
  \/ Propose
  \/ \E c \in Candidates : Worker(c)
  \/ Return
  \/ \E score \in [Candidates -> Scores] : Select(score)

\* every await of a worker and of the task has an end
Spec == Init /\ [][Next]_vars /\ WF_vars(Next)

-----------------------------------------------------------------------------
(* What is checked.                                                        *)

\* The state has its shape: a worker is somewhere in its life, its round within
\* max_repair_rounds.
SearchTypeOK ==
  /\ phase \in {"idle", "proposing", "returned", "raised", "selected"}
  /\ work \in [Candidates ->
       [pc : {"waiting", "proposed", "allocate", "materialize", "running", "ran", "release",
              "emit", "done", "cancelled", "raised"},
        round : 0..MaxRounds, verdict : Verdicts \cup {None},
        exit : {"return", "raise", "cancel"}]]
  /\ outcomes \in [Candidates -> Verdicts \cup {None}]
  /\ total \in Nat /\ cancelled \in BOOLEAN /\ winner \in 0..N
  /\ audit \in [admitted : SUBSET Candidates, stuck : SUBSET Candidates]
  /\ tracked \subseteq Candidates /\ disk \subseteq Candidates

\* Whatever was cancelled or raised, and wherever it was, propose() leaves no worktree: the
\* manager knows of none, and git has none but those it failed to remove.
Over == phase \in {"returned", "raised", "selected"}
NoWorktreeIsLost == Over => tracked = {} /\ disk = audit.stuck

\* No more worktrees are open at a time than the limiter has slots (one without it), repairs,
\* cancelled workers and releases included.
WorktreesAreBounded == Cardinality(tracked) <= IF Parallel THEN Concurrent ELSE 1

\* "Rank-never-admit": what a candidate was admitted with is never lost to a cancellation that
\* crosses its release, and where anything was admitted the winner is one of those.
AdmittedWins == phase = "selected" =>
  /\ \A c \in audit.admitted : outcomes[c] = "admitted"
  /\ audit.admitted # {} => winner \in audit.admitted

\* A batch that returns has judged every candidate or admitted one: nothing but a clean
\* admission cuts it short, and an exception never looks like a batch that lost.
AdmittedOrAllJudged == phase = "returned" =>
  \/ \E c \in Candidates : outcomes[c] = "admitted"
  \/ \A c \in Candidates : outcomes[c] # None

\* The cap is soft: a round starts below it, so what is under way when it is reached, and
\* the first attempts still to come, are all that can pass it.
EvaluationsAreCapped == total <= Cap + N - 1

\* The resources of a batch are bounded: worktrees open at once, gate runs in all.
SearchIsBounded == WorktreesAreBounded /\ EvaluationsAreCapped

\* A selection is by verdicts: no admission is lost, and nothing is selected from, or
\* returned as, a batch that was not judged.
SelectionIsJudged == AdmittedWins /\ AdmittedOrAllJudged

\* propose() ends.
ProposeEnds == phase = "proposing" ~> phase # "proposing"
=============================================================================
