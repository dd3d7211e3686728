------------------------------ MODULE Worktrees ------------------------------
(***************************************************************************)
(* GitWorktreeManager: the worktrees a process knows of, and those git     *)
(* has.  A branch id is minted for one candidate and used once.            *)
(***************************************************************************)
EXTENDS Integers, FiniteSets

VARIABLES
  tracked,   \* the keys of _worktrees
  disk       \* the worktrees, with their branches, that git has

WorktreesInit == tracked = {} /\ disk = {}

\* the thread that runs `git worktree add` is not abandoned by a cancellation, and no await
\* separates its answer from the entry in _worktrees
Allocate(branch) ==
  /\ branch \notin tracked
  /\ tracked' = tracked \cup {branch}
  /\ disk' = disk \cup {branch}

AllocateFails == UNCHANGED <<tracked, disk>>

\* release() when git removes the worktree, when git cannot, and when there is none
Remove(branch) == tracked' = tracked \ {branch} /\ disk' = disk \ {branch}
RemoveFails(branch) == branch \in tracked /\ tracked' = tracked \ {branch} /\ UNCHANGED disk
=============================================================================
