----------------------------- MODULE MCRunLoop -----------------------------
(***************************************************************************)
(* Small instances of RunLoop: two steps an attempt, two processes.   *)
(***************************************************************************)
EXTENDS RunLoop

\* a local model costs nothing, another passes the limit at once
MCCosts == {0, 2}

\* one way to fail: a second attempt that fails the same way made no progress
MCOutputs == {"fails"}

\* a host that thaws what it froze, and never resumes
ThawOnly == {"thaw"}
ResumeOnly == {"resume"}
Both == {"thaw", "resume"}

=============================================================================
