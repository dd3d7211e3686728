---------------------------- MODULE GovernorPool ----------------------------
(***************************************************************************)
(* The pool of a run of the governor, seen in one dimension, implements    *)
(* the abstract account.                                                   *)
(***************************************************************************)
EXTENDS Governor

CONSTANTS PoolRun, PoolDim  \* any run, and any dimension

ASSUME PoolAssumption == PoolRun \in Runs /\ PoolDim \in Dims

\* does the ceiling of the run name the dimension?  If not, no account is kept
Named == PoolDim \in Constrained(PoolRun)

\* what is free on the account, what is held and what was used
Free == IF Named THEN rootRemaining[PoolRun][PoolDim] ELSE 0
HeldNow == IF Named THEN HeldAtRoot(PoolRun, PoolDim) ELSE 0
Used == IF Named THEN rootSpent[PoolRun][PoolDim] ELSE 0

Pool == INSTANCE Account WITH
  cap <- ceiling[PoolRun][PoolDim], free <- Free, held <- HeldNow, used <- Used

\* The pool of a run implements the abstract account: money is granted only
\* from what is free, and every settlement gives back exactly what the lease
\* held and takes exactly what was used (governor.py:76-132, 134-195).
PoolIsAnAccount == Pool!Spec

=============================================================================
