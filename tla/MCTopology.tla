----------------------------- MODULE MCTopology -----------------------------
(***************************************************************************)
(* Three edges that may close a cycle through the judge.                   *)
(***************************************************************************)
EXTENDS Topology

MCKindOf == <<"repair", "apply", "evaluate">>
MCBudgetOf == [i \in 1..3 |-> 1]
MCEdges == {[from |-> i, to |-> 1 + (i % 3), when |-> "always"] : i \in 1..3}
MCRepairs == {NoBlock}
=============================================================================
