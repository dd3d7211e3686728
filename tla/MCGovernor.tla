----------------------------- MODULE MCGovernor -----------------------------
(***************************************************************************)
(* Small instances of Governor: one run, a dimension its ceiling names and *)
(* one it leaves unconstrained.                                            *)
(***************************************************************************)
EXTENDS GovernorPool

CONSTANTS r1, usd, ms

MCDims == {usd, ms}
Budget(u, m) == [d \in MCDims |-> IF d = usd THEN u ELSE m]

\* a cap in dollars alone (engine.py:200)
MCCeilings == {Budget(2, 0)}
\* effects ask for nothing, for money or for time
MCRequests == {Budget(0, 1), Budget(1, 0), Budget(2, 1)}
\* an effect may cost nothing, what it asked for, or more
MCCosts == {Budget(0, 1), Budget(1, 0), Budget(3, 1)}

=============================================================================
