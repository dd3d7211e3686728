----------------------------- MODULE MCExecutor -----------------------------
(***************************************************************************)
(* Small instances of Executor: the topology of linear_repair_v1.yaml with *)
(* a dollar ceiling, at the scale of a few units of money.                 *)
(***************************************************************************)
EXTENDS Executor

CONSTANTS r1, usd, ms

MCDims == {usd, ms}
Budget(u, m) == [d \in MCDims |-> IF d = usd THEN u ELSE m]

\* no ceiling; less than the first model node asks for; enough for a chain, for
\* an iteration, and for more
MCCeilings == {Budget(0, 0), Budget(3, 0), Budget(4, 0), Budget(5, 0), Budget(9, 0)}

NodeOf(kind, u, m) == [kind |-> kind, budget |-> Budget(u, m)]

\* linear_repair_v1.yaml
MCChain == <<NodeOf("retrieve", 0, 1), NodeOf("generate", 4, 0),
             NodeOf("apply", 0, 1), NodeOf("evaluate", 0, 2)>>
MCVia == <<NodeOf("repair", 2, 0), NodeOf("apply", 0, 1), NodeOf("evaluate", 0, 2)>>
MCIterationBudget == Budget(3, 3)

\* no class estimates dollars
MCEstimate == [class \in Classes |->
  CASE class = "read" -> Budget(0, 1)
    [] class = "model" -> Budget(0, 0)
    [] class = "write" -> Budget(0, 1)
    [] class = "evaluate" -> Budget(0, 2)]
MCCostOf == [class \in Classes |->
  CASE class = "model" -> {Budget(0, 0), Budget(1, 0), Budget(3, 0)}
    [] class = "evaluate" -> {Budget(0, 2)}
    [] OTHER -> {Budget(0, 0)}]

\* whatever the topology and the nodes may ask for
MCRequests ==
  {MCChain[i].budget : i \in DOMAIN MCChain} \cup {MCVia[i].budget : i \in DOMAIN MCVia}
    \cup {MCEstimate[class] : class \in Classes} \cup {MCIterationBudget}
MCCosts == UNION {MCCostOf[class] : class \in Classes}

=============================================================================
