CONSTANTS
  KindOf <- MCKindOf
  BudgetOf <- MCBudgetOf
  EdgeChoices <- MCEdges
  RepairChoices <- MCRepairs
SPECIFICATION TopologySpec
INVARIANT NoWayAroundTheJudge
CHECK_DEADLOCK FALSE
