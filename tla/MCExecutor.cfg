CONSTANTS
  r1 = r1
  usd = usd
  ms = ms
  Runs = {r1}
  RunId = r1
  Dims <- MCDims
  MaxLeases = 26
  Ceilings <- MCCeilings
  Requests <- MCRequests
  Costs <- MCCosts
  Chain <- MCChain
  Via <- MCVia
  MaxIterations = 2
  IterationBudget <- MCIterationBudget
  MaxFiles = 2
  Estimate <- MCEstimate
  CostOf <- MCCostOf
SPECIFICATION ExecSpec
INVARIANTS RunTypeOK LedgerIsSettled ResultIsJudged IterationIsFunded
PROPERTIES FailClosed NoneIsNeverRepaired RunEnds
