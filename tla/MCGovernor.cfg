CONSTANTS
  r1 = r1
  usd = usd
  ms = ms
  Runs = {r1}
  Dims <- MCDims
  MaxLeases = 4
  Ceilings <- MCCeilings
  Requests <- MCRequests
  Costs <- MCCosts
  PoolRun = r1
  PoolDim = usd
SPECIFICATION Spec
INVARIANTS TypeOK Conserved Funded
PROPERTIES ChildrenStayOffThePool PoolIsAnAccount
CHECK_DEADLOCK FALSE
