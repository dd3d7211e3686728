CONSTANTS
  c1 = c1
  Callers = {c1}
  Restricted = TRUE
  MaxStarts = 1
SPECIFICATION SandboxSpec
INVARIANT NobodyWaitsForItself
CHECK_DEADLOCK FALSE
