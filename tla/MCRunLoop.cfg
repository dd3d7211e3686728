CONSTANTS
  Entries <- Both
  MaxSteps = 2
  MaxAttempts = 2
  StuckRepeat = 2
  Limit = 1
  Costs <- MCCosts
  Outputs <- MCOutputs
  MaxCalls = 1
  MaxCommits = 1
  MaxProcesses = 2
SPECIFICATION Spec
INVARIANTS RunLoopTypeOK TranscriptIsDense AdmittedIsEarned SpendIsBounded
PROPERTIES WritesAreUntainted ProcessEnds
CHECK_DEADLOCK FALSE
