CONSTANTS
  Entries <- ResumeOnly
  MaxSteps = 2
  MaxAttempts = 1
  StuckRepeat = 2
  Limit = 1
  Costs <- MCCosts
  Outputs <- MCOutputs
  MaxCalls = 1
  MaxCommits = 1
  MaxProcesses = 2
SPECIFICATION Spec
INVARIANT AdmittedMeasuresTheRun
CHECK_DEADLOCK FALSE
