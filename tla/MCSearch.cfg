CONSTANTS
  N = 3
  Parallel = TRUE
  Concurrent = 2
  CancelOnAdmit = TRUE
  Prune = FALSE
  MaxRounds = 1
  EscalateAfter = 3
  Cap = 3
  Scores <- MCScores
SPECIFICATION Spec
INVARIANTS
  SearchTypeOK
  NoWorktreeIsLost
  SearchIsBounded
  SelectionIsJudged
PROPERTIES
  ProposeEnds
CHECK_DEADLOCK FALSE
