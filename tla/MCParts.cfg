CONSTANTS
  Blocked = {"write_file"}
  Relaying = {"web_fetch"}
  Reporting = {"write_file", "bash"}
  Gated = {"bash"}
  Observers = {"store", "display"}
  MaxCalls = 2
  Callers = {"loop", "gates"}
  Restricted = TRUE
  MaxStarts = 3
  NumFiles = 3
  Text = {3}
  TopLevel = {1}
  MaxEdits = 1
  Sessions = {"one", "other"}
  Digests = {"d", "e"}
  NumProviders = 2
  Backoffs = 1
  Posts = 2
  MaxAsks = 3
  MaxAnswers = 3
  KeepFirst = 1
  KeepLast = 2
  Threshold = 6
  StepKinds <- MCStepKinds
  SummaryTokens = 1
  MaxSteps = 6
  MaxRepairs = 1
  NumRuns = 3
  Siblings = {1, 2, 3}
  Prefixes = {"prompt"}
  MaxAttempts = 1
  MaxRunSteps = 1
  MaxProcesses = 3
  NumCommits = 2
  Determinism = 1
  Costs <- MCCosts
  MaxBenches = 3
  EventKinds = {"node_started", "node_completed"}
  MaxEvents = 3
  Frames = 2
  NodeKinds <- MCNodeKinds
  BudgetOf <- MCBudgetOf
  EdgeChoices <- MCEdgeChoices
  RepairChoices <- MCRepairChoices
  Entries = {"code", "test"}
  Tests = {"test"}
  Replies <- MCReplies
  MaxIterations = 2
  MaxRounds = 4
  MaxToolCalls = 2
  NumTasks = 4
  TaskOutcomes <- MCTaskOutcomes
  Shapes = {"medium", "playlist"}
  Repeats = 2
  Shuffled <- MCShuffled
  Families <- MCFamilies
  TierFloor <- MCTierFloor
  MaxBuilds = 1
  MaxFloors = 1
  Hypotheses = {"h1", "h2"}
  MaxPairs = 4
SPECIFICATION Spec
INVARIANTS
  PartsTypeOK
  IndexIsFaithful
  TaintPrecedesWrites
  TrajectoryIsAPrefix
  CallsAreAccountedFor
  SandboxIsSound
  ReplayIsTheRecording
  PromptIsFaithful
  EventsKeepTheirOrder
  AcceptedChainIsJudged
  OperatorSpeaksAlone
  EffectsAreLicensed
  PublishedFloorIsSound
  CorrectionIsAClosedTest
PROPERTIES
  ExportIsCurrent
  ReportIsOfItsSuite
CHECK_DEADLOCK FALSE
