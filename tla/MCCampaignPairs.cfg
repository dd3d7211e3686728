CONSTANTS
  NumTasks = 2
  Outcomes <- MCOutcomes
  Shapes = {"medium"}
  Repeats = 1
  Shuffled <- MCShuffled
  Families <- MCFamilies
  TierFloor <- MCTierFloor
  MaxBuilds = 1
  MaxFloors = 1
SPECIFICATION CampaignSpec
INVARIANT TestIsOnMeasuredPairs
CHECK_DEADLOCK FALSE
