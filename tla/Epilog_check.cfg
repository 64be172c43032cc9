SPECIFICATION EpilogSpec
CONSTANTS
  Deadlines = {0, 1, 4}
  BUDGET = 3
  RESERVE = 1
  OBSERVATION = 1
  TELEMETRY = 1
  TRAJECTORY = 2
  MCP = 1
  Configs <- SavedOrNot
  QueueSize = 2
  MaxEvents = 1
  MaxScreenshots = 2
  MaxLag = 2
INVARIANTS DecisionSurvives CleanupHasItsTime SavedIsSaved
