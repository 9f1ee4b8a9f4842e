SPECIFICATION HelloSpec
CONSTANTS
  Scenarios <- OneStage
  Unplayable <- Nothing
  Commands = {"start", "pause", "unpause", "cancel", "skip"}
  MaxPlan = 2
  ConfigRemote = TRUE
  AutoStart = TRUE
  EarlierRuns <- Nothing
  HandLearners = FALSE
  Budgets = {1}
  TicksPerDecision = 1
  BenchGrid <- NoGrid
  BenchWindow = 1
  LearnerWindow = 1
  LearnerTop = 0
  ConfiguredThreads = 3
  ConfiguredEnvs = 6
PROPERTIES
  CancelIsHeard
  FinishedStageEnds
  ConsoleAnswers
  PauseTakesEffect
