SPECIFICATION Spec
CONSTANTS
  Scenarios <- OneStage
  Unplayable <- Nothing
  Commands = {"bench", "start", "cancel"}
  MaxPlan = 1
  ConfigRemote = TRUE
  AutoStart = TRUE
  EarlierRuns <- Nothing
  HandLearners = FALSE
  Budgets = {1}
  TicksPerDecision = 1
  BenchGrid <- SmallGrid
  BenchWindow = 1
  LearnerWindow = 1
  LearnerTop = 1
  ConfiguredThreads = 3
  ConfiguredEnvs = 6
INVARIANTS
  OnlyTrialsBench
