SPECIFICATION Spec
CONSTANTS
  Scenarios <- OneStage
  Unplayable <- Nothing
  Commands = {"start", "run", "fast", "pause", "unpause", "resumeNamed", "cancel"}
  MaxPlan = 1
  ConfigRemote = TRUE
  AutoStart = TRUE
  EarlierRuns <- EveryRun
  HandLearners = TRUE
  Budgets = {1}
  TicksPerDecision = 2
  BenchGrid <- NoGrid
  BenchWindow = 1
  LearnerWindow = 1
  LearnerTop = 0
  ConfiguredThreads = 3
  ConfiguredEnvs = 6
INVARIANTS
  IdleHoldsNothing
