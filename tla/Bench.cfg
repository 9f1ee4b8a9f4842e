SPECIFICATION Spec
CONSTANTS
  Scenarios <- OneStage
  Unplayable <- Nothing
  Commands = {"bench", "pause", "resume", "cancelRunning"}
  MaxPlan = 1
  ConfigRemote = TRUE
  AutoStart = TRUE
  EarlierRuns <- Nothing
  HandLearners = FALSE
  Budgets = {1}
  TicksPerDecision = 1
  BenchGrid <- SmallGrid
  BenchWindow = 1
  LearnerWindow = 2
  LearnerTop = 2
  ConfiguredThreads = 3
  ConfiguredEnvs = 6
INVARIANTS
  BenchAligned
  OnlyTrialsBench
  MapThreadsRestored
