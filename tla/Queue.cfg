SPECIFICATION Spec
CONSTANTS
  Scenarios <- TwoStages
  Unplayable <- LastStage
  Commands = {"start", "pause", "resume", "cancel", "skip", "restart"}
  MaxPlan = 2
  ConfigRemote = TRUE
  AutoStart = TRUE
  EarlierRuns <- Nothing
  HandLearners = FALSE
  Budgets = {1}
  TicksPerDecision = 1
  BenchGrid <- NoGrid
  BenchWindow = 1
  LearnerWindow = 1
  LearnerTop = 0
  ConfiguredThreads = 3
  ConfiguredEnvs = 6
INVARIANTS
  TypeOK
  PlanInOrder
  LearnerServesStage
  FlagsBelongToStage
PROPERTIES
  DoneIsEarned
  OutcomesStick
