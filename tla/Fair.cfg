\* The loop makes progress: no crash, signal or cancel ends it early.
SPECIFICATION FairSpec
CHECK_DEADLOCK FALSE
CONSTANTS
  WorkerOutcomes = {"succeeded", "failed"}
  NoValue = "none"
  FragileTasks = {}
  ThrowingTasks = {}
  TaskLimits = {0}
  MayCrash = FALSE
  MaySignal = FALSE
  MayExceedBudget = FALSE
  MayCancel = FALSE
  MayResumeFailed = TRUE
  MaxResumes = 1
  MaxConcurrency = 2
  MaxAgents = 6
  Route <- NoRoute
  Foreach <- NoForeach
  ChildDef <- NoChildDef
  Children = {}
  Phases = {"P", "Q"}
  PhaseDef <- PipelinePhases
  PhaseOrder <- TwoPhases
  SpecTasks = {"a", "b", "c", "d"}
  TaskDef <- PipelineTasks
  TaskOrder <- PipelineOrder
PROPERTIES
  RunEnds
  RetryIsCarriedOut
