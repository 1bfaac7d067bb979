\* The pipeline under crashes, signals, budgets, cancels, pauses and resumes.
SPECIFICATION Spec
CHECK_DEADLOCK FALSE
CONSTANTS
  WorkerOutcomes = {"succeeded", "failed"}
  NoValue = "none"
  FragileTasks = {}
  ThrowingTasks = {}
  TaskLimits = {0, 1}
  MayCrash = TRUE
  MaySignal = TRUE
  MayExceedBudget = TRUE
  MayCancel = TRUE
  MayResumeFailed = TRUE
  MaxResumes = 2
  MaxConcurrency = 2
  MaxAgents = 7
  Route <- NoRoute
  Foreach <- NoForeach
  ChildDef <- NoChildDef
  Children = {}
  Phases = {"P", "Q"}
  PhaseDef <- PipelinePhases
  PhaseOrder <- TwoPhases
  SpecTasks = {"a", "b", "c", "d"}
  TaskDef <- PipelineTasks
  TaskOrder <- PipelineOrder
INVARIANTS
  TypeOK
  DependenciesSatisfied
  RetryPolicyHeld
  NothingLeftRunning
  CompletedIsDecided
PROPERTIES
  AcceptedWorkIsKept
  SealedStatusesAreKept
