\* A route over a foreach task, crashed and resumed without --resume-failed.
SPECIFICATION Spec
CHECK_DEADLOCK FALSE
CONSTANTS
  WorkerOutcomes = {"succeeded", "failed"}
  NoValue = "none"
  FragileTasks = {"f", "f.0"}
  ThrowingTasks = {"q"}
  TaskLimits = {0}
  MayCrash = TRUE
  MaySignal = TRUE
  MayExceedBudget = TRUE
  MayCancel = TRUE
  MayResumeFailed = FALSE
  MaxResumes = 1
  MaxConcurrency = 2
  MaxAgents = 8
  Route <- TripRoute
  Foreach <- TripForeach
  ChildDef <- TripChildren
  Children = {"f.0", "f.1"}
  Phases = {"P", "Q"}
  PhaseDef <- TripPhases
  PhaseOrder <- TwoPhases
  SpecTasks = {"r", "d", "f", "v", "w", "q"}
  TaskDef <- TripTasks
  TaskOrder <- TripOrder
INVARIANTS
  RouteIsFinal
  NothingStranded
  SkipsHaveCause
  FoldedParentIsSettled
  WithinLimits
