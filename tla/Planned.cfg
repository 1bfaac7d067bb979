\* Every workflow a few edits away from five drafts, validated and run.
SPECIFICATION Spec
CHECK_DEADLOCK FALSE
CONSTANTS
  TaskIds = {"r", "m", "c", "d"}
  TaskList <- MCTaskList
  PhaseIds = {"P", "Q"}
  PhaseList <- MCPhaseList
  MinRouteValues = 2
  MaxItems = 2
  AgentLimit = 6
  Values = {"x", "y"}
  NoRoute = "none"
  Drafts <- AllDrafts
  MaxEdits = 3
INVARIANTS
  GraphsAreReadRight
  CaseWaitsForRoute
  OnlyARouteHidesAProducer
  StrandedByPhases
  SchedulerRulesHold
