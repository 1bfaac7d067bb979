\* Violated by what the code does: see the README.
SPECIFICATION Spec
CHECK_DEADLOCK FALSE
CONSTANTS
  TaskIds = {"r", "m", "c", "d"}
  TaskList <- MCTaskList
  PhaseIds = {"P", "Q"}
  PhaseList <- MCPhaseList
  MinRouteValues = 2
  MaxItems = 2
  AgentLimit = 6
  Values = {"x", "y"}
  NoRoute = "none"
  Drafts <- AllDrafts
  MaxEdits = 3
INVARIANT
  ReferencesAreReady
