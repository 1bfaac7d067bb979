SPECIFICATION FairSpec
CONSTANTS
  RequestTimeout = 1
  MaxTimeout = 2
  ProcessWorlds <- MCWorlds
INVARIANTS SuccessIsATurn NoStraySignal
PROPERTIES TimelyTurnStands AlwaysEnds GoneInTime
CHECK_DEADLOCK FALSE
