SPECIFICATION FairSpec
CONSTANTS
  Kinds = {"codex", "claude", "acp", "local"}
  MaxGates = 2
  MaxTimeout = 3
  ProcessWorlds <- MCWorlds
INVARIANTS NoStraySignal DiesWithTheRun
PROPERTIES ImplementsTaskOutcome ProcessesStopInTime
CHECK_DEADLOCK FALSE
