\* Three contenders, a lock a dead process may have left, one more death.
SPECIFICATION Spec
CHECK_DEADLOCK FALSE
CONSTANTS
  Processes = {p1, p2, p3}
  Predecessor = predecessor
  Tries = 2
  MaxCrashes = 1
INVARIANTS
  SomeoneWins
  NothingLeftLocked
