SPECIFICATION FairSpec
CONSTANTS
  a = a
  b = b
  Parents = {a, b}
  MaxEvents = 5
  MaxCrashes = 2
  Tears = {1, 3}
  Limits = {1, 4}
INVARIANTS InStep ExpandedOnce
PROPERTY EveryLineIsRead
CHECK_DEADLOCK FALSE
