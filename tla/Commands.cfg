SPECIFICATION Spec
CONSTANTS
  p1 = p1
  p2 = p2
  Processes = {p1, p2}
  MaxCommands = 4
  MaxCrashes = 1
SYMMETRY Symmetry
PROPERTIES NothingInherited SucceededIsKept ImplementsLifecycle
CHECK_DEADLOCK FALSE
