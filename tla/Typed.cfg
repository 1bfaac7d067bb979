\* Typed results: declared, normalized, checked, referred to.
SPECIFICATION Spec
CHECK_DEADLOCK FALSE
CONSTANTS
  Schemas <- MCSchemas
  Results <- MCResults
  Paths <- MCPaths
  Inherited = {"valueOf"}
  MaxDepth = 3
  MaxProperties = 5
  MaxNullable = 3
INVARIANTS
  AcceptsWhatConforms
  PlannedReferencesResolve
