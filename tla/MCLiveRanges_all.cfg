SPECIFICATION Spec
CONSTANTS
  Functions <- Plain
  Nodes = {1, 2, 3}
  Size = 3
  None = None
INVARIANTS
  GraphTypeOK
  ComponentsAreStrong
  OrderIsTopological
  GuardsKeepDemand
PROPERTIES
  PassesEnd
CHECK_DEADLOCK FALSE
