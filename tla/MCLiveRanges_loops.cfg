SPECIFICATION Spec
CONSTANTS
  Functions <- Twice
  Nodes = {}
  Size = 3
  None = None
INVARIANTS
  GuardsKeepDemand
CHECK_DEADLOCK FALSE
