CONSTANTS
  None = None
  Programs <- Beyond
  Questions = 2
  MaxDepth = 25
SPECIFICATION LinkedProgramSpec
INVARIANTS AssertionsHold DefinedOnce
CHECK_DEADLOCK FALSE
