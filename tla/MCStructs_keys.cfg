SPECIFICATION Spec
CONSTANTS
  Programs = {}
  Elisions <- Candidates
  Definitions <- Types
  MaxFields = 3
  Codes = {}
  KeyPrograms <- FoldedWrongly
  Unhandled = Unhandled
  External = External
  None = None
  Nameless = Nameless
INVARIANTS AccessesFitCollection SizesAreInScope
CHECK_DEADLOCK FALSE
