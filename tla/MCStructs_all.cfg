SPECIFICATION Spec
CONSTANTS
  Programs <- Calling
  Elisions <- Candidates
  Definitions <- Types
  MaxFields = 3
  Codes <- ByName
  KeyPrograms <- Foldings
  Unhandled = Unhandled
  External = External
  None = None
  Nameless = Nameless
INVARIANTS
  AccessesReachArray
  AccessesKeepField
  LeftIsWhole
  AccessesFitCollection
  KeysBecomeIndices
CHECK_DEADLOCK FALSE
