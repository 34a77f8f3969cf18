CONSTANTS
  None = None
  Programs <- MCPrograms
  Questions = 2
  MaxDepth = 25
SPECIFICATION LinkedProgramSpec
INVARIANTS AnswersAgree TypesAreUnique InferredAgree AssertionsHold CallsAreImplemented DefinedOnce
CHECK_DEADLOCK FALSE
