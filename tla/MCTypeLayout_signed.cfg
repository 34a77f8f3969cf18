SPECIFICATION Spec
CONSTANTS
  StructTypes <- Signed
  MaxFields = 4
  Patterns = {0, 1, 2, 3, 255}
  None = None
VIEW Seen
PROPERTY
  ImplementsRecord
