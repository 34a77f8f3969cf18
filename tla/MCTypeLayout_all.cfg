SPECIFICATION Spec
CONSTANTS
  StructTypes <- Good
  MaxFields = 4
  Patterns = {0, 1, 2, 3, 255}
  None = None
VIEW Seen
INVARIANTS
  TypeOK
  FieldsApart
  FieldsPlaced
PROPERTIES
  ImplementsRecord
