SPECIFICATION Spec
CONSTANTS
  x1 = x1
  x2 = x2
  o1 = o1
  o2 = o2
  o3 = o3
  o4 = o4
  Names <- ShortNames
  Objects <- FewObjects
  Elements = {0, 1}
  Zero = 0
  None = None
  Ops <- CopyOnly
  Linear = {}
  MaxLength = 3
  End = End
  Freed = Freed
SYMMETRY Symmetric
VIEW Seen
PROPERTIES
  ImplementsStore
