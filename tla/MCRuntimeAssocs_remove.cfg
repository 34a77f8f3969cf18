SPECIFICATION Spec
CONSTANTS
  x1 = x1
  x2 = x2
  x3 = x3
  o1 = o1
  o2 = o2
  o3 = o3
  o4 = o4
  o5 = o5
  k1 = k1
  k2 = k2
  k3 = k3
  Names <- FewNames
  Objects <- FewObjects
  Elements = {0, 1}
  Zero = 0
  None = None
  Freed = Freed
  Ops <- AllOps
  Linear <- Destructive
  Keys <- FewKeys
  KeyT = {1, 2, 3}
  Cast <- CastKeys
  IntegerKeys = FALSE
SYMMETRY Symmetric
VIEW Seen
PROPERTIES
  ImplementsStore
