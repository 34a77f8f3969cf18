SPECIFICATION FairLockSpec
CONSTANTS
  s = s
  t = t
  u = u
  a = a
  p = p
  NoName = NoName
  UsePHIs = TRUE
  MaxBlocks = 11
  Programs <- SomePrograms
INVARIANTS
  FoundIsLatest
  ReachingDominates
  Agreement
  IInv
PROPERTIES
  PassEnds
