SPECIFICATION LockSpec
CONSTANTS
  s = s
  t = t
  u = u
  a = a
  p = p
  NoName = NoName
  UsePHIs = FALSE
  MaxBlocks = 11
  Programs <- HasAfterWrite
INVARIANTS
  Agreement
