SPECIFICATION LockSpec
CONSTANTS
  NoName = NoName
  Programs <- Correct
  Opaque <- K
  MaxBlocks = 5
INVARIANTS TypeOK ReplacedUnused NothingDangles Agreement
