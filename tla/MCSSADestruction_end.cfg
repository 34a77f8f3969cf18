SPECIFICATION LockSpec
CONSTANTS
  NoName = NoName
  Programs <- SharedEnds
  Opaque <- K
  MaxBlocks = 5
INVARIANT EndsAreContextualized
