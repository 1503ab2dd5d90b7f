SPECIFICATION FairSpec
CONSTANTS
  HeapSize = 36
  Header = 4
  MinSplit = 4
  Sizes = {1, 6}
  IrqFrees = FALSE
INVARIANTS
  TypeOK
  Tiling
  NothingLost
  Coalesced
PROPERTIES
  NullOnlyWhenFull
  KeepsPromise
  CallsReturn
