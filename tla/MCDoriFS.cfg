SPECIFICATION Spec
CONSTANTS
  NInodes = 4
  NBlocks = 3
  NDirect = 1
  NIndirect = 1
  EntriesPerBlock = 2
  Names = {n1, n2}
  NoName = none
  TruncateSizes = {0, 1}
  Word = 16
  MaxFileSize = 3
  MaxEntries = 3
  MaxRestarts = 1
SYMMETRY NameSymmetry
INVARIANTS
  TypeOK
  BlocksOwned
  NoBlockLeak
  EntriesSound
  NoInodeLeak
  CountsFollow
PROPERTIES
  KeepsTree
\* The machine may stop for good: a full disk, a torn one, or the bounds.
CHECK_DEADLOCK FALSE
