SPECIFICATION Spec
CONSTANTS
  HeapSize = 36
  Header = 4
  MinSplit = 4
  Sizes = {1, 6}
  IrqFrees = TRUE
INVARIANTS
  HoldersApart
