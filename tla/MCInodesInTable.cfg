SPECIFICATION Spec
CONSTANTS
  BlockSize = 4096
  InodeSize = 344
  MaxInodes = 1024
INVARIANTS
  InodesInTable
CHECK_DEADLOCK FALSE
