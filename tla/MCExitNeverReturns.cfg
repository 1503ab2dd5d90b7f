SPECIFICATION FairSpec
CONSTANTS
  MaxProcs = 3
  MaxPid = 4
  KmallocFails = FALSE
  BlockStates <- BlockSelf
INVARIANTS
  ExitNeverReturns
CHECK_DEADLOCK FALSE
