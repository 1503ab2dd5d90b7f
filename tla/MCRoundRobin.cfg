SPECIFICATION FairSpec
CONSTANTS
  MaxProcs = 3
  MaxPid = 4
  KmallocFails = FALSE
  BlockStates <- BlockNobody
PROPERTIES
  RoundRobin
CHECK_DEADLOCK FALSE
