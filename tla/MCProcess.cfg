SPECIFICATION FairSpec
CONSTANTS
  MaxProcs = 3
  MaxPid = 4
  KmallocFails = TRUE
  BlockStates <- BlockSelf
INVARIANTS
  TypeOK
  OneRunner
  StackLive
  ChildPointerFresh
  NoLostWakeup
PROPERTIES
  LifeCycle
  ReadyRunsIfAligned
\* The machine may really stop: _exit's hlt loop with nobody left to unblock.
CHECK_DEADLOCK FALSE
