SPECIFICATION FairSpec
CONSTANTS
  MaxPackets = 2
  Clients = {c1, c2}
  QueueSize = 1
  Forwarding = TRUE
  None = None
CHECK_DEADLOCK FALSE
INVARIANTS
  IInv
  NoUseAfterFree
  HeldOnce
  CountIsHolders
  NoLeak
  FilteredFirst
PROPERTIES
  EverythingReclaimed
