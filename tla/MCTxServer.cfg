SPECIFICATION FairSpec
CONSTANTS
  NumTx = 2
  Requests <- MCRequests
  Depth = 2
  Entries = 3
  MaxRequests <- MCMaxRequests
  None = None
INVARIANTS
  IInv
  StampIsAwaited
  RingHoldsSent
  SentOnceInOrder
  TimedOneAtATime
  OvertakenOnce
PROPERTIES
  CallsReturn
  PoolsDrain
