SPECIFICATION Spec
CONSTANTS
  NumTx = 1
  Requests <- MCTimedBroadcast
  Depth = 2
  Entries = 3
  MaxRequests <- MCOnce
  None = None
INVARIANTS
  StampIsAwaited
