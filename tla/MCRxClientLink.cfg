SPECIFICATION FairSpec
CONSTANTS
  Frames = {f1, f2, f3}
  N = 4
  QueueSizes = {0, 1, 6}
  MaxCommands = 2
CHECK_DEADLOCK FALSE
INVARIANTS
  IInv
  TransferInStep
PROPERTIES
  ImplementsMailbox
  ExchangeEnds
