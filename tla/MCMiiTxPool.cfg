SPECIFICATION FairSpec
CONSTANTS
  Start = 1
  End = 13
  MinUsage = 3
  Lead = 2
  FullPacketSize = 17
  SentWords = 2
  LoneWords = 7
  Junk <- JunkSet
INVARIANTS
  IInv
  EmptyOnlyWhenDrained
  ReservationSuffices
  NoOverwrite
PROPERTIES
  ImplementsFifo
