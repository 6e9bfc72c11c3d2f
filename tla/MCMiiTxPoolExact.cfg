SPECIFICATION FairSpec
CONSTANTS
  Start = 1
  End = 13
  MinUsage = 3
  Lead = 2
  FullPacketSize = 16
  SentWords = 2
  LoneWords = 0
  Junk <- JunkSet
INVARIANTS
  EmptyOnlyWhenDrained
