SPECIFICATION FairSpec
CONSTANTS
  Start = 1
  End = 11
  MinUsage = 3
  Lead = 2
  Junk <- JunkSet
INVARIANTS
  IInv
  EmptyOnlyWhenDrained
  NoOverwrite
  AllReclaimed
PROPERTIES
  FreeTerminates
  ImplementsFifo
