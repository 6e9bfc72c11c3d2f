SPECIFICATION Spec
CONSTANTS
  NoASDU = 6
  Value <- MCValue
  PacketsPerSecond = 2
  MaxInFlight = 3
  Junk <- MCJunk
  None = None
INVARIANTS
  InStepPasses
