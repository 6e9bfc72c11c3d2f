SPECIFICATION Spec
CONSTANTS
  Values <- MCValues
  Targets <- MCTargets
  Stale <- MCStale
  Controls <- MCControls
  Junk <- MCJunk
INVARIANTS
  DataDecodes
  LengthsAnnounced
  GooseDecodes
CHECK_DEADLOCK FALSE
