SPECIFICATION SvSpec
CONSTANTS
  NoASDU = 6
  Flag = 64
  Samples <- MCSamples
  SmpCnt = 508
INVARIANTS
  LengthsAgree
  DifferencesDecode
  DecodesAsModelled
  QualitiesDecode
CHECK_DEADLOCK FALSE
