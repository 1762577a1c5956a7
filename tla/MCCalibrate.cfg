SPECIFICATION MCSpec
CONSTANTS
  Step = 1
  Top = 2
  ShadowFloor = 2
  AlphaNum = 1
  AlphaDen = 2
  DeltaNum = 3
  DeltaDen = 10
  SizeCap = 8
  MinVote = 3
  MaxPlain = 5
  MaxMixed = 3
  SampleSize = 2
  Records <- MCRecords
  Arities = {2, 3}
INVARIANTS
  PromiseKept
  SoundOracleNeverNominal
  FloorIsExact
  RaisingAThresholdNeverCheapens
  NoWarmthNoGap
PROPERTY
  ExclusionsDoNotVote
CHECK_DEADLOCK FALSE
