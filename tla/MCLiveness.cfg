SPECIFICATION Spec
CONSTANTS
  Problems = {"p"}
  Programs = {"good", "bad", "broken"}
  Models = {"small", "mid", "large", "judge", "guide"}
  NoModel = "nil"
  NTiers = 2
  Tier <- OneSample
  CascadePlanner = "nil"
  TestModels = {"judge"}
  Oracles <- JustSound
  Facts <- MCFacts
  Weight <- MCWeight
  Similarity <- Alike
  CacheEnabled = TRUE
  CacheTopK = 3
  CacheMinSim = 60
  CacheAdmitAt = 26
  Certificates <- None
  DeadlineModes = {TRUE, FALSE}
  ShadowModes = {FALSE}
  Faults = {"timeout", "provider", "signal"}
  MaxSolves = 1
INVARIANT
  UncalibratedRepairPaysOnlyAtTheLastTier
PROPERTY
  EverySolveEnds
CHECK_DEADLOCK FALSE
