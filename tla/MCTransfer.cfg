SPECIFICATION Spec
CONSTANTS
  Problems = {"p", "q"}
  Programs = {"good", "weak", "racy"}
  Models = {"small", "mid", "large", "judge", "guide"}
  NoModel = "nil"
  NTiers = 2
  Tier <- OneSample
  CascadePlanner = "nil"
  TestModels = {"large"}
  Oracles <- SoundTwisted
  Facts <- MCFacts
  Weight <- MCWeight
  Similarity <- Alike
  CacheEnabled = TRUE
  CacheTopK = 1
  CacheMinSim = 60
  CacheAdmitAt = 26
  Certificates <- None
  DeadlineModes = {TRUE, FALSE}
  ShadowModes = {TRUE, FALSE}
  Faults = {"crash"}
  MaxSolves = 3
INVARIANTS
  ContaminationFlagged
  AdmittedByAnother
CHECK_DEADLOCK FALSE
