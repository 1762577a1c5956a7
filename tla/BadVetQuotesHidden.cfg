SPECIFICATION Spec
CONSTANTS
  Problems = {"p"}
  Programs = {"good", "misfit"}
  Models = {"small", "mid", "large", "judge", "guide"}
  NoModel = "nil"
  NTiers = 2
  Tier <- TwoTiers
  CascadePlanner = "nil"
  TestModels = {"judge"}
  Oracles <- JustSound
  Facts <- MCFacts
  Weight <- MCWeight
  Similarity <- Alike
  CacheEnabled = TRUE
  CacheTopK = 3
  CacheMinSim = 60
  CacheAdmitAt = 26
  Certificates <- Certs
  DeadlineModes = {FALSE}
  ShadowModes = {FALSE}
  Faults = {}
  MaxSolves = 1
INVARIANT
  HiddenNeverPrompted
CHECK_DEADLOCK FALSE
