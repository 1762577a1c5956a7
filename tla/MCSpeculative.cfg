SPECIFICATION Spec
CONSTANTS
  Problems = {"p"}
  Programs = {"good", "weak", "bad", "racy"}
  Models = {"small", "mid", "large", "judge", "guide"}
  NoModel = "nil"
  NTiers = 3
  Tier <- ThreeTiers
  CascadePlanner = "nil"
  TestModels = {"judge"}
  Oracles <- JustSound
  Facts <- MCFacts
  Weight <- MCWeight
  Similarity <- Alike
  CacheEnabled = TRUE
  CacheTopK = 3
  CacheMinSim = 60
  CacheAdmitAt = 26
  Certificates <- None
  DeadlineModes = {TRUE}
  ShadowModes = {FALSE}
  Faults = {"timeout", "provider"}
  MaxSolves = 1
INVARIANTS
  CheapestSurvivorWins
  NoHoldoutShopping
CHECK_DEADLOCK FALSE
