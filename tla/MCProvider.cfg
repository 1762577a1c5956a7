SPECIFICATION FairSpec
CONSTANTS
  Threads <- MCThreads
  Models <- MCModels
  Starts <- MCStarts
  Retries = 2
  MaxCalls = 1
  MaxKills = 1
INVARIANTS
  BilledToItsModel
  OneProfilePerName
  AttributionIsSettled
PROPERTY
  EveryCallEnds
CHECK_DEADLOCK FALSE
