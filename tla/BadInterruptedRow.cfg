SPECIFICATION Spec
CONSTANTS
  Modes = {"calibrate"}
  Problems = 2
  Tiers = 2
  Levels = 2
  Sites <- MCSites
  LateRuns <- MCLateRuns
  Generated <- MCGenerated
  MaxSeeds = 2
  MaxFaults = 2
INVARIANT
  RowsAreUnspoiled
CHECK_DEADLOCK FALSE
