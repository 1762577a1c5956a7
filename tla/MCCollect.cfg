SPECIFICATION FairSpec
CONSTANTS
  Modes = {"calibrate", "judge", "compare", "sweep", "seeded", "estimator", "selfconsistency"}
  Problems = 2
  Tiers = 2
  Levels = 2
  Sites <- MCSites
  LateRuns <- MCLateRuns
  Generated <- MCGenerated
  MaxSeeds = 2
  MaxFaults = 2
INVARIANTS
  OneRowPerProblem
  ArmsShareADraw
  ExclusionsAreEarned
  JudgedRowsAreSound
PROPERTIES
  CompletedWorkIsKept
  ResumeCompletes
CHECK_DEADLOCK FALSE
