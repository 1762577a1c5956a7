SPECIFICATION Spec
CONSTANTS
  N = 2
  Limits = {1, 2}
  Programs = {"good", "racy", "weak", "shared", "misfit", "untyped", "broken"}
  NoProgram = "nothing"
  Facts <- MCFacts
  Suites <- MCSuites
  OptionSets <- MCOptions
  Faults = {"timeout", "provider", "signal"}
INVARIANTS
  RefutationsAreEarned
  SurvivorsAreEarned
  ReportsAsRouterAssumes
PROPERTY
  FanOutEnds
CHECK_DEADLOCK FALSE
