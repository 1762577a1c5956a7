SPECIFICATION Spec
CONSTANTS
  Weight <- MCWeight
  TextKey <- MCTextKey
  Sources = {"plain", "knotty", "spaced"}
  MaxSamples = 4
  Names = {"", "tester", "dir"}
  Candidates <- MCCandidates
  Configs <- MCConfigs
INVARIANTS
  
  VoteIgnoresOrder
PROPERTY
  MonotoneInEvidence
  RepresentativeHolds
CHECK_DEADLOCK FALSE
