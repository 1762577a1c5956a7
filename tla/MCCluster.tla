------------------------------ MODULE MCCluster ------------------------------
(***************************************************************************)
(* A small instance of Evidence.                                           *)
(***************************************************************************)
EXTENDS Evidence

CONSTANT Sources

\* Two survivors that differ in what they do, two that differ only in source,
\* and candidates refuted at two rungs.
Reports ==
  {[ok |-> TRUE, failedAt |-> 0, tests |-> v, timedOut |-> FALSE] : v \in {"v1", "v2"}}
    \cup {[ok |-> FALSE, failedAt |-> s, tests |-> "none", timedOut |-> FALSE] : s \in {2, 5}}

MCCandidates == [source : Sources, report : Reports]

MCWeight == [plain |-> 1, knotty |-> 2, spaced |-> 1]

\* Two candidates that differ in their layout vote together.
MCTextKey == [plain |-> "p", knotty |-> "k", spaced |-> "p"]

Tier == [samples : 0..3, price : 1..2, planner : {"", "tester"}]

MCConfigs ==
  [tiers : UNION {[1..n -> Tier] : n \in 1..2}, alpha : {0, 5}, budget : {0, 1},
   planner : {"", "tester"}, testModel : {"tester"}, cacheDir : {"", "dir"},
   admit : {0, 27, 40, 60}]
=============================================================================
