------------------------------- MODULE Certify -------------------------------
(***************************************************************************)
(* Calibration records coming in one by one, and what is computed from     *)
(* them at any time: one more record is a step, so that what it may change *)
(* can be said.                                                            *)
(***************************************************************************)
EXTENDS Offline

CONSTANTS
  Records,  \* the records a collector may write
  Arities   \* how many tiers a configuration may list

\* The types of calibrate.Record and TierObservation; a score is at most 1.0.
ASSUME RecordsAssumption ==
  /\ Arities \subseteq Nat \ {0}
  /\ Records \subseteq
       [tiers : Seq([score : 0..Top, correct : BOOLEAN, truth : SUBSET BOOLEAN, cost : Nat]),
        hit : BOOLEAN, hitCorrect : BOOLEAN, hitCost : Nat,
        contaminated : BOOLEAN, unsound : BOOLEAN, shadow : BOOLEAN]

VARIABLES
  recs,    \* the records collected
  tiers    \* tiers of the configuration

vars == <<recs, tiers>>

Collected == DOMAIN recs

Init == recs = <<>> /\ tiers \in Arities

\* The profilers observe every tier of the configuration, or none at a cache hit.
RecordComes(r) ==
  /\ Len(r.tiers) \in {0, tiers}
  /\ recs' = Append(recs, r)
  /\ UNCHANGED tiers

Next == \E r \in Records : RecordComes(r)

Spec == Init /\ [][Next]_vars

-----------------------------------------------------------------------------
Methods == {"fixed-sequence", "bonferroni"}

\* Where every label is execution truth the nominal-certificate warning stays
\* silent (ltt.go:472-477): the two replays walk the cascade alike.
SoundOracleNeverNominal ==
  (\A i \in Collected : \A k \in DOMAIN recs[i].tiers :
     Truth(recs[i].tiers[k]) = recs[i].tiers[k].correct)
    => \A m \in Methods : ~FlagIfNominal(CalibrateRecords(recs, tiers, m))

\* The floor on the sample size is exact (stats.go:131-142): below it nothing is
\* certified whatever the records say, and from it on a stream that some policy
\* answers without an error, at the strictest thresholds too, is certified.
FloorIsExact ==
  LET cert == CalibrateRecords(recs, tiers, "fixed-sequence")
      strict == [k \in 1..(tiers - 1) |-> Max(Levels)]
  IN cert.ok =>
       /\ cert.valid => cert.n >= MinCalibrationSize
       /\ Risk(recs, Stream(recs), strict) = 0 /\ cert.n >= MinCalibrationSize => cert.valid

\* A contaminated record, or one whose suite refuted its own reference, changes
\* nothing in the certificate: neither its risk, nor which stream it is computed
\* on (ltt.go:323-360).
ExclusionsDoNotVote ==
  [][LET r == recs'[Len(recs')]
     IN r.contaminated \/ r.unsound =>
          \A m \in Methods : CalibrateRecords(recs', tiers, m) = CalibrateRecords(recs, tiers, m)]_vars

\* A stricter policy reaches every tier a laxer one does (main.go:1659-1690): it
\* costs no less, on the stream and problem by problem, so the strictest vector is
\* the largest budget the self-consistency arm can be matched to, and never makes
\* that arm less worth running; at the two ends the cascade errs as the cheapest
\* tier and as the last tier do (baseline.go:34-83).
RaisingAThresholdNeverCheapens ==
  /\ \A t \in Grid(tiers - 1), u \in Grid(tiers - 1) :
       (\A k \in DOMAIN t : t[k] <= u[k]) =>
         /\ Cost(recs, Collected, t) <= Cost(recs, Collected, u)
         /\ \A i \in Tiered(recs, Collected) : CascadeSpend(recs[i], t) <= CascadeSpend(recs[i], u)
         /\ \A samples \in {1, 3} :
              Verdict(recs, u, 1, samples) = "not worth running"
                => Verdict(recs, t, 1, samples) = "not worth running"
  /\ LET lax == Baselines(recs, [k \in 1..(tiers - 1) |-> 0])
         strict == Baselines(recs, [k \in 1..(tiers - 1) |-> Top + 1])
     IN lax.cascade = lax.cheapest /\ strict.cascade = strict.frontier

Patterns == {"uniform", "easy-first", "cheap-accept"}

Warm == [k \in 1..(tiers - 1) |-> Top]

\* A cache that absorbs nothing opens no gap (absorb.go:154-169): calibrated on
\* all of D, or on all of the residual, and deployed on all of D, what a
\* certificate says is what it delivers, shadow records or none.
NoWarmthNoGap ==
  LET S == Used(recs)
      sound == \A i \in S : \A k \in DOMAIN recs[i].tiers :
                 Truth(recs[i].tiers[k]) = recs[i].tiers[k].correct
  IN S # {} /\ sound =>
       \A pattern \in Patterns, eps \in {0, 100}, m \in Methods :
         \A R \in Residuals(recs, S, Warm, pattern, 0) : \A C \in CalStreams(S, R, eps) :
           SweepRow(recs, R, C, tiers, m).gap = 0
=============================================================================
