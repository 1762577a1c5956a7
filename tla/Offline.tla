------------------------------- MODULE Offline -------------------------------
(***************************************************************************)
(* What is computed from collected records without another model call: the *)
(* baselines (baseline.go), the budget of the self-consistency arm         *)
(* (selfconsistency.go) and the absorption sweep (absorb.go), which asks   *)
(* what a certificate is worth when a cache takes part of the stream away. *)
(*                                                                         *)
(* Rates are whole percents.  A random permutation is any permutation.     *)
(***************************************************************************)
EXTENDS Calibrate

CONSTANT MinVote  \* the smallest vote that is one (3 in the code)

ASSUME OfflineAssumption == MinVote \in Nat

\* The records the baselines are about.
Tiered(recs, S) == {i \in S : ~recs[i].hit /\ recs[i].tiers # <<>>}

\* How often each errs: always the first tier, the cascade under tau, always the
\* last tier.
Baselines(recs, tau) ==
  LET S == Tiered(recs, DOMAIN recs)
      policy(at(_)) ==
        Cardinality({i \in S : ~Truth(recs[i].tiers[at(i)])})
  IN [cheapest |-> policy(LAMBDA i : 1),
      cascade |-> policy(LAMBDA i : ServedAt(recs[i], tau)),
      frontier |-> policy(LAMBDA i : Len(recs[i].tiers))]

\* What the cascade spends on a problem, the budget the fifth arm must match.
CascadeSpend(r, tau) ==
  Total([j \in 1..ServedAt(r, tau) |-> r.tiers[j].cost])

\* How many samples the budget buys from a tier, whose recorded cost is that of
\* its whole fan-out.
Fanout(r, tau, k, samples) ==
  IF r.tiers[k].cost = 0 THEN 0
  ELSE (CascadeSpend(r, tau) * samples) \div r.tiers[k].cost

\* Whether the arm is worth its money at tier k.
Verdict(recs, tau, k, samples) ==
  LET S == Tiered(recs, Used(recs))
      degenerate == {i \in S : Fanout(recs[i], tau, k, samples) < MinVote}
  IN IF 2 * Cardinality(degenerate) >= Cardinality(S) THEN "not worth running"
     ELSE IF degenerate # {} THEN "caveat" ELSE "runnable"

-----------------------------------------------------------------------------
(* Absorption.                                                             *)

Tier0Correct(r) == r.tiers # <<>> /\ Truth(r.tiers[1])

Tier0Score(r) == IF r.tiers = <<>> THEN 0 ELSE r.tiers[1].score

ServedAtTier0(r, tau) == r.tiers # <<>> /\ tau # <<>> /\ r.tiers[1].score >= tau[1]

\* The nearest whole number to pct percent of n, halves up.
RoundPct(pct, n) == (2 * pct * n + 100) \div 200

\* A selective pattern takes record i before record j.
Sooner(recs, tau, pattern, i, j) ==
  LET easy(k) == IF pattern = "easy-first" THEN Tier0Correct(recs[k])
                                           ELSE ServedAtTier0(recs[k], tau)
  IN \/ easy(i) /\ ~easy(j)
     \/ easy(i) = easy(j) /\ Tier0Score(recs[i]) > Tier0Score(recs[j])
     \/ easy(i) = easy(j) /\ Tier0Score(recs[i]) = Tier0Score(recs[j]) /\ i < j

\* What the cache leaves, once it took a rho share of S: one stream for a
\* selective pattern, any of that size for the uniform one.
Residuals(recs, S, tau, pattern, rho) ==
  LET n == Cardinality(S)
      drop == Min({RoundPct(rho, n), n - 1})
  IN IF pattern = "uniform" THEN kSubset(n - drop, S)
     ELSE {{i \in S : Cardinality({j \in S : Sooner(recs, tau, pattern, j, i)}) >= drop}}

\* The draws past the cache: the residual itself, or eps of it and at least one.
ShadowDraws(R, eps) ==
  IF eps >= 100 THEN {R}
  ELSE kSubset(Max({1, RoundPct(eps, Cardinality(R))}), R)

\* The streams a row of the sweep may be calibrated on: the whole sample when
\* nothing corrects for the cache.
CalStreams(S, R, eps) == IF eps = 0 THEN {S} ELSE ShadowDraws(R, eps)

\* Bug: the shadow flags are left on, and pick a stream of their own.
FlagsLeft(recs, C, tiers, method) ==
  LET shadow == {i \in C : recs[i].shadow}
  IN CalibrateOn(recs, IF Cardinality(shadow) >= ShadowFloor THEN shadow ELSE C,
                 tiers, method)

\* Calibrate on a copy without shadow flags: the stream is the whole of it.
CalibrateStripped(recs, C, tiers, method) == CalibrateOn(recs, C, tiers, method)

\* A row: the deployed risk minus the calibrated one, over the product of the
\* two sizes.
SweepRow(recs, R, C, tiers, method) ==
  LET cert == CalibrateStripped(recs, C, tiers, method)
      bare == [underpowered |-> FALSE, certified |-> FALSE, attempted |-> FALSE, gap |-> 0]
  IN IF Cardinality(R) < 2 THEN bare
     ELSE IF Cardinality(C) < 2
       THEN [bare EXCEPT !.underpowered = Cardinality(C) < MinCalibrationSize]
     ELSE [underpowered |-> Cardinality(C) < MinCalibrationSize,
           certified |-> cert.valid, attempted |-> TRUE,
           gap |-> RealizedRisk(recs, R, cert.thresholds) * Cardinality(C)
                     - cert.bad * Cardinality(R)]
=============================================================================
