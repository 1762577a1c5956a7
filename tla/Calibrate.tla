------------------------------ MODULE Calibrate ------------------------------
(***************************************************************************)
(* Learn then test (internal/calibrate/ltt.go, stats.go): the thresholds   *)
(* the router accepts on are the cheapest ones whose risk a multiple test  *)
(* over the calibration records rejects as being above alpha.              *)
(*                                                                         *)
(* A record is one problem: what every tier scored and whether its answer  *)
(* passed the oracle.  truth holds the execution verdict where a judge was *)
(* the oracle, and is empty otherwise.  A stream is a set of positions of  *)
(* a sequence of records, a risk the number of errors on a stream, a cost  *)
(* the total over it: both are compared at one n only, so no division is   *)
(* needed.  Scores and thresholds are whole steps between 0 and Top.       *)
(***************************************************************************)
EXTENDS Integers, Sequences, FiniteSets, FiniteSetsExt, Combinatorics

CONSTANTS
  Step, Top,           \* grid resolution; the score 1.0
  ShadowFloor,         \* how many shadow records are preferred (30 in the code)
  AlphaNum, AlphaDen,  \* alpha, the risk to be certified
  DeltaNum, DeltaDen,  \* delta, the chance of a wrong certificate
  SizeCap              \* bound on the sample sizes MinCalibrationSize tries

ASSUME CalibrateAssumption ==
  /\ Step \in Nat \ {0} /\ Top \in Nat /\ ShadowFloor \in Nat /\ SizeCap \in Nat
  /\ AlphaNum \in Nat \ {0} /\ AlphaDen \in Nat /\ AlphaNum < AlphaDen
  /\ DeltaNum \in Nat \ {0} /\ DeltaDen \in Nat /\ DeltaNum < DeltaDen

\* The sum over a table.
Total(t) == MapThenSumSet(LAMBDA i : t[i], DOMAIN t)

-----------------------------------------------------------------------------
(* Replaying a policy on the records.                                      *)

\* The execution verdict if it was recorded, otherwise the oracle's.
Truth(t) == IF t.truth = {} THEN t.correct ELSE TRUE \in t.truth

\* The tier a policy answers at: the first whose score meets its threshold, and
\* the last one in any case.  0 stands for a record without tiers.
ServedAt(r, tau) ==
  LET stops == {k \in DOMAIN r.tiers :
                  \/ k = Len(r.tiers)
                  \/ k <= Len(tau) /\ r.tiers[k].score >= tau[k]}
  IN IF stops = {} THEN 0 ELSE Min(stops)

\* Bug: only the answering tier is paid for.
PaysLast(r, tau) ==
  IF r.hit THEN [correct |-> r.hitCorrect, cost |-> r.hitCost]
  ELSE LET k == ServedAt(r, tau)
       IN [correct |-> k > 0 /\ r.tiers[k].correct,
           cost |-> IF k = 0 THEN 0 ELSE r.tiers[k].cost]

Replay(r, tau) ==
  IF r.hit THEN [correct |-> r.hitCorrect, cost |-> r.hitCost]
  ELSE LET k == ServedAt(r, tau)
       IN [correct |-> k > 0 /\ r.tiers[k].correct,
           cost |-> Total([j \in 1..k |-> r.tiers[j].cost])]

\* Bug: a replay that always runs to the last tier.
TruthOfLast(r, tau) ==
  IF r.hit THEN r.hitCorrect
  ELSE Len(r.tiers) > 0 /\ Truth(r.tiers[Len(r.tiers)])

ReplayTruth(r, tau) ==
  IF r.hit THEN r.hitCorrect
  ELSE LET k == ServedAt(r, tau) IN k > 0 /\ Truth(r.tiers[k])

Risk(recs, S, tau) == Cardinality({i \in S : ~Replay(recs[i], tau).correct})

RealizedRisk(recs, S, tau) == Cardinality({i \in S : ~ReplayTruth(recs[i], tau)})

Cost(recs, S, tau) == Total([i \in S |-> Replay(recs[i], tau).cost])

-----------------------------------------------------------------------------
(* The stream that is calibrated on.                                       *)

\* Bug: a suite that refuted its own reference still votes.
KeepsUnsound(recs) == {i \in DOMAIN recs : ~recs[i].contaminated}

Used(recs) == {i \in DOMAIN recs : ~recs[i].contaminated /\ ~recs[i].unsound}

Shadow(recs) == {i \in Used(recs) : recs[i].shadow}

Stream(recs) ==
  IF Cardinality(Shadow(recs)) >= ShadowFloor THEN Shadow(recs) ELSE Used(recs)

-----------------------------------------------------------------------------
(* The test of one threshold vector.                                       *)

Pow(b, e) ==
  LET p[k \in Nat] == IF k = 0 THEN 1 ELSE b * p[k - 1] IN p[e]

\* exp(-n h(k/n, alpha)) <= num/den, multiplied out.
Hoeffding(k, n, num, den) ==
  Pow(n, n) * Pow(AlphaNum, k) * Pow(AlphaDen - AlphaNum, n - k) * den
    <= num * Pow(AlphaDen, n) * Pow(k, k) * Pow(n - k, n - k)

\* P[X <= k] for a binomial X, times alpha's denominator to the n.
BinomCDF(k, n) ==
  Total([i \in 0..k |-> choose(n, i) * Pow(AlphaNum, i)
                          * Pow(AlphaDen - AlphaNum, n - i)])

\* e BinomCDF(k) <= num/den; e is rounded up.
Bentkus(k, n, num, den) ==
  2719 * den * BinomCDF(k, n) <= 1000 * num * Pow(AlphaDen, n)

\* Bug: an error too many is forgiven.
RejectsOneMore(k, n, num, den) ==
  /\ n > 0 /\ (k - 1) * AlphaDen < AlphaNum * n
  /\ k = 0 \/ Hoeffding(k - 1, n, num, den) \/ Bentkus(k - 1, n, num, den)

\* The p-value of "the true risk is above alpha" is at most num/den.
Rejects(k, n, num, den) ==
  /\ n > 0 /\ k * AlphaDen < AlphaNum * n
  /\ Hoeffding(k, n, num, den) \/ Bentkus(k, n, num, den)

\* The smallest n that certifies a sample without an error.
MinCalibrationSize ==
  Cardinality({n \in 0..SizeCap :
    Pow(AlphaDen - AlphaNum, n) * DeltaDen > DeltaNum * Pow(AlphaDen, n)})

-----------------------------------------------------------------------------
(* The multiple test.                                                      *)

Levels == {v \in 0..Top : v % Step = 0}

Grid(arity) == IF arity <= 0 THEN {} ELSE [1..arity -> Levels]

LexLess(t, u) ==
  \E i \in DOMAIN t : t[i] < u[i] /\ \A j \in 1..(i - 1) : t[j] = u[j]

\* The order of the fixed sequence: the most conservative vector first.
Before(t, u) ==
  \/ Total(t) > Total(u)
  \/ Total(t) = Total(u) /\ LexLess(u, t)

\* Bug: the walk goes on past a failure.
NeverStops(grid, bad, n) == {t \in grid : Rejects(bad[t], n, DeltaNum, DeltaDen)}

\* Every vector up to the first that is not rejected.
FixedSequence(grid, bad, n) ==
  {t \in grid : \A u \in grid :
     (u = t \/ Before(u, t)) => Rejects(bad[u], n, DeltaNum, DeltaDen)}

Bonferroni(grid, bad, n) ==
  {t \in grid : Rejects(bad[t], n, DeltaNum, DeltaDen * Cardinality(grid))}

\* Of the elements of S that are least by key, the first: in the order of the walk or
\* in that of the grid.
Cheapest(S, key, walked) ==
  CHOOSE t \in S : \A u \in S :
    \/ key[t] < key[u]
    \/ key[t] = key[u] /\ (t = u \/ IF walked THEN Before(t, u) ELSE LexLess(t, u))

\* What a certificate says.  Thresholds of an empty grid are empty; those of an
\* invalid certificate are the least bad ones.
Report(recs, S, tau, valid) ==
  [ok |-> TRUE, valid |-> valid, thresholds |-> tau, n |-> Cardinality(S),
   bad |-> Risk(recs, S, tau), realBad |-> RealizedRisk(recs, S, tau),
   cost |-> Cost(recs, S, tau)]

\* Calibrate over a stream, for a configuration of so many tiers.
CalibrateOn(recs, S, tiers, method) ==
  LET n == Cardinality(S)
      grid == Grid(tiers - 1)
      bad == [t \in grid |-> Risk(recs, S, t)]
      cost == [t \in grid |-> Cost(recs, S, t)]
      passed == IF method = "bonferroni" THEN Bonferroni(grid, bad, n)
                                         ELSE FixedSequence(grid, bad, n)
  IN IF n = 0 THEN [ok |-> FALSE]
     ELSE IF grid = {} THEN Report(recs, S, <<>>, TRUE)
     ELSE IF passed = {} THEN Report(recs, S, Cheapest(grid, bad, FALSE), FALSE)
     ELSE IF method = "bonferroni"
       THEN Report(recs, S, Cheapest(passed, cost, FALSE), TRUE)
       ELSE Report(recs, S, Cheapest(passed, cost, TRUE), TRUE)

CalibrateRecords(recs, tiers, method) == CalibrateOn(recs, Stream(recs), tiers, method)

\* The note that a valid certificate does not hold against execution truth.
FlagIfNominal(cert) ==
  cert.ok /\ cert.valid /\ cert.realBad * AlphaDen > AlphaNum * cert.n
=============================================================================
