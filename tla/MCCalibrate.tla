----------------------------- MODULE MCCalibrate -----------------------------
(***************************************************************************)
(* Calibration records coming in one by one, of every kind the collectors  *)
(* write, in a fixed order of kinds (a certificate does not depend on the  *)
(* order of the records, and the stable sorts break ties on it).           *)
(***************************************************************************)
EXTENDS Certify

CONSTANTS
  MaxPlain,    \* records when only execution-labelled shadow records come in
  MaxMixed,    \* records otherwise
  SampleSize   \* the calibration sample drawn from a population of MaxPlain

Obs(score, correct, truth, cost) ==
  [score |-> score, correct |-> correct, truth |-> truth, cost |-> cost]

Row(obs) ==
  [tiers |-> obs, hit |-> FALSE, hitCorrect |-> FALSE, hitCost |-> 0,
   contaminated |-> FALSE, unsound |-> FALSE, shadow |-> TRUE]

\* Labelled by execution, two tiers: every score of the first and every verdict.
Plain2 == [k \in 1..(4 * Cardinality(Levels)) |->
  Row(<<Obs(((k - 1) \div 4) * Step, k % 2 = 1, {}, 1),
        Obs(Top, (k \div 2) % 2 = 1, {}, 4)>>)]

\* Three tiers: the cheapest or the middle one alone is right, scored high or low,
\* the last one alone, or none.
Plain3 ==
  <<Row(<<Obs(0, FALSE, {}, 1), Obs(0, FALSE, {}, 2), Obs(Top, FALSE, {}, 4)>>),
    Row(<<Obs(0, FALSE, {}, 1), Obs(0, FALSE, {}, 2), Obs(Top, TRUE, {}, 4)>>),
    Row(<<Obs(Top, FALSE, {}, 1), Obs(0, FALSE, {}, 2), Obs(Top, TRUE, {}, 4)>>),
    Row(<<Obs(0, FALSE, {}, 1), Obs(Top, FALSE, {}, 2), Obs(Top, TRUE, {}, 4)>>),
    Row(<<Obs(0, FALSE, {}, 1), Obs(Top, TRUE, {}, 2), Obs(Top, FALSE, {}, 4)>>),
    Row(<<Obs(Step, TRUE, {}, 1), Obs(0, FALSE, {}, 2), Obs(Top, FALSE, {}, 4)>>),
    Row(<<Obs(Top, TRUE, {}, 1), Obs(0, FALSE, {}, 2), Obs(Top, TRUE, {}, 4)>>)>>

Wrong == Row(<<Obs(Top, FALSE, {}, 1), Obs(Top, FALSE, {}, 4)>>)
Right == Row(<<Obs(Top, TRUE, {}, 1), Obs(Top, TRUE, {}, 4)>>)

\* Records that do not vote, records outside the shadow stream, a judge's wrong
\* rulings, a cache hit, a last tier that is cheap, a tier that cost nothing.
Odd ==
  <<[Wrong EXCEPT !.contaminated = TRUE], [Right EXCEPT !.unsound = TRUE],
    [Wrong EXCEPT !.unsound = TRUE],
    [Right EXCEPT !.shadow = FALSE], [Wrong EXCEPT !.shadow = FALSE],
    Row(<<Obs(Top, TRUE, {FALSE}, 1), Obs(Top, TRUE, {TRUE}, 4)>>),
    Row(<<Obs(Top, FALSE, {TRUE}, 1), Obs(Top, FALSE, {TRUE}, 4)>>),
    [Row(<<>>) EXCEPT !.hit = TRUE, !.hitCorrect = TRUE],
    Row(<<Obs(0, FALSE, {}, 3), Obs(Top, TRUE, {}, 1)>>),
    Row(<<Obs(0, TRUE, {}, 1), Obs(Top, TRUE, {}, 0)>>)>>

Plain == IF tiers = 2 THEN Plain2 ELSE Plain3

Kinds == IF tiers = 2 THEN Plain2 \o Odd ELSE Plain3

MCRecords == Range(Plain2) \cup Range(Plain3) \cup Range(Odd)

Place(r) == CHOOSE k \in DOMAIN Kinds : Kinds[k] = r

AllPlain(rs) == \A i \in DOMAIN rs : \E k \in DOMAIN Plain : rs[i] = Plain[k]

MCNext ==
  \E k \in DOMAIN Kinds :
    /\ recs # <<>> => Place(recs[Len(recs)]) <= k
    /\ RecordComes(Kinds[k])
    /\ Len(recs') <= IF AllPlain(recs') THEN MaxPlain ELSE MaxMixed

MCSpec == Init /\ [][MCNext]_vars

-----------------------------------------------------------------------------
\* A certificate keeps its word (ltt.go:192-195): take the records as a
\* population each of whose members is as likely, draw a calibration sample from
\* it with replacement, and the chance that a valid certificate's thresholds
\* err more often than alpha over the population is at most delta.
PromiseKept ==
  Len(recs) = MaxPlain /\ AllPlain(recs) =>
    \A m \in Methods :
      LET broken == {draw \in [1..SampleSize -> Collected] :
            LET cert == CalibrateRecords([i \in 1..SampleSize |-> recs[draw[i]]], tiers, m)
            IN /\ cert.ok /\ cert.valid
               /\ Risk(recs, Collected, cert.thresholds) * AlphaDen > AlphaNum * Len(recs)}
      IN Cardinality(broken) * DeltaDen <= DeltaNum * Len(recs) ^ SampleSize
=============================================================================
