------------------------------- MODULE Cluster -------------------------------
(***************************************************************************)
(* Behavioural clustering and the routing score (internal/cluster).        *)
(*                                                                         *)
(* A tier draws several candidate programs, the verifier ladder reports on *)
(* each, and the candidates that behave alike are put in one class.  The   *)
(* score a tier is routed on is a lower confidence bound on the share of   *)
(* the largest class that survived the ladder.                             *)
(*                                                                         *)
(* A candidate is [source, report]; a report is [ok, failedAt, tests,      *)
(* timedOut].  A cluster is the set of positions of its members in the     *)
(* slice of candidates: the slice is in ascending Index order, so a        *)
(* position stands for Candidate.Index.  Scores are in whole percents,     *)
(* rounded down; thresholds are whole percents too, so the comparison is   *)
(* the code's own.                                                         *)
(***************************************************************************)
EXTENDS Integers, Sequences, FiniteSets

CONSTANT Weight  \* Weight[s]: complexity*1000 + length/100 of source s

\* The classes are keyed by the test outcomes of a survivor and by the rung
\* that refuted a refuted candidate.
Behaviour(c) ==
  IF c.report.ok THEN <<"ok", c.report.tests>>
                 ELSE <<"refuted", c.report.failedAt>>

ClusterOf(cands, i) ==
  {j \in DOMAIN cands : Behaviour(cands[j]) = Behaviour(cands[i])}

Group(cands) == {ClusterOf(cands, i) : i \in DOMAIN cands}

Verified(cands, cl) == \E i \in cl : cands[i].report.ok

\* The classes Group can sort first: verified, and of the largest size.  Ties
\* are broken on a hash, which the model leaves open.
Winners(cands) ==
  {cl \in Group(cands) :
     /\ Verified(cands, cl)
     /\ \A d \in Group(cands) :
          Verified(cands, d) => Cardinality(d) <= Cardinality(cl)}

\* Bugs: the first member, however complex; the last member among the simplest.
FirstOfClass(cands, cl) == CHOOSE i \in cl : \A j \in cl : i <= j
LastOfTheSimplest(cands, cl) ==
  CHOOSE i \in cl : \A j \in cl :
    \/ Weight[cands[i].source] < Weight[cands[j].source]
    \/ Weight[cands[i].source] = Weight[cands[j].source] /\ i >= j

\* The representative of a class: its first member among the simplest.
Rep(cands, cl) ==
  CHOOSE i \in cl : \A j \in cl :
    \/ Weight[cands[i].source] < Weight[cands[j].source]
    \/ Weight[cands[i].source] = Weight[cands[j].source] /\ i <= j

\* The one-sided Wilson lower bound on k successes in n at z = 1.645, in whole
\* percents.  c percents are cleared when c/100 is at most the smaller root of
\* n (k/n - x)^2 = z^2 x (1 - x); z^2 is taken as 2.706.
WilsonLCB(k, n) ==
  IF n <= 0 THEN 0
  ELSE Cardinality({c \in 1..99 :
         /\ c * n <= 100 * k
         /\ 1000 * (100*k - c*n) * (100*k - c*n) >= 2706 * n * c * (100 - c)})

Survivors(cands) == {i \in DOMAIN cands : cands[i].report.ok}

\* Bugs: all survivors count for the winning class; the plain share of the
\* winning class among the survivors.
ScoreOfAllSurvivors(cands) == WilsonLCB(Cardinality(Survivors(cands)), Len(cands))
ScoreAmongSurvivors(cands) ==
  IF Winners(cands) = {} THEN 0
  ELSE (100 * Cardinality(CHOOSE cl \in Winners(cands) : TRUE))
         \div Cardinality(Survivors(cands))

\* The share of the largest verified class in the whole fan-out, as its lower
\* bound; 0 means that nothing survived.
Score(cands) ==
  IF Winners(cands) = {} THEN 0
  ELSE WilsonLCB(Cardinality(CHOOSE cl \in Winners(cands) : TRUE), Len(cands))

UnanimousScore(n) == WilsonLCB(n, n)
=============================================================================
