------------------------------- MODULE Config -------------------------------
(***************************************************************************)
(* What a configuration is refused for (internal/config/config.go), and    *)
(* the score from which the cache admits an answer, derived from the tiers *)
(* when the file names none.                                               *)
(*                                                                         *)
(* A configuration is [tiers, alpha, budget, planner, testModel, cacheDir, *)
(* admit]: tiers is a sequence of [samples, price, planner], alpha and     *)
(* admit are whole percents, "" is a model or a directory not named.       *)
(***************************************************************************)
EXTENDS Cluster

Fanouts(c) == {c.tiers[k].samples : k \in DOMAIN c.tiers}

\* The best score any tier can report.
MaxAttainableScore(c) ==
  LET widest == CHOOSE n \in Fanouts(c) : \A m \in Fanouts(c) : m <= n
  IN UnanimousScore(widest)

\* Bug: unanimity at the widest fan-out, which the last tier never reaches.
WidestAdmitScore(c) == MaxAttainableScore(c)

\* Unanimity at the narrowest fan-out.
DefaultAdmitScore(c) ==
  LET narrowest == CHOOSE n \in Fanouts(c) : \A m \in Fanouts(c) : n <= m
  IN UnanimousScore(narrowest)

\* A file that names no score, or 0, gets the default for its own tiers.
Load(c) == IF c.admit = 0 THEN [c EXCEPT !.admit = DefaultAdmitScore(c)] ELSE c

AdmissionReachable(c) ==
  c.cacheDir # "" /\ c.admit > 0 => c.admit <= MaxAttainableScore(c)

\* The refusals of Validate before the one of the admission score.
Consistent(c) ==
  /\ c.tiers # <<>>
  /\ (c.alpha > 0) # (c.budget > 0)
  /\ c.alpha \in 0..99
  /\ \A k \in DOMAIN c.tiers : k > 1 => c.tiers[k-1].price <= c.tiers[k].price
  /\ c.planner # "" => c.planner # c.testModel
  /\ \A k \in DOMAIN c.tiers :
       /\ c.tiers[k].samples >= 1
       /\ c.tiers[k].planner # "" => c.tiers[k].planner # c.testModel
       /\ c.planner = "" \/ c.tiers[k].planner = ""

Validate(c) == Consistent(c) /\ AdmissionReachable(c)
=============================================================================
