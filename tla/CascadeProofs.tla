----------------------------- MODULE CascadeProofs -----------------------------
(***************************************************************************)
(* Theorems about Router.Solve, for any tiers, programs, oracles, faults   *)
(* and number of solves.  First the invariant and the soundness of an      *)
(* answer.  Then what the router promises beyond that, each by an          *)
(* invariant of its own: the holdout is not shopped against and not        *)
(* quoted, the cheapest survivor wins, what the certificate and the        *)
(* contamination flag say is so, and the record of a solve is right.       *)
(***************************************************************************)
EXTENDS Cascade, ClusterProofs

-----------------------------------------------------------------------------
(* The inductive invariant.  A report of a fan-out that says OK was earned  *)
(* against the oracle of this solve, and the oracle does not change once    *)
(* there are reports; what waits for the holdout is a survivor; there is no *)
(* answer before the end of the cascade; the stored suites are whole.       *)

Earned(c) ==
  c.report.ok => /\ c.source \in spec.vis
                 /\ conf.deadline \/ ~Races(c.source)

ReportsEarned ==
  /\ \A i \in DOMAIN cands : Earned(cands[i])
  /\ \A k \in Tiers : \A i \in DOMAIN outs[k].cands : Earned(outs[k].cands[i])

NoReportsBeforeTheOracle ==
  pc = "spec" => cands = <<>> /\ \A k \in Tiers : outs[k].cands = <<>>

FanOutInHand ==
  /\ pc \in {"route", "repair"} => cands # <<>>
  /\ pc = "accept" => chosen \in DOMAIN cands /\ cands[chosen].report.ok

TierInRange ==
  pc \in {"spec", "cache", "cascade", "tier", "sample", "route", "repair", "accept", "fanout"}
    => tier \in Tiers

NoAnswerYet ==
  pc \notin {"finish", "done", "failed"} =>
    ~res.solved /\ res.source = NoSource /\ res.acceptedAt = Nowhere /\ res.err = ""

AnswerIsWhole ==
  IF res.solved THEN res.acceptedAt # Nowhere ELSE res.source = NoSource

SuitesAreWhole ==
  \A p \in Problems : specs[p] = NoSpec \/ Suite(specs[p]) \in Oracles

IInv == /\ TypeOK
        /\ ReportsEarned
        /\ NoReportsBeforeTheOracle
        /\ FanOutInHand
        /\ TierInRange
        /\ NoAnswerYet
        /\ AnswerIsWhole
        /\ SuitesAreWhole
        /\ AcceptedPassedItsOracle

-----------------------------------------------------------------------------
(* What the verifier hands to the router. *)

LEMMA RefutedTyped ==
  ASSUME NEW p \in Programs, NEW stage \in Stages, NEW late \in BOOLEAN
  PROVE  RefutedAt(p, stage, late) \in Report /\ ~RefutedAt(p, stage, late).ok
<1> DEFINE q == CASE stage = StageVet -> Facts[p].quotes
                  [] stage \in {StageTest, StageRace} -> {"visible"}
                  [] OTHER -> {}
<1>1. q \in SUBSET Texts
  <2>1. Facts[p].quotes \subseteq {"visible", "hidden"}
    BY ProgramsAssumption
  <2> QED BY <2>1 DEF Texts
<1>2. RefutedAt(p, stage, late) =
        [ok |-> FALSE, failedAt |-> stage, tests |-> "none", timedOut |-> late, quotes |-> q]
  BY DEF RefutedAt
<1> HIDE DEF q
<1> QED BY <1>1, <1>2 DEF Report, Outcomes

LEMMA SurvivedTyped ==
  ASSUME NEW p \in Programs
  PROVE  Survived(p) \in Report
BY DEF Survived, Report, Outcomes, Stages, StageParse

\* A report is well formed, and one that says OK says the truth (ladder.go:161-293).
LEMMA ReportsTrue ==
  ASSUME TypeOK, NEW p \in Programs, NEW r \in Reports(p)
  PROVE  /\ r \in Report
         /\ r.ok => p \in spec.vis /\ (conf.deadline \/ ~Races(p))
<1>1. Facts[p].stage \in Stages
  BY ProgramsAssumption DEF Stages
<1>2. \/ r = Verdict(p)
      \/ r = RefutedAt(p, StageTest, TRUE)
      \/ r = RefutedAt(p, StageBuild, ctx = "expired")
  BY DEF Reports
<1>3. StageTest \in Stages /\ StageBuild \in Stages /\ StageRace \in Stages
  BY DEF StageTest, StageBuild, StageRace, Stages
<1>4. CASE r = Verdict(p)
  <2>1. CASE p \notin spec.vis
    BY <1>1, <1>4, <2>1, RefutedTyped DEF Verdict
  <2>2. CASE p \in spec.vis /\ Races(p) /\ ~conf.deadline
    BY <1>3, <1>4, <2>2, RefutedTyped DEF Verdict
  <2>3. CASE p \in spec.vis /\ ~(Races(p) /\ ~conf.deadline)
    BY <1>4, <2>3, SurvivedTyped DEF Verdict
  <2> QED BY <2>1, <2>2, <2>3
<1>5. CASE r = RefutedAt(p, StageTest, TRUE)
  BY <1>3, <1>5, RefutedTyped
<1>6. CASE r = RefutedAt(p, StageBuild, ctx = "expired")
  BY <1>3, <1>6, RefutedTyped
<1> QED BY <1>2, <1>4, <1>5, <1>6

LEMMA SampledEarned ==
  ASSUME TypeOK, NEW c \in Sampled
  PROVE  c \in Candidate /\ Earned(c)
<1>1. PICK p \in Programs : \E r \in Reports(p) : c = [source |-> p, report |-> r]
  BY DEF Sampled
<1> QED BY <1>1, ReportsTrue DEF Candidate, Earned

LEMMA FanOutEarned ==
  ASSUME TypeOK, NEW n \in Nat, NEW cs \in [1..n -> Sampled]
  PROVE  /\ cs \in Seq(Candidate)
         /\ \A i \in DOMAIN cs : Earned(cs[i])
         /\ Len(cs) = n
<1>1. \A i \in 1..n : cs[i] \in Candidate /\ Earned(cs[i])
  BY SampledEarned
<1>2. cs \in [1..n -> Candidate]
  BY <1>1
<1> QED BY <1>1, <1>2

\* What passes both partitions passes them (cascade.go:341, 730-757).
LEMMA AcceptedIsHidden ==
  ASSUME NEW p, TRUE \in AcceptVerdicts(p)
  PROVE  p \in spec.hid
BY DEF AcceptVerdicts

LEMMA MemberTyped ==
  ASSUME NEW cs \in Seq(Candidate), NEW i \in DOMAIN cs
  PROVE  /\ cs[i] \in Candidate
         /\ cs[i].source \in Programs
         /\ cs[i].report \in Report
         /\ cs[i].report.failedAt \in 0..8
         /\ cs[i].report.quotes \in SUBSET Texts
<1>1. cs[i] \in Candidate
  OBVIOUS
<1> QED BY <1>1 DEF Candidate, Report, Stages

\* The best of a refuted fan-out is one of it.
LEMMA BestIsMember ==
  ASSUME NEW cs \in Seq(Candidate), cs # <<>>
  PROVE  BestRefuted(cs) \in DOMAIN cs /\ cs[BestRefuted(cs)].report.quotes \subseteq Texts
<1> DEFINE f == [i \in DOMAIN cs |-> 8 - cs[i].report.failedAt]
<1>1. \A i \in DOMAIN cs : cs[i] \in Candidate /\ cs[i].report.failedAt \in 0..8
  BY MemberTyped
<1>2. DOMAIN cs \in SUBSET Nat /\ DOMAIN cs # {}
  OBVIOUS
<1>3. f \in [DOMAIN cs -> Nat]
  BY <1>1
<1>4. \E i \in DOMAIN cs : \A j \in DOMAIN cs : f[i] < f[j] \/ (f[i] = f[j] /\ i <= j)
  <2> HIDE DEF f
  <2> QED BY <1>2, <1>3, FirstLeast
<1>5. \E i \in DOMAIN cs : \A j \in DOMAIN cs :
        \/ cs[i].report.failedAt > cs[j].report.failedAt
        \/ cs[i].report.failedAt = cs[j].report.failedAt /\ i <= j
  <2> DEFINE g(i) == cs[i].report.failedAt
  <2>1. \A i \in DOMAIN cs : g(i) \in 0..8 /\ f[i] = 8 - g(i)
    BY <1>1
  <2> HIDE DEF f, g
  <2>2. PICK i \in DOMAIN cs : \A j \in DOMAIN cs : f[i] < f[j] \/ (f[i] = f[j] /\ i <= j)
    BY <1>4
  <2>3. ASSUME NEW j \in DOMAIN cs
        PROVE  g(i) > g(j) \/ (g(i) = g(j) /\ i <= j)
    <3>1. g(i) \in 0..8 /\ g(j) \in 0..8 /\ f[i] = 8 - g(i) /\ f[j] = 8 - g(j)
      BY <2>1
    <3>2. f[i] < f[j] \/ (f[i] = f[j] /\ i <= j)
      BY <2>2
    <3> QED BY <3>1, <3>2
  <2> QED BY <2>3 DEF g
<1>6. BestRefuted(cs) \in DOMAIN cs
  BY <1>5 DEF BestRefuted
<1> QED BY <1>6, MemberTyped

\* The representative of a winning class is a survivor of the fan-out.
LEMMA RepSurvived ==
  ASSUME NEW cs \in Seq(Candidate), NEW w \in Winners(cs)
  PROVE  /\ Rep(cs, w) \in DOMAIN cs
         /\ cs[Rep(cs, w)].report.ok
         /\ cs[Rep(cs, w)].source \in Programs
<1>1. w \subseteq DOMAIN cs /\ w # {} /\ \A i \in w : cs[i].report.ok
  BY WinnersSurvived
<1>2. w \in SUBSET Nat
  BY <1>1
<1>3. \A i \in w : cs[i].source \in Programs
  BY <1>1, MemberTyped
<1>4. \A i \in w : Weight[cs[i].source] \in Nat
  BY <1>3, ProgramsAssumption
<1>5. Rep(cs, w) \in w
  BY <1>1, <1>2, <1>4, RepIsMember
<1> QED BY <1>1, <1>3, <1>5

LEMMA FailuresTyped ==
  ASSUME TypeOK, NEW cs \in Seq(Candidate)
  PROVE  RecordFailure(cs) \in [Problems -> SUBSET [source : Programs, quotes : SUBSET Texts]]
<1> DEFINE known == {f.source : f \in failures[problem]}
           news  == {i \in DOMAIN cs :
                  /\ ~cs[i].report.ok
                  /\ cs[i].source \notin known
                  /\ Facts[cs[i].source].stage # StageParse
                  /\ \A j \in DOMAIN cs :
                       j < i /\ ~cs[j].report.ok => cs[j].source # cs[i].source}
           added == {[source |-> cs[i].source, quotes |-> cs[i].report.quotes] : i \in news}
<1>1. \A i \in DOMAIN cs : cs[i].source \in Programs /\ cs[i].report.quotes \in SUBSET Texts
  BY MemberTyped
<1>2. added \subseteq [source : Programs, quotes : SUBSET Texts]
  BY <1>1
<1>3. RecordFailure(cs) = IF CacheEnabled THEN [failures EXCEPT ![problem] = @ \cup added]
                                          ELSE failures
  BY DEF RecordFailure
<1> HIDE DEF added
<1>4. failures \in [Problems -> SUBSET [source : Programs, quotes : SUBSET Texts]]
  BY DEF TypeOK, DiskTyped
<1> QED BY <1>2, <1>3, <1>4

-----------------------------------------------------------------------------
(* Every step keeps the invariant. *)

LEMMA FailKeeps ==
  ASSUME IInv, NEW why \in {"spec", "planner", "coder", "ctx", "killed"}, Fail(why)
  PROVE  IInv'
<1> USE DEF IInv, TypeOK, disk, job, history, Fail
<1>1. DiskTyped' /\ JobTyped'
  BY DEF DiskTyped, JobTyped
<1>2. ControlTyped'
  BY DEF ControlTyped, PCs
<1>3. WorkTyped'
  BY TiersAssumption DEF WorkTyped, NoWork, Running, Tiers
<1>4. ResultTyped' /\ HistoryTyped'
  BY DEF ResultTyped, Results, HistoryTyped
<1>5. ReportsEarned'
  BY DEF ReportsEarned, Earned, NoWork, Running
<1>6. NoReportsBeforeTheOracle' /\ FanOutInHand' /\ TierInRange'
  BY DEF NoReportsBeforeTheOracle, FanOutInHand, TierInRange
<1>7. NoAnswerYet' /\ AnswerIsWhole' /\ SuitesAreWhole'
  BY DEF NoAnswerYet, AnswerIsWhole, SuitesAreWhole, Suite, ResultTyped, Results
<1>8. AcceptedPassedItsOracle'
  BY DEF AcceptedPassedItsOracle, ResultTyped, Results
<1> QED
  BY <1>1, <1>2, <1>3, <1>4, <1>5, <1>6, <1>7, <1>8

LEMMA StartSolveKeeps ==
  ASSUME IInv, StartSolve
  PROVE  IInv'
<1> USE DEF IInv, TypeOK, disk, job, work, history
<1>1. DiskTyped' /\ JobTyped'
  BY RunAssumption DEF StartSolve, DiskTyped, JobTyped
<1>2. ControlTyped'
  BY DEF StartSolve, ControlTyped, PCs, Oracle, NoSpec
<1>3. WorkTyped'
  BY TiersAssumption DEF StartSolve, WorkTyped, NoWork, Running, Tiers
<1>4. ResultTyped'
  <2>1. NoResult \in Results
    BY DEF NoResult, Results, Arms
  <2> QED BY <2>1 DEF StartSolve, ResultTyped
<1>5. HistoryTyped'
  BY DEF StartSolve, HistoryTyped, NoRecord
<1>6. ReportsEarned'
  BY DEF StartSolve, ReportsEarned, Earned, NoWork, Running
<1>7. NoReportsBeforeTheOracle' /\ FanOutInHand' /\ TierInRange'
  BY TiersAssumption DEF StartSolve, NoReportsBeforeTheOracle, FanOutInHand, TierInRange, NoWork, Running, Tiers
<1>8. NoAnswerYet' /\ AnswerIsWhole'
  BY DEF StartSolve, NoAnswerYet, AnswerIsWhole, NoResult
<1>9. SuitesAreWhole'
  BY DEF StartSolve, SuitesAreWhole, Suite
<1>10. AcceptedPassedItsOracle'
  BY DEF StartSolve, AcceptedPassedItsOracle, NoResult
<1> QED
  BY <1>1, <1>2, <1>3, <1>4, <1>5, <1>6, <1>7, <1>8, <1>9, <1>10

LEMMA ContextDoneKeeps ==
  ASSUME IInv, ContextDone
  PROVE  IInv'
<1> USE DEF IInv, TypeOK, disk, job, work, history
<1>1. DiskTyped' /\ JobTyped'
  BY DEF ContextDone, DiskTyped, JobTyped
<1>2. ControlTyped'
  BY DEF ContextDone, ControlTyped, PCs
<1>3. WorkTyped'
  BY DEF ContextDone, WorkTyped
<1>4. ResultTyped'
  BY DEF ContextDone, ResultTyped
<1>5. HistoryTyped'
  BY DEF ContextDone, HistoryTyped
<1>6. ReportsEarned'
  BY DEF ContextDone, ReportsEarned, Earned
<1>7. NoReportsBeforeTheOracle' /\ FanOutInHand' /\ TierInRange'
  BY DEF ContextDone, NoReportsBeforeTheOracle, FanOutInHand, TierInRange
<1>8. NoAnswerYet' /\ AnswerIsWhole'
  BY DEF ContextDone, NoAnswerYet, AnswerIsWhole
<1>9. SuitesAreWhole'
  BY DEF ContextDone, SuitesAreWhole, Suite
<1>10. AcceptedPassedItsOracle'
  BY DEF ContextDone, AcceptedPassedItsOracle
<1> QED
  BY <1>1, <1>2, <1>3, <1>4, <1>5, <1>6, <1>7, <1>8, <1>9, <1>10

LEMMA ReuseSpecKeeps ==
  ASSUME IInv, ReuseSpec
  PROVE  IInv'
<1> USE DEF IInv, TypeOK, disk, job, work, history
<1>1. DiskTyped' /\ JobTyped'
  BY DEF ReuseSpec, DiskTyped, JobTyped
<1>2. ControlTyped'
  BY DEF ReuseSpec, ControlTyped, PCs, AfterSpec, DiskTyped, JobTyped
<1>3. WorkTyped'
  BY DEF ReuseSpec, WorkTyped
<1>4. ResultTyped'
  BY DEF ReuseSpec, ResultTyped
<1>5. HistoryTyped'
  BY DEF ReuseSpec, HistoryTyped
<1>6. ReportsEarned'
  BY DEF ReuseSpec, ReportsEarned, Earned, NoReportsBeforeTheOracle
<1>7. NoReportsBeforeTheOracle' /\ FanOutInHand' /\ TierInRange'
  BY DEF ReuseSpec, NoReportsBeforeTheOracle, FanOutInHand, TierInRange, AfterSpec
<1>8. NoAnswerYet' /\ AnswerIsWhole'
  BY DEF ReuseSpec, NoAnswerYet, AnswerIsWhole
<1>9. SuitesAreWhole'
  BY DEF ReuseSpec, SuitesAreWhole, Suite
<1>10. AcceptedPassedItsOracle'
  BY DEF ReuseSpec, AcceptedPassedItsOracle, NoAnswerYet
<1> QED
  BY <1>1, <1>2, <1>3, <1>4, <1>5, <1>6, <1>7, <1>8, <1>9, <1>10

LEMMA GenerateSpecKeeps ==
  ASSUME IInv, GenerateSpec
  PROVE  IInv'
<1> USE DEF IInv, TypeOK, disk, job, work, history
<1>1. DiskTyped' /\ JobTyped'
  <2>1. \A o \in Oracles, m \in TestModels :
          [author |-> m, vis |-> o.vis, hid |-> o.hid] \in Oracle
    BY ProgramsAssumption, RunAssumption DEF Oracle
  <2>2. spec' \in Oracle
    BY <2>1 DEF GenerateSpec, JobTyped
  <2> QED BY <2>2 DEF GenerateSpec, DiskTyped, JobTyped
<1>2. ControlTyped'
  <2>1. \A o \in Oracles, m \in TestModels :
          [author |-> m, vis |-> o.vis, hid |-> o.hid] \in Oracle
    BY ProgramsAssumption, RunAssumption DEF Oracle
  <2> QED BY <2>1 DEF GenerateSpec, JobTyped, ControlTyped, PCs, AfterSpec
<1>3. WorkTyped'
  BY DEF GenerateSpec, WorkTyped
<1>4. ResultTyped'
  BY DEF GenerateSpec, ResultTyped
<1>5. HistoryTyped'
  BY DEF GenerateSpec, HistoryTyped
<1>6. ReportsEarned'
  BY DEF GenerateSpec, ReportsEarned, Earned, NoReportsBeforeTheOracle
<1>7. NoReportsBeforeTheOracle' /\ FanOutInHand' /\ TierInRange'
  BY DEF GenerateSpec, NoReportsBeforeTheOracle, FanOutInHand, TierInRange, AfterSpec
<1>8. NoAnswerYet' /\ AnswerIsWhole'
  BY DEF GenerateSpec, NoAnswerYet, AnswerIsWhole, AfterSpec
<1>9. SuitesAreWhole'
  <2>1. Suite(spec') \in Oracles
    BY ProgramsAssumption DEF GenerateSpec, Suite
  <2> QED BY <2>1 DEF GenerateSpec, SuitesAreWhole, DiskTyped
<1>10. AcceptedPassedItsOracle'
  BY DEF GenerateSpec, AcceptedPassedItsOracle, NoAnswerYet
<1> QED
  BY <1>1, <1>2, <1>3, <1>4, <1>5, <1>6, <1>7, <1>8, <1>9, <1>10

LEMMA CacheHitKeeps ==
  ASSUME IInv, CacheHit
  PROVE  IInv'
<1> USE DEF IInv, TypeOK, disk, job, work, history
<1>1. DiskTyped' /\ JobTyped'
  BY DEF CacheHit, DiskTyped, JobTyped
<1>2. ControlTyped'
  BY DEF CacheHit, ControlTyped, PCs
<1>3. WorkTyped'
  BY DEF CacheHit, WorkTyped
<1>4. ResultTyped'
  <2>1. \A H \in Retrieve : \A h \in H : h.source \in Programs
    BY DEF Retrieve, Candidates, DiskTyped, Entry
  <2>2. PICK s \in Programs :
          res' = [res EXCEPT !.solved = TRUE, !.source = s, !.acceptedAt = CacheArm, !.score = 100]
    BY <2>1 DEF CacheHit
  <2>3. res' = [solved |-> TRUE, source |-> s, acceptedAt |-> CacheArm, score |-> 100,
                certified |-> res.certified, contaminated |-> res.contaminated, err |-> res.err]
    BY <2>2 DEF ResultTyped, Results
  <2>4. CacheArm \in Arms /\ 100 \in 0..100
    BY DEF Arms
  <2>5. res' \in Results
    BY <2>3, <2>4 DEF ResultTyped, Results
  <2> QED BY <2>5 DEF CacheHit, ResultTyped
<1>5. HistoryTyped'
  BY DEF CacheHit, HistoryTyped
<1>6. ReportsEarned'
  BY DEF CacheHit, ReportsEarned, Earned
<1>7. NoReportsBeforeTheOracle' /\ FanOutInHand' /\ TierInRange'
  BY DEF CacheHit, NoReportsBeforeTheOracle, FanOutInHand, TierInRange
<1>8. NoAnswerYet' /\ AnswerIsWhole'
  <2>1. res'.solved /\ res'.acceptedAt = CacheArm
    BY DEF CacheHit, ResultTyped, Results
  <2>2. NoAnswerYet'
    BY DEF CacheHit, NoAnswerYet
  <2> QED BY <2>1, <2>2 DEF AnswerIsWhole, CacheArm, Nowhere
<1>9. SuitesAreWhole'
  BY DEF CacheHit, SuitesAreWhole, Suite
<1>10. AcceptedPassedItsOracle'
  <2>1. PICK h \in solutions :
          MayPassBoth(h.source) /\ res'.source = h.source
    BY DEF CacheHit, Retrieve, Candidates, ResultTyped, Results
  <2>2. h.source \in Programs
    BY DEF DiskTyped, Entry
  <2>3. PICK r \in Reports(h.source) : r.ok
    BY <2>1 DEF MayPassBoth
  <2>4. h.source \in spec.vis /\ (conf.deadline \/ ~Races(h.source))
    BY <2>2, <2>3, ReportsTrue
  <2>5. h.source \in spec.hid
    BY <2>1, AcceptedIsHidden DEF MayPassBoth
  <2> QED BY <2>1, <2>4, <2>5 DEF CacheHit, AcceptedPassedItsOracle
<1> QED
  BY <1>1, <1>2, <1>3, <1>4, <1>5, <1>6, <1>7, <1>8, <1>9, <1>10

LEMMA CacheMissKeeps ==
  ASSUME IInv, CacheMiss
  PROVE  IInv'
<1> USE DEF IInv, TypeOK, disk, job, work, history
<1>1. DiskTyped' /\ JobTyped'
  BY DEF CacheMiss, DiskTyped, JobTyped
<1>2. ControlTyped'
  BY DEF CacheMiss, ControlTyped, PCs
<1>3. WorkTyped'
  BY DEF CacheMiss, WorkTyped
<1>4. ResultTyped'
  BY DEF CacheMiss, ResultTyped
<1>5. HistoryTyped'
  BY DEF CacheMiss, HistoryTyped
<1>6. ReportsEarned'
  BY DEF CacheMiss, ReportsEarned, Earned
<1>7. NoReportsBeforeTheOracle' /\ FanOutInHand' /\ TierInRange'
  BY DEF CacheMiss, NoReportsBeforeTheOracle, FanOutInHand, TierInRange
<1>8. NoAnswerYet' /\ AnswerIsWhole'
  BY DEF CacheMiss, NoAnswerYet, AnswerIsWhole
<1>9. SuitesAreWhole'
  BY DEF CacheMiss, SuitesAreWhole, Suite
<1>10. AcceptedPassedItsOracle'
  BY DEF CacheMiss, AcceptedPassedItsOracle
<1> QED
  BY <1>1, <1>2, <1>3, <1>4, <1>5, <1>6, <1>7, <1>8, <1>9, <1>10

LEMMA FinishUnsolvedKeeps ==
  ASSUME IInv, FinishUnsolved
  PROVE  IInv'
<1> USE DEF IInv, TypeOK, disk, job, work, history
<1>1. DiskTyped' /\ JobTyped'
  BY DEF FinishUnsolved, DiskTyped, JobTyped
<1>2. ControlTyped'
  BY DEF FinishUnsolved, ControlTyped, PCs
<1>3. WorkTyped'
  BY TiersAssumption DEF FinishUnsolved, WorkTyped, NoWork, Running, Tiers
<1>4. ResultTyped'
  BY DEF FinishUnsolved, ResultTyped
<1>5. HistoryTyped'
  BY DEF FinishUnsolved, HistoryTyped
<1>6. ReportsEarned'
  BY DEF FinishUnsolved, ReportsEarned, Earned, NoWork, Running
<1>7. NoReportsBeforeTheOracle' /\ FanOutInHand' /\ TierInRange'
  BY DEF FinishUnsolved, NoReportsBeforeTheOracle, FanOutInHand, TierInRange
<1>8. NoAnswerYet' /\ AnswerIsWhole'
  BY DEF FinishUnsolved, NoAnswerYet, AnswerIsWhole
<1>9. SuitesAreWhole'
  BY DEF FinishUnsolved, SuitesAreWhole, Suite
<1>10. AcceptedPassedItsOracle'
  BY DEF FinishUnsolved, AcceptedPassedItsOracle
<1> QED
  BY <1>1, <1>2, <1>3, <1>4, <1>5, <1>6, <1>7, <1>8, <1>9, <1>10

LEMMA FinishKeeps ==
  ASSUME IInv, Finish
  PROVE  IInv'
<1> USE DEF IInv, TypeOK, disk, job, work, history
<1>1. DiskTyped' /\ JobTyped'
  <2>1. ASSUME Admissible
        PROVE  [problem |-> problem, source |-> res.source, score |-> res.score,
                tier |-> res.acceptedAt, oracle |-> spec.author] \in Entry
    <3>1. res.acceptedAt \in Tiers
      BY <2>1 DEF Finish, Admissible, AnswerIsWhole, ResultTyped, Results, Arms
    <3>2. res.source \in Programs
      BY DEF Finish, AcceptedPassedItsOracle, ControlTyped, Oracle
    <3> QED BY <3>1, <3>2 DEF Entry, JobTyped, ControlTyped, Oracle, ResultTyped, Results
  <2>2. solutions' \subseteq Entry
    BY <2>1 DEF Finish, PutSolution, DiskTyped
  <2> QED BY <2>2 DEF Finish, DiskTyped, JobTyped
<1>2. ControlTyped'
  BY DEF Finish, ControlTyped, PCs
<1>3. WorkTyped'
  BY TiersAssumption DEF Finish, WorkTyped, NoWork, Running, Tiers
<1>4. ResultTyped'
  BY DEF Finish, ResultTyped
<1>5. HistoryTyped'
  <2>1. \A i \in DOMAIN trace : trace[i] \in Steps
    BY DEF ResultTyped
  <2>2. \A i \in DOMAIN trace : trace[i].tier \in Tiers
    BY <2>1 DEF Steps
  <2>3. \A i \in Observations :
          [tier |-> trace[i].tier, correct |-> trace[i].action = "accept" /\ res.solved] \in Observation
    BY <2>2 DEF Observations, Observation, ResultTyped, Results
  <2>4. observed' = Record
    BY DEF Finish
  <2>5. observed'.cacheHit \in BOOLEAN /\ \A i \in DOMAIN observed'.tiers : observed'.tiers[i] \in Observation
    BY <2>3, <2>4 DEF Record
  <2> QED BY <2>5 DEF Finish, HistoryTyped
<1>6. ReportsEarned'
  BY DEF Finish, ReportsEarned, Earned, NoWork, Running
<1>7. NoReportsBeforeTheOracle' /\ FanOutInHand' /\ TierInRange'
  BY DEF Finish, NoReportsBeforeTheOracle, FanOutInHand, TierInRange
<1>8. NoAnswerYet' /\ AnswerIsWhole'
  BY DEF Finish, NoAnswerYet, AnswerIsWhole
<1>9. SuitesAreWhole'
  BY DEF Finish, SuitesAreWhole, Suite
<1>10. AcceptedPassedItsOracle'
  BY DEF Finish, AcceptedPassedItsOracle
<1> QED
  BY <1>1, <1>2, <1>3, <1>4, <1>5, <1>6, <1>7, <1>8, <1>9, <1>10

-----------------------------------------------------------------------------
(* The sequential topology. *)

LEMMA EnterSequentialKeeps ==
  ASSUME IInv, EnterSequential
  PROVE  IInv'
<1> USE DEF IInv, TypeOK, disk, job, work, history
<1>1. DiskTyped' /\ JobTyped'
  BY DEF EnterSequential, DiskTyped, JobTyped
<1>2. ControlTyped'
  BY DEF EnterSequential, ControlTyped, PCs
<1>3. WorkTyped'
  BY DEF EnterSequential, WorkTyped
<1>4. ResultTyped'
  BY DEF EnterSequential, ResultTyped
<1>5. HistoryTyped'
  BY DEF EnterSequential, HistoryTyped
<1>6. ReportsEarned'
  BY DEF EnterSequential, ReportsEarned, Earned
<1>7. NoReportsBeforeTheOracle' /\ FanOutInHand' /\ TierInRange'
  BY DEF EnterSequential, NoReportsBeforeTheOracle, FanOutInHand, TierInRange
<1>8. NoAnswerYet' /\ AnswerIsWhole'
  BY DEF EnterSequential, NoAnswerYet, AnswerIsWhole
<1>9. SuitesAreWhole'
  BY DEF EnterSequential, SuitesAreWhole, Suite
<1>10. AcceptedPassedItsOracle'
  BY DEF EnterSequential, AcceptedPassedItsOracle
<1> QED
  BY <1>1, <1>2, <1>3, <1>4, <1>5, <1>6, <1>7, <1>8, <1>9, <1>10

LEMMA TierHeadKeeps ==
  ASSUME IInv, TierHead
  PROVE  IInv'
<1> USE DEF IInv, TypeOK, disk, job, work, history
<1>1. CASE Fail("ctx")
  BY <1>1, FailKeeps
<1>2. CASE pc' = "sample" /\ UNCHANGED <<disk, job, ctx, spec, work, res, trace, history, observed>>
  <2>1. DiskTyped' /\ JobTyped' /\ ControlTyped' /\ WorkTyped' /\ ResultTyped' /\ HistoryTyped'
    BY <1>2 DEF DiskTyped, JobTyped, ControlTyped, PCs, WorkTyped, ResultTyped, HistoryTyped
  <2>2. ReportsEarned' /\ NoReportsBeforeTheOracle' /\ FanOutInHand' /\ TierInRange'
    BY <1>2 DEF TierHead, ReportsEarned, Earned, NoReportsBeforeTheOracle, FanOutInHand, TierInRange
  <2>3. NoAnswerYet' /\ AnswerIsWhole' /\ SuitesAreWhole' /\ AcceptedPassedItsOracle'
    BY <1>2 DEF TierHead, NoAnswerYet, AnswerIsWhole, SuitesAreWhole, Suite, AcceptedPassedItsOracle
  <2> QED BY <2>1, <2>2, <2>3
<1> QED BY <1>1, <1>2 DEF TierHead

LEMMA SampleTierKeeps ==
  ASSUME IInv, SampleTier
  PROVE  IInv'
<1> USE DEF IInv, TypeOK, disk, job, work, history
<1> DEFINE n == Tier[tier].samples
<1>a. n \in Nat \ {0} /\ cands' \in [1..n -> Sampled]
  BY TiersAssumption DEF SampleTier, TierInRange
<1>b. cands' \in Seq(Candidate) /\ Len(cands') = n /\ \A i \in DOMAIN cands' : Earned(cands'[i])
  BY <1>a, FanOutEarned
<1>c. AvoidQuotes \subseteq Texts
  BY DEF AvoidQuotes, DiskTyped, JobTyped
<1> HIDE DEF n
<1>1. DiskTyped' /\ JobTyped'
  BY DEF SampleTier, DiskTyped, JobTyped
<1>2. ControlTyped'
  BY DEF SampleTier, ControlTyped, PCs
<1>3. WorkTyped'
  BY <1>b DEF SampleTier, WorkTyped
<1>4. ResultTyped'
  BY DEF SampleTier, ResultTyped
<1>5. HistoryTyped'
  BY <1>c DEF SampleTier, HistoryTyped, WorkTyped
<1>6. ReportsEarned'
  BY <1>b DEF SampleTier, ReportsEarned, Earned
<1>7. NoReportsBeforeTheOracle' /\ FanOutInHand' /\ TierInRange'
  BY <1>a, <1>b DEF SampleTier, NoReportsBeforeTheOracle, FanOutInHand, TierInRange
<1>8. NoAnswerYet' /\ AnswerIsWhole'
  BY DEF SampleTier, NoAnswerYet, AnswerIsWhole
<1>9. SuitesAreWhole'
  BY DEF SampleTier, SuitesAreWhole, Suite
<1>10. AcceptedPassedItsOracle'
  BY DEF SampleTier, AcceptedPassedItsOracle
<1> QED
  BY <1>1, <1>2, <1>3, <1>4, <1>5, <1>6, <1>7, <1>8, <1>9, <1>10

\* What the next tier finds when the cascade moves on from this one.
LEMMA TimesOutKeeps ==
  ASSUME IInv, SampleTimesOut
  PROVE  IInv'
<1> USE DEF IInv, TypeOK, disk, job, work, history, SampleTimesOut
<1>1. DiskTyped' /\ JobTyped' /\ ControlTyped' /\ WorkTyped'
  BY DEF DiskTyped, JobTyped, ControlTyped, PCs, WorkTyped
<1>2. AvoidQuotes \subseteq Texts
  BY DEF AvoidQuotes, DiskTyped, JobTyped
<1>3. ResultTyped' /\ HistoryTyped'
  BY <1>2 DEF ResultTyped, Results, HistoryTyped, WorkTyped
<1>4. res' = [solved |-> res.solved, source |-> res.source, acceptedAt |-> res.acceptedAt,
              score |-> res.score, certified |-> res.certified,
              contaminated |-> res.contaminated, err |-> "late"]
  BY DEF ResultTyped, Results
<1>5. ReportsEarned'
  BY DEF ReportsEarned, Earned
<1>6. NoReportsBeforeTheOracle' /\ FanOutInHand' /\ TierInRange'
  BY DEF NoReportsBeforeTheOracle, FanOutInHand, TierInRange
<1>7. NoAnswerYet' /\ AnswerIsWhole' /\ SuitesAreWhole'
  BY <1>4 DEF NoAnswerYet, AnswerIsWhole, SuitesAreWhole, Suite
<1>8. AcceptedPassedItsOracle'
  BY <1>4 DEF AcceptedPassedItsOracle
<1> QED BY <1>1, <1>3, <1>5, <1>6, <1>7, <1>8

LEMMA MovesOn ==
  ASSUME IInv, NextTier, ClearTier, tier \in Tiers
  PROVE  /\ pc' \in {"finish", "tier"}
         /\ tier' \in Tiers /\ tier' \in 1..(NTiers + 1)
         /\ cands' = <<>>
         /\ chosen' \in Nat
         /\ repair' \in [round : Nat, quotes : SUBSET Texts]
BY TiersAssumption DEF NextTier, ClearTier, Last, Tiers

\* A step of the current tier that appends to the trace keeps it a trace.
LEMMA TraceGrows ==
  ASSUME ResultTyped, tier \in Tiers,
         NEW action \in {"escalate", "repair", "reject", "accept"},
         trace' = Append(trace, Step(tier, action))
  PROVE  trace' \in Seq(Steps)
<1>1. Step(tier, action) \in Steps
  BY DEF Step, Steps
<1> QED BY <1>1 DEF ResultTyped

LEMMA RouteBelowKeeps ==
  ASSUME IInv, RouteBelow
  PROVE  IInv'
<1> USE DEF IInv, TypeOK, disk, job, work, history
<1>a. tier \in Tiers
  BY DEF RouteBelow, TierInRange
<1>m. pc' \in {"finish", "tier"} /\ tier' \in Tiers /\ tier' \in 1..(NTiers + 1) /\ cands' = <<>> /\ chosen' \in Nat
        /\ repair' \in [round : Nat, quotes : SUBSET Texts]
  BY <1>a, MovesOn DEF RouteBelow
<1>1. DiskTyped' /\ JobTyped'
  BY DEF RouteBelow, DiskTyped, JobTyped
<1>2. ControlTyped'
  BY <1>m DEF RouteBelow, ControlTyped, PCs
<1>3. WorkTyped'
  BY <1>m DEF RouteBelow, WorkTyped
<1>4. ResultTyped'
  BY <1>a, TraceGrows DEF RouteBelow, ResultTyped
<1>5. HistoryTyped'
  BY DEF RouteBelow, HistoryTyped
<1>6. ReportsEarned'
  BY <1>m DEF RouteBelow, ReportsEarned, Earned
<1>7. NoReportsBeforeTheOracle' /\ FanOutInHand' /\ TierInRange'
  BY <1>m DEF RouteBelow, NoReportsBeforeTheOracle, FanOutInHand, TierInRange
<1>8. NoAnswerYet' /\ AnswerIsWhole'
  BY <1>m DEF RouteBelow, NoAnswerYet, AnswerIsWhole
<1>9. SuitesAreWhole'
  BY DEF RouteBelow, SuitesAreWhole, Suite
<1>10. AcceptedPassedItsOracle'
  BY DEF RouteBelow, AcceptedPassedItsOracle
<1> QED
  BY <1>1, <1>2, <1>3, <1>4, <1>5, <1>6, <1>7, <1>8, <1>9, <1>10

LEMMA RejectTierKeeps ==
  ASSUME IInv, RejectTier
  PROVE  IInv'
<1> USE DEF IInv, TypeOK, disk, job, work, history
<1>a. tier \in Tiers
  BY DEF RejectTier, TierInRange
<1>m. pc' \in {"finish", "tier"} /\ tier' \in Tiers /\ tier' \in 1..(NTiers + 1) /\ cands' = <<>> /\ chosen' \in Nat
        /\ repair' \in [round : Nat, quotes : SUBSET Texts]
  BY <1>a, MovesOn DEF RejectTier
<1>b. <<cands[chosen]>> \in Seq(Candidate)
  <2>1. cands \in Seq(Candidate) /\ chosen \in DOMAIN cands
    BY DEF RejectTier, FanOutInHand, WorkTyped
  <2> QED BY <2>1, MemberTyped
<1>1. DiskTyped' /\ JobTyped'
  BY <1>b, FailuresTyped DEF RejectTier, DiskTyped, JobTyped
<1>2. ControlTyped'
  BY <1>m DEF RejectTier, ControlTyped, PCs
<1>3. WorkTyped'
  BY <1>m DEF RejectTier, WorkTyped, RefusalQuotes
<1>4. ResultTyped'
  BY <1>a, TraceGrows DEF RejectTier, ResultTyped
<1>5. HistoryTyped'
  BY <1>a DEF RejectTier, HistoryTyped
<1>6. ReportsEarned'
  BY <1>m DEF RejectTier, ReportsEarned, Earned
<1>7. NoReportsBeforeTheOracle' /\ FanOutInHand' /\ TierInRange'
  BY <1>m DEF RejectTier, NoReportsBeforeTheOracle, FanOutInHand, TierInRange
<1>8. NoAnswerYet' /\ AnswerIsWhole'
  BY <1>m DEF RejectTier, NoAnswerYet, AnswerIsWhole
<1>9. SuitesAreWhole'
  BY DEF RejectTier, SuitesAreWhole, Suite
<1>10. AcceptedPassedItsOracle'
  BY DEF RejectTier, AcceptedPassedItsOracle
<1> QED
  BY <1>1, <1>2, <1>3, <1>4, <1>5, <1>6, <1>7, <1>8, <1>9, <1>10

LEMMA RepairGivesUpKeeps ==
  ASSUME IInv, RepairGivesUp
  PROVE  IInv'
<1> USE DEF IInv, TypeOK, disk, job, work, history
<1>a. tier \in Tiers
  BY DEF RepairGivesUp, TierInRange
<1>m. pc' \in {"finish", "tier"} /\ tier' \in Tiers /\ tier' \in 1..(NTiers + 1) /\ cands' = <<>> /\ chosen' \in Nat
        /\ repair' \in [round : Nat, quotes : SUBSET Texts]
  BY <1>a, MovesOn DEF RepairGivesUp
<1>b. cands[BestRefuted(cands)].report.quotes \subseteq Texts
  BY BestIsMember DEF RepairGivesUp, FanOutInHand, WorkTyped
<1>1. DiskTyped' /\ JobTyped'
  BY DEF RepairGivesUp, DiskTyped, JobTyped
<1>2. ControlTyped'
  BY <1>m DEF RepairGivesUp, ControlTyped, PCs
<1>3. WorkTyped'
  BY <1>b, <1>m DEF RepairGivesUp, WorkTyped
<1>4. ResultTyped'
  BY <1>a, TraceGrows DEF RepairGivesUp, ResultTyped
<1>5. HistoryTyped'
  BY DEF RepairGivesUp, HistoryTyped, WorkTyped
<1>6. ReportsEarned'
  BY <1>m DEF RepairGivesUp, ReportsEarned, Earned
<1>7. NoReportsBeforeTheOracle' /\ FanOutInHand' /\ TierInRange'
  BY <1>m DEF RepairGivesUp, NoReportsBeforeTheOracle, FanOutInHand, TierInRange
<1>8. NoAnswerYet' /\ AnswerIsWhole'
  BY <1>m DEF RepairGivesUp, NoAnswerYet, AnswerIsWhole
<1>9. SuitesAreWhole'
  BY DEF RepairGivesUp, SuitesAreWhole, Suite
<1>10. AcceptedPassedItsOracle'
  BY DEF RepairGivesUp, AcceptedPassedItsOracle
<1> QED
  BY <1>1, <1>2, <1>3, <1>4, <1>5, <1>6, <1>7, <1>8, <1>9, <1>10

LEMMA RouteRefutedKeeps ==
  ASSUME IInv, RouteRefuted
  PROVE  IInv'
<1> USE DEF IInv, TypeOK, disk, job, history
<1>a. tier \in Tiers /\ cands # <<>>
  BY DEF RouteRefuted, TierInRange, FanOutInHand
<1>b. cands[BestRefuted(cands)].report.quotes \subseteq Texts
  BY <1>a, BestIsMember DEF WorkTyped
<1>c. DiskTyped' /\ JobTyped' /\ HistoryTyped' /\ SuitesAreWhole' /\ AcceptedPassedItsOracle'
  BY FailuresTyped DEF RouteRefuted, DiskTyped, JobTyped, HistoryTyped, WorkTyped,
     SuitesAreWhole, Suite, AcceptedPassedItsOracle
<1>1. CASE PreferRepair(tier)
  <2> DEFINE q == cands[BestRefuted(cands)].report.quotes
  <2>a. pc = "route" /\ pc' = "repair" /\ repair' = [round |-> 0, quotes |-> q]
        /\ UNCHANGED <<tier, cands, carried, chosen, trace, ctx, spec, outs, res, conf>>
    BY <1>1 DEF RouteRefuted
  <2> HIDE DEF q
  <2>1. ControlTyped' /\ ResultTyped'
    BY <2>a DEF ControlTyped, PCs, ResultTyped
  <2>2. WorkTyped'
    BY <1>b, <2>a DEF WorkTyped, q
  <2>3. ReportsEarned' /\ NoReportsBeforeTheOracle' /\ FanOutInHand' /\ TierInRange'
    BY <1>a, <2>a DEF ReportsEarned, Earned, NoReportsBeforeTheOracle, FanOutInHand, TierInRange
  <2>4. NoAnswerYet' /\ AnswerIsWhole'
    BY <2>a DEF NoAnswerYet, AnswerIsWhole
  <2> QED BY <1>c, <2>1, <2>2, <2>3, <2>4
<1>2. CASE ~PreferRepair(tier)
  <2> DEFINE q == cands[BestRefuted(cands)].report.quotes
  <2>a. /\ pc = "route" /\ carried' = carried \cup q
        /\ trace' = Append(trace, Step(tier, "escalate"))
        /\ NextTier /\ ClearTier
        /\ UNCHANGED <<ctx, spec, outs, res, conf>>
    BY <1>2 DEF RouteRefuted
  <2>m. pc' \in {"finish", "tier"} /\ tier' \in Tiers /\ tier' \in 1..(NTiers + 1) /\ cands' = <<>> /\ chosen' \in Nat
          /\ repair' \in [round : Nat, quotes : SUBSET Texts]
    BY <1>a, <2>a, MovesOn
  <2> HIDE DEF q
  <2>1. ControlTyped'
    BY <2>a, <2>m DEF ControlTyped, PCs
  <2>2. ResultTyped'
    BY <1>a, <2>a, TraceGrows DEF ResultTyped
  <2>3. WorkTyped'
    BY <1>b, <2>a, <2>m DEF WorkTyped, q
  <2>4. ReportsEarned' /\ NoReportsBeforeTheOracle' /\ FanOutInHand' /\ TierInRange'
    BY <2>a, <2>m DEF ReportsEarned, Earned, NoReportsBeforeTheOracle, FanOutInHand, TierInRange
  <2>5. NoAnswerYet' /\ AnswerIsWhole'
    BY <2>a, <2>m DEF NoAnswerYet, AnswerIsWhole
  <2> QED BY <1>c, <2>1, <2>2, <2>3, <2>4, <2>5
<1> QED BY <1>1, <1>2

LEMMA RepairRoundKeeps ==
  ASSUME IInv, RepairRound
  PROVE  IInv'
<1> USE DEF IInv, TypeOK, disk, job
<1>a. tier \in Tiers /\ cands # <<>> /\ cands \in Seq(Candidate)
  BY DEF RepairRound, TierInRange, FanOutInHand, WorkTyped
<1>c. /\ DiskTyped' /\ JobTyped' /\ HistoryTyped' /\ SuitesAreWhole' /\ AcceptedPassedItsOracle'
      /\ NoAnswerYet' /\ AnswerIsWhole'
  BY DEF RepairRound, DiskTyped, JobTyped, HistoryTyped, WorkTyped, SuitesAreWhole, Suite,
     AcceptedPassedItsOracle, NoAnswerYet, AnswerIsWhole
<1>d. PICK d \in Sampled :
        IF d.report.ok
        THEN /\ cands' = Append(cands, d)
             /\ trace' = Append(trace, Step(tier, "repair"))
             /\ pc' = "route"
             /\ UNCHANGED repair
        ELSE /\ repair' = [round |-> repair.round + 1, quotes |-> d.report.quotes]
             /\ trace' = Append(trace, Step(tier, "escalate"))
             /\ UNCHANGED <<pc, cands>>
  BY DEF RepairRound
<1>e. d \in Candidate /\ Earned(d) /\ d.report.quotes \subseteq Texts
  BY SampledEarned DEF Candidate, Report
<1>u. pc = "repair" /\ UNCHANGED <<ctx, spec, tier, carried, chosen, outs, res, conf>>
  BY DEF RepairRound
<1>1. ResultTyped'
  <2>1. trace' \in Seq(Steps)
    BY <1>a, <1>d, TraceGrows
  <2> QED BY <2>1, <1>u DEF ResultTyped
<1>2. CASE d.report.ok
  <2>1. cands' = Append(cands, d) /\ pc' = "route" /\ repair' = repair
    BY <1>d, <1>2
  <2>2. cands' \in Seq(Candidate) /\ cands' # <<>>
    BY <1>a, <1>e, <2>1
  <2>3. \A i \in DOMAIN cands' : Earned(cands'[i])
    <3>1. \A i \in DOMAIN cands' : (i \in DOMAIN cands /\ cands'[i] = cands[i]) \/ cands'[i] = d
      BY <1>a, <2>1
    <3> QED BY <3>1, <1>e DEF ReportsEarned
  <2>4. ReportsEarned'
    BY <2>3, <1>u DEF ReportsEarned, Earned
  <2>5. WorkTyped' /\ ControlTyped'
    BY <2>1, <2>2, <1>u DEF WorkTyped, ControlTyped, PCs
  <2>6. NoReportsBeforeTheOracle' /\ FanOutInHand' /\ TierInRange'
    BY <1>a, <1>u, <2>1, <2>2 DEF NoReportsBeforeTheOracle, FanOutInHand, TierInRange
  <2> QED BY <1>c, <1>1, <2>4, <2>5, <2>6
<1>3. CASE ~d.report.ok
  <2>1. repair' = [round |-> repair.round + 1, quotes |-> d.report.quotes] /\ UNCHANGED <<pc, cands>>
    BY <1>d, <1>3
  <2>2. repair' \in [round : Nat, quotes : SUBSET Texts]
    BY <1>e, <2>1 DEF WorkTyped
  <2>3. WorkTyped' /\ ControlTyped'
    BY <2>1, <2>2, <1>u DEF WorkTyped, ControlTyped, PCs
  <2>4. ReportsEarned' /\ NoReportsBeforeTheOracle' /\ FanOutInHand' /\ TierInRange'
    BY <2>1, <1>u DEF ReportsEarned, Earned, NoReportsBeforeTheOracle, FanOutInHand, TierInRange
  <2> QED BY <1>c, <1>1, <2>3, <2>4
<1> QED BY <1>2, <1>3

LEMMA RouteAboveKeeps ==
  ASSUME IInv, RouteAbove
  PROVE  IInv'
<1> USE DEF IInv, TypeOK, disk, job, work, history
<1>a. PICK w \in Winners(cands) : chosen' = Rep(cands, w)
  BY DEF RouteAbove
<1>b. chosen' \in DOMAIN cands /\ cands[chosen'].report.ok
  BY <1>a, RepSurvived DEF WorkTyped
<1>1. DiskTyped' /\ JobTyped'
  BY DEF RouteAbove, DiskTyped, JobTyped
<1>2. ControlTyped'
  BY DEF RouteAbove, ControlTyped, PCs
<1>3. WorkTyped'
  BY <1>b DEF RouteAbove, WorkTyped
<1>4. ResultTyped'
  BY DEF RouteAbove, ResultTyped
<1>5. HistoryTyped'
  BY DEF RouteAbove, HistoryTyped
<1>6. ReportsEarned'
  BY DEF RouteAbove, ReportsEarned, Earned
<1>7. NoReportsBeforeTheOracle' /\ FanOutInHand' /\ TierInRange'
  BY <1>b DEF RouteAbove, NoReportsBeforeTheOracle, FanOutInHand, TierInRange
<1>8. NoAnswerYet' /\ AnswerIsWhole'
  BY DEF RouteAbove, NoAnswerYet, AnswerIsWhole
<1>9. SuitesAreWhole'
  BY DEF RouteAbove, SuitesAreWhole, Suite
<1>10. AcceptedPassedItsOracle'
  BY DEF RouteAbove, AcceptedPassedItsOracle
<1> QED
  BY <1>1, <1>2, <1>3, <1>4, <1>5, <1>6, <1>7, <1>8, <1>9, <1>10

\* The Result of an acceptance is well formed.
LEMMA AcceptedTyped ==
  ASSUME TypeOK, NEW p \in Programs, NEW k \in Tiers, NEW cs
  PROVE  Accepted(p, k, Score(cs)) \in Results
<1>1. Calibrated \in BOOLEAN
  <2>1. conf.cert \in Certificates \/ conf.cert = NoCert
    BY DEF TypeOK, JobTyped
  <2>2. NoCert.valid = FALSE
    BY DEF NoCert
  <2>3. \A c \in Certificates : c.valid \in BOOLEAN
    BY RunAssumption
  <2> QED BY <2>1, <2>2, <2>3 DEF Calibrated
<1>2. Contaminated(k) \in BOOLEAN
  BY DEF Contaminated
<1>3. Score(cs) \in 0..100
  BY ScoreIsPercentage
<1> QED BY <1>1, <1>2, <1>3 DEF Accepted, Results, Arms

LEMMA AcceptTierKeeps ==
  ASSUME IInv, AcceptTier
  PROVE  IInv'
<1> USE DEF IInv, TypeOK, disk, job, work, history
<1> DEFINE s == cands[chosen].source
<1>a. tier \in Tiers /\ chosen \in DOMAIN cands /\ cands[chosen].report.ok /\ cands \in Seq(Candidate)
  BY DEF AcceptTier, TierInRange, FanOutInHand, WorkTyped
<1>b. s \in Programs
  BY <1>a, MemberTyped
<1>c. res' = Accepted(s, tier, Score(cands)) /\ res' \in Results
  BY <1>a, <1>b, AcceptedTyped DEF AcceptTier
<1>d. res'.solved /\ res'.source = s /\ res'.acceptedAt = tier
  BY <1>c DEF Accepted
<1>e. s \in spec.vis /\ (conf.deadline \/ ~Races(s)) /\ s \in spec.hid
  BY <1>a, AcceptedIsHidden DEF AcceptTier, ReportsEarned, Earned
<1> HIDE DEF s
<1>1. DiskTyped' /\ JobTyped'
  BY DEF AcceptTier, DiskTyped, JobTyped
<1>2. ControlTyped'
  BY DEF AcceptTier, ControlTyped, PCs
<1>3. WorkTyped'
  BY DEF AcceptTier, WorkTyped
<1>4. ResultTyped'
  BY <1>a, <1>c, TraceGrows DEF AcceptTier, ResultTyped
<1>5. HistoryTyped'
  BY <1>a DEF AcceptTier, HistoryTyped
<1>6. ReportsEarned'
  BY DEF AcceptTier, ReportsEarned, Earned
<1>7. NoReportsBeforeTheOracle' /\ FanOutInHand' /\ TierInRange'
  BY DEF AcceptTier, NoReportsBeforeTheOracle, FanOutInHand, TierInRange
<1>8. NoAnswerYet' /\ AnswerIsWhole'
  <2>1. NoAnswerYet'
    BY DEF AcceptTier, NoAnswerYet
  <2> QED BY <1>a, <1>d, <2>1 DEF AnswerIsWhole, Tiers, Nowhere
<1>9. SuitesAreWhole'
  BY DEF AcceptTier, SuitesAreWhole, Suite
<1>10. AcceptedPassedItsOracle'
  BY <1>d, <1>e DEF AcceptTier, AcceptedPassedItsOracle
<1> QED
  BY <1>1, <1>2, <1>3, <1>4, <1>5, <1>6, <1>7, <1>8, <1>9, <1>10

-----------------------------------------------------------------------------
(* The speculative topology. *)

LEMMA EnterSpeculativeKeeps ==
  ASSUME IInv, EnterSpeculative
  PROVE  IInv'
<1> USE DEF IInv, TypeOK, disk, job, work, history
<1>a. AvoidQuotes \subseteq Texts
  BY DEF AvoidQuotes, DiskTyped, JobTyped
<1>1. DiskTyped' /\ JobTyped'
  BY DEF EnterSpeculative, DiskTyped, JobTyped
<1>2. ControlTyped'
  BY DEF EnterSpeculative, ControlTyped, PCs
<1>3. WorkTyped'
  BY DEF EnterSpeculative, WorkTyped
<1>4. ResultTyped'
  BY DEF EnterSpeculative, ResultTyped
<1>5. HistoryTyped'
  BY <1>a DEF EnterSpeculative, HistoryTyped
<1>6. ReportsEarned'
  BY DEF EnterSpeculative, ReportsEarned, Earned
<1>7. NoReportsBeforeTheOracle' /\ FanOutInHand' /\ TierInRange'
  BY DEF EnterSpeculative, NoReportsBeforeTheOracle, FanOutInHand, TierInRange
<1>8. NoAnswerYet' /\ AnswerIsWhole'
  BY DEF EnterSpeculative, NoAnswerYet, AnswerIsWhole
<1>9. SuitesAreWhole'
  BY DEF EnterSpeculative, SuitesAreWhole, Suite
<1>10. AcceptedPassedItsOracle'
  BY DEF EnterSpeculative, AcceptedPassedItsOracle
<1> QED
  BY <1>1, <1>2, <1>3, <1>4, <1>5, <1>6, <1>7, <1>8, <1>9, <1>10

\* A goroutine of a tier ends with an outcome that holds only earned reports.
LEMMA OutcomeKeeps ==
  ASSUME IInv, NEW k \in Tiers, NEW out \in [st : {"sampled", "failed"}, cands : Seq(Candidate)],
         \A i \in DOMAIN out.cands : Earned(out.cands[i]),
         pc = "fanout",
         outs' = [outs EXCEPT ![k] = out],
         UNCHANGED <<disk, job, pc, ctx, spec, tier, cands, carried, repair, chosen,
                     res, trace, history, observed>>
  PROVE  IInv'
<1> USE DEF IInv, TypeOK, disk, job, history
<1>1. DiskTyped' /\ JobTyped' /\ ControlTyped' /\ ResultTyped' /\ HistoryTyped'
  BY DEF DiskTyped, JobTyped, ControlTyped, ResultTyped, HistoryTyped
<1>2. WorkTyped'
  BY DEF WorkTyped
<1>3. ReportsEarned'
  BY DEF ReportsEarned, Earned, WorkTyped
<1>4. NoReportsBeforeTheOracle' /\ FanOutInHand' /\ TierInRange'
  BY DEF NoReportsBeforeTheOracle, FanOutInHand, TierInRange
<1>5. NoAnswerYet' /\ AnswerIsWhole' /\ SuitesAreWhole' /\ AcceptedPassedItsOracle'
  BY DEF NoAnswerYet, AnswerIsWhole, SuitesAreWhole, Suite, AcceptedPassedItsOracle
<1> QED BY <1>1, <1>2, <1>3, <1>4, <1>5

LEMMA TierEndsKeeps ==
  ASSUME IInv, NEW k \in Tiers, TierSamples(k) \/ TierErrs(k)
  PROVE  IInv'
<1>1. CASE TierSamples(k)
  <2>1. Tier[k].samples \in Nat
    BY TiersAssumption
  <2>2. PICK cs \in [1..Tier[k].samples -> Sampled] :
          outs' = [outs EXCEPT ![k] = [st |-> "sampled", cands |-> cs]]
    BY <1>1 DEF TierSamples
  <2>3. cs \in Seq(Candidate) /\ \A i \in DOMAIN cs : Earned(cs[i])
    BY <2>1, FanOutEarned DEF IInv
  <2> DEFINE out == [st |-> "sampled", cands |-> cs]
  <2>4. out \in [st : {"sampled", "failed"}, cands : Seq(Candidate)] /\ out.cands = cs
    BY <2>3
  <2>5. outs' = [outs EXCEPT ![k] = out]
    BY <2>2
  <2> HIDE DEF out
  <2> QED BY <1>1, <2>3, <2>4, <2>5, OutcomeKeeps DEF TierSamples
<1>2. CASE TierErrs(k)
  <2> DEFINE out == [st |-> "failed", cands |-> <<>>]
  <2>1. out \in [st : {"sampled", "failed"}, cands : Seq(Candidate)] /\ out.cands = <<>>
    OBVIOUS
  <2>2. outs' = [outs EXCEPT ![k] = out]
    BY <1>2 DEF TierErrs
  <2> HIDE DEF out
  <2>3. \A i \in DOMAIN out.cands : Earned(out.cands[i])
    BY <2>1
  <2> QED BY <1>2, <2>1, <2>2, <2>3, OutcomeKeeps DEF TierErrs
<1> QED BY <1>1, <1>2

LEMMA CollectKeeps ==
  ASSUME IInv, Collect
  PROVE  IInv'
<1> USE DEF IInv, TypeOK, disk, job, work, history
<1>1. DiskTyped' /\ JobTyped'
  BY DEF Collect, DiskTyped, JobTyped
<1>2. ControlTyped'
  BY DEF Collect, ControlTyped, PCs
<1>3. WorkTyped'
  BY DEF Collect, WorkTyped
<1>4. ResultTyped'
  BY DEF Collect, ResultTyped
<1>5. HistoryTyped'
  BY DEF Collect, HistoryTyped
<1>6. ReportsEarned'
  BY DEF Collect, ReportsEarned, Earned
<1>7. NoReportsBeforeTheOracle' /\ FanOutInHand' /\ TierInRange'
  BY DEF Collect, NoReportsBeforeTheOracle, FanOutInHand, TierInRange
<1>8. NoAnswerYet' /\ AnswerIsWhole'
  BY DEF Collect, NoAnswerYet, AnswerIsWhole
<1>9. SuitesAreWhole'
  BY DEF Collect, SuitesAreWhole, Suite
<1>10. AcceptedPassedItsOracle'
  BY DEF Collect, AcceptedPassedItsOracle
<1> QED
  BY <1>1, <1>2, <1>3, <1>4, <1>5, <1>6, <1>7, <1>8, <1>9, <1>10

LEMMA NoneSurvivedKeeps ==
  ASSUME IInv, NoneSurvived
  PROVE  IInv'
<1> USE DEF IInv, TypeOK, disk, job, work, history
<1>1. DiskTyped' /\ JobTyped'
  BY DEF NoneSurvived, DiskTyped, JobTyped
<1>2. ControlTyped'
  BY DEF NoneSurvived, ControlTyped, PCs
<1>3. WorkTyped'
  BY DEF NoneSurvived, WorkTyped
<1>4. ResultTyped'
  BY DEF NoneSurvived, ResultTyped
<1>5. HistoryTyped'
  BY DEF NoneSurvived, HistoryTyped
<1>6. ReportsEarned'
  BY DEF NoneSurvived, ReportsEarned, Earned
<1>7. NoReportsBeforeTheOracle' /\ FanOutInHand' /\ TierInRange'
  BY DEF NoneSurvived, NoReportsBeforeTheOracle, FanOutInHand, TierInRange
<1>8. NoAnswerYet' /\ AnswerIsWhole'
  BY DEF NoneSurvived, NoAnswerYet, AnswerIsWhole
<1>9. SuitesAreWhole'
  BY DEF NoneSurvived, SuitesAreWhole, Suite
<1>10. AcceptedPassedItsOracle'
  BY DEF NoneSurvived, AcceptedPassedItsOracle
<1> QED
  BY <1>1, <1>2, <1>3, <1>4, <1>5, <1>6, <1>7, <1>8, <1>9, <1>10

\* The representative a tier offers is a survivor of its fan-out.
LEMMA OfferedIsEarned ==
  ASSUME IInv, NEW k \in Tiers, NEW w \in Winners(outs[k].cands)
  PROVE  LET s == outs[k].cands[Rep(outs[k].cands, w)].source
         IN  s \in Programs /\ s \in spec.vis /\ (conf.deadline \/ ~Races(s))
<1> DEFINE cs == outs[k].cands
           i == Rep(cs, w)
<1>1. cs \in Seq(Candidate)
  BY DEF IInv, TypeOK, WorkTyped
<1>2. \A j \in DOMAIN cs : Earned(cs[j])
  BY DEF IInv, ReportsEarned
<1>3. w \in Winners(cs)
  OBVIOUS
<1> HIDE DEF cs
<1>4. i \in DOMAIN cs /\ cs[i].report.ok /\ cs[i].source \in Programs
  BY <1>1, <1>3, RepSurvived
<1>5. cs[i].source \in spec.vis /\ (conf.deadline \/ ~Races(cs[i].source))
  BY <1>2, <1>4 DEF Earned
<1> QED BY <1>4, <1>5 DEF cs

LEMMA AcceptSpeculativeKeeps ==
  ASSUME IInv, AcceptSpeculative
  PROVE  IInv'
<1> USE DEF IInv, TypeOK, disk, job, work, history
<1>a. PICK k \in Tiers :
        /\ \E w \in Winners(outs[k].cands) :
             LET source == outs[k].cands[Rep(outs[k].cands, w)].source
             IN /\ TRUE \in AcceptVerdicts(source)
                /\ res' = Accepted(source, k, Score(outs[k].cands))
        /\ consulted' = [consulted EXCEPT ![k] = @ + 1]
        /\ trace' = Append(trace, Step(k, "accept"))
  BY DEF AcceptSpeculative
<1>b. PICK w \in Winners(outs[k].cands) :
        LET source == outs[k].cands[Rep(outs[k].cands, w)].source
        IN /\ TRUE \in AcceptVerdicts(source)
           /\ res' = Accepted(source, k, Score(outs[k].cands))
  BY <1>a
<1> DEFINE s == outs[k].cands[Rep(outs[k].cands, w)].source
<1>c. s \in Programs /\ s \in spec.vis /\ (conf.deadline \/ ~Races(s))
  BY OfferedIsEarned
<1>d. s \in spec.hid /\ res' = Accepted(s, k, Score(outs[k].cands))
  BY <1>b, AcceptedIsHidden
<1> HIDE DEF s
<1>e. res' \in Results
  BY <1>c, <1>d, AcceptedTyped
<1>f. res'.solved /\ res'.source = s /\ res'.acceptedAt = k
  BY <1>d DEF Accepted
<1>g. trace' \in Seq(Steps)
  <2>1. Step(k, "accept") \in Steps
    BY DEF Step, Steps
  <2> QED BY <1>a, <2>1 DEF ResultTyped
<1>h. consulted' \in [Tiers -> Nat]
  BY <1>a DEF HistoryTyped
<1>1. DiskTyped' /\ JobTyped'
  BY DEF AcceptSpeculative, DiskTyped, JobTyped
<1>2. ControlTyped'
  BY DEF AcceptSpeculative, ControlTyped, PCs
<1>3. WorkTyped'
  BY DEF AcceptSpeculative, WorkTyped
<1>4. ResultTyped'
  BY <1>e, <1>g DEF AcceptSpeculative, ResultTyped
<1>5. HistoryTyped'
  BY <1>h DEF AcceptSpeculative, HistoryTyped
<1>6. ReportsEarned'
  BY DEF AcceptSpeculative, ReportsEarned, Earned
<1>7. NoReportsBeforeTheOracle' /\ FanOutInHand' /\ TierInRange'
  BY DEF AcceptSpeculative, NoReportsBeforeTheOracle, FanOutInHand, TierInRange
<1>8. NoAnswerYet' /\ AnswerIsWhole'
  <2>1. NoAnswerYet'
    BY DEF AcceptSpeculative, NoAnswerYet
  <2> QED BY <1>f, <2>1 DEF AnswerIsWhole, Tiers, Nowhere
<1>9. SuitesAreWhole'
  BY DEF AcceptSpeculative, SuitesAreWhole, Suite
<1>10. AcceptedPassedItsOracle'
  BY <1>c, <1>d, <1>f DEF AcceptSpeculative, AcceptedPassedItsOracle
<1> QED
  BY <1>1, <1>2, <1>3, <1>4, <1>5, <1>6, <1>7, <1>8, <1>9, <1>10

LEMMA RejectSpeculativeKeeps ==
  ASSUME IInv, RejectSpeculative
  PROVE  IInv'
<1> USE DEF IInv, TypeOK, disk, job, work, history
<1>a. PICK k \in Tiers :
        /\ consulted' = [consulted EXCEPT ![k] = @ + 1]
        /\ trace' = Append(trace, Step(k, "reject"))
        /\ tier' = k + 1
  BY DEF RejectSpeculative
<1>b. tier' \in 1..(NTiers + 1)
  BY <1>a, TiersAssumption DEF Tiers
<1>c. trace' \in Seq(Steps)
  <2>1. Step(k, "reject") \in Steps
    BY DEF Step, Steps
  <2> QED BY <1>a, <2>1 DEF ResultTyped
<1>d. consulted' \in [Tiers -> Nat]
  BY <1>a DEF HistoryTyped
<1>e. failures' = failures
  BY DEF RejectSpeculative
<1>1. DiskTyped' /\ JobTyped'
  BY DEF RejectSpeculative, DiskTyped, JobTyped
<1>2. ControlTyped'
  BY DEF RejectSpeculative, ControlTyped, PCs
<1>3. WorkTyped'
  BY <1>b DEF RejectSpeculative, WorkTyped
<1>4. ResultTyped'
  BY <1>c DEF RejectSpeculative, ResultTyped
<1>5. HistoryTyped'
  BY <1>d DEF RejectSpeculative, HistoryTyped
<1>6. ReportsEarned'
  BY DEF RejectSpeculative, ReportsEarned, Earned
<1>7. NoReportsBeforeTheOracle' /\ FanOutInHand' /\ TierInRange'
  BY DEF RejectSpeculative, NoReportsBeforeTheOracle, FanOutInHand, TierInRange
<1>8. NoAnswerYet' /\ AnswerIsWhole'
  BY DEF RejectSpeculative, NoAnswerYet, AnswerIsWhole
<1>9. SuitesAreWhole'
  BY DEF RejectSpeculative, SuitesAreWhole, Suite
<1>10. AcceptedPassedItsOracle'
  BY DEF RejectSpeculative, AcceptedPassedItsOracle
<1> QED
  BY <1>1, <1>2, <1>3, <1>4, <1>5, <1>6, <1>7, <1>8, <1>9, <1>10

-----------------------------------------------------------------------------
(* The theorems. *)

LEMMA NoResultTyped == NoResult \in Results
BY DEF NoResult, Results, Arms

LEMMA InitHolds ==
  ASSUME Init
  PROVE  IInv
<1> USE DEF Init, InitWork, Running
<1>1. DiskTyped /\ JobTyped
  <2>1. FirstConf \in [testModel : TestModels, cert : Certificates \cup {NoCert},
                       deadline : BOOLEAN, shadow : BOOLEAN]
    BY RunAssumption DEF FirstConf
  <2>2. NoSpec \in Oracle
    BY DEF NoSpec, Oracle
  <2> QED BY <2>1, <2>2, RunAssumption DEF DiskTyped, JobTyped
<1>2. ControlTyped
  BY DEF ControlTyped, PCs, NoSpec, Oracle
<1>3. WorkTyped
  BY TiersAssumption DEF WorkTyped, Tiers
<1>4. ResultTyped
  BY NoResultTyped DEF ResultTyped
<1>5. HistoryTyped
  BY DEF HistoryTyped, NoRecord
<1>6. ReportsEarned
  BY DEF ReportsEarned
<1>7. NoReportsBeforeTheOracle /\ FanOutInHand /\ TierInRange
  BY DEF NoReportsBeforeTheOracle, FanOutInHand, TierInRange
<1>8. NoAnswerYet /\ AnswerIsWhole /\ SuitesAreWhole /\ AcceptedPassedItsOracle
  BY DEF NoAnswerYet, AnswerIsWhole, SuitesAreWhole, AcceptedPassedItsOracle, NoResult
<1> QED BY <1>1, <1>2, <1>3, <1>4, <1>5, <1>6, <1>7, <1>8 DEF IInv, TypeOK

LEMMA StutterKeeps ==
  ASSUME IInv, UNCHANGED vars
  PROVE  IInv'
<1> USE DEF IInv, TypeOK, vars, disk, job, work, history
<1>1. DiskTyped' /\ JobTyped' /\ ControlTyped' /\ WorkTyped' /\ ResultTyped' /\ HistoryTyped'
  BY DEF DiskTyped, JobTyped, ControlTyped, WorkTyped, ResultTyped, HistoryTyped
<1>2. ReportsEarned' /\ NoReportsBeforeTheOracle' /\ FanOutInHand' /\ TierInRange'
  BY DEF ReportsEarned, Earned, NoReportsBeforeTheOracle, FanOutInHand, TierInRange
<1>3. NoAnswerYet' /\ AnswerIsWhole' /\ SuitesAreWhole' /\ AcceptedPassedItsOracle'
  BY DEF NoAnswerYet, AnswerIsWhole, SuitesAreWhole, Suite, AcceptedPassedItsOracle
<1> QED BY <1>1, <1>2, <1>3

LEMMA NextKeeps ==
  ASSUME IInv, [Next]_vars
  PROVE  IInv'
<1>1. CASE RouterStep
  <2>1. CASE SpecFails
    BY <2>1, FailKeeps DEF SpecFails
  <2> QED BY <1>1, <2>1, ReuseSpecKeeps, GenerateSpecKeeps, CacheHitKeeps, CacheMissKeeps,
             FinishUnsolvedKeeps, FinishKeeps DEF RouterStep
<1>2. CASE SequentialStep
  <2>1. CASE SampleFails
    BY <2>1, FailKeeps DEF SampleFails
  <2> QED BY <1>2, <2>1, EnterSequentialKeeps, TierHeadKeeps, SampleTierKeeps, TimesOutKeeps,
             RouteRefutedKeeps, RepairRoundKeeps, RepairGivesUpKeeps, RouteBelowKeeps,
             RouteAboveKeeps, AcceptTierKeeps, RejectTierKeeps DEF SequentialStep
<1>3. CASE SpeculativeStep
  BY <1>3, EnterSpeculativeKeeps, TierEndsKeeps, CollectKeeps, AcceptSpeculativeKeeps,
     RejectSpeculativeKeeps, NoneSurvivedKeeps DEF SpeculativeStep
<1>4. CASE Crash
  BY <1>4, FailKeeps DEF Crash
<1> QED BY <1>1, <1>2, <1>3, <1>4, StartSolveKeeps, ContextDoneKeeps, StutterKeeps
        DEF Next, Work

THEOREM Invariance == Spec => []IInv
<1>1. Init => IInv
  BY InitHolds
<1>2. IInv /\ [Next]_vars => IInv'
  BY NextKeeps
<1> QED BY <1>1, <1>2, PTL DEF Spec

\* Every variable keeps its type, whatever fails and whenever.
THEOREM TypeCorrectness == Spec => []TypeOK
<1>1. IInv => TypeOK
  BY DEF IInv
<1> QED BY <1>1, Invariance, PTL

\* The answer of every solve, by whichever arm, passed both partitions of the
\* oracle of that very solve, and the race detector unless a deadline dropped it.
THEOREM Soundness == Spec => []AcceptedPassedItsOracle
<1>1. IInv => AcceptedPassedItsOracle
  BY DEF IInv
<1> QED BY <1>1, Invariance, PTL

-----------------------------------------------------------------------------
(* The router implements VerifiedAnswer: every step of it is a step of the *)
(* promise or leaves the promise's variables alone.                        *)

Promised == Promise!ANext \/ UNCHANGED Promise!avars

\* A step between two places where the query is being judged.
LEMMA StillJudging ==
  ASSUME pc \notin {"idle", "spec", "done", "failed"},
         pc' \notin {"idle", "spec", "done", "failed"},
         spec' = spec, res'.source = res.source
  PROVE  Promised
<1>1. Phase = "judging" /\ Phase' = "judging"
  BY DEF Phase
<1> QED BY <1>1 DEF Promised, Promise!avars, Suite

\* A step that ends the query.
LEMMA QueryEnds ==
  ASSUME pc \notin Resting, pc' \in {"done", "failed"},
         spec' = spec, res'.source = res.source
  PROVE  Promised
<1>1. Phase \in {"asked", "judging"} /\ Phase' = "over"
  BY DEF Phase, Resting
<1> QED BY <1>1 DEF Promised, Promise!ANext, Promise!End, Suite

\* A step that answers the query, in a state where the answer is sound.
LEMMA QueryAnswered ==
  ASSUME IInv, IInv',
         pc \notin {"idle", "spec", "finish", "done", "failed"}, pc' = "finish",
         spec' = spec, res'.solved
  PROVE  Promised
<1>1. Phase = "judging" /\ Phase' = "judging"
  BY DEF Phase
<1>2. res.source = NoSource
  BY DEF IInv, NoAnswerYet
<1>3. res'.source \in spec.vis \cap spec.hid
  BY DEF IInv, AcceptedPassedItsOracle
<1>4. res'.source \in Programs
  BY <1>3 DEF IInv, TypeOK, ControlTyped, Oracle
<1> QED BY <1>1, <1>2, <1>3, <1>4 DEF Promised, Promise!ANext, Promise!Answer, Suite

\* A step that gives the query its oracle.
LEMMA OracleWritten ==
  ASSUME pc = "spec", pc' \in {"cache", "cascade"}, Suite(spec') \in Oracles,
         res' = res
  PROVE  Promised
<1>1. Phase = "asked" /\ Phase' = "judging"
  BY DEF Phase
<1> QED BY <1>1 DEF Promised, Promise!ANext, Promise!Contract, Suite

LEMMA FailPromised ==
  ASSUME IInv, NEW why, Fail(why), pc \notin Resting
  PROVE  Promised
<1>1. res'.source = res.source
  BY DEF Fail, IInv, TypeOK, ResultTyped, Results
<1> QED BY <1>1, QueryEnds DEF Fail

LEMMA RouterPromised ==
  ASSUME IInv, IInv', RouterStep
  PROVE  Promised
<1>1. CASE ReuseSpec
  <2>1. Suite(spec') \in Oracles
    BY <1>1 DEF ReuseSpec, IInv, SuitesAreWhole, TypeOK, JobTyped
  <2> QED BY <1>1, <2>1, OracleWritten DEF ReuseSpec, AfterSpec
<1>2. CASE GenerateSpec
  <2>1. Suite(spec') \in Oracles
    BY <1>2, ProgramsAssumption DEF GenerateSpec, Suite
  <2> QED BY <1>2, <2>1, OracleWritten DEF GenerateSpec, AfterSpec
<1>3. CASE SpecFails
  BY <1>3, FailPromised DEF SpecFails, Resting
<1>4. CASE CacheHit
  <2>1. res'.solved
    BY <1>4 DEF CacheHit, IInv, TypeOK, ResultTyped, Results
  <2> QED BY <1>4, <2>1, QueryAnswered DEF CacheHit
<1>5. CASE CacheMiss
  BY <1>5, StillJudging DEF CacheMiss
<1>6. CASE FinishUnsolved \/ Finish
  BY <1>6, QueryEnds DEF FinishUnsolved, Finish, Resting
<1> QED BY <1>1, <1>2, <1>3, <1>4, <1>5, <1>6 DEF RouterStep

LEMMA SequentialPromised ==
  ASSUME IInv, IInv', SequentialStep
  PROVE  Promised
<1>1. CASE TierHead
  BY <1>1, FailPromised, StillJudging DEF TierHead, Resting
<1>2. CASE SampleFails
  BY <1>2, FailPromised DEF SampleFails, Resting
<1>3. CASE EnterSequential \/ SampleTier \/ RouteAbove
  BY <1>3, StillJudging DEF EnterSequential, SampleTier, RouteAbove
<1>4. CASE RepairRound
  <2>1. pc = "repair" /\ pc' \in {"route", "repair"} /\ spec' = spec /\ res' = res
    BY <1>4 DEF RepairRound
  <2> QED BY <2>1, StillJudging
<1>5. CASE RouteRefuted
  <2>1. pc = "route" /\ pc' \in {"repair", "finish", "tier"} /\ spec' = spec /\ res' = res
    BY <1>5 DEF RouteRefuted, NextTier
  <2> QED BY <2>1, StillJudging
<1>6. CASE RepairGivesUp \/ RouteBelow \/ RejectTier
  BY <1>6, StillJudging DEF RepairGivesUp, RouteBelow, RejectTier, NextTier
<1>7. CASE AcceptTier
  <2>1. res'.solved
    BY <1>7 DEF AcceptTier, Accepted
  <2> QED BY <1>7, <2>1, QueryAnswered DEF AcceptTier
<1>8. CASE SampleTimesOut
  <2>1. res'.source = res.source /\ res'.solved = res.solved
    BY <1>8 DEF SampleTimesOut, IInv, TypeOK, ResultTyped, Results
  <2>2. pc = "sample" /\ pc' = "finish" /\ spec' = spec
    BY <1>8 DEF SampleTimesOut
  <2> QED BY <2>1, <2>2, StillJudging
<1> QED BY <1>1, <1>2, <1>3, <1>4, <1>5, <1>6, <1>7, <1>8 DEF SequentialStep

LEMMA SpeculativePromised ==
  ASSUME IInv, IInv', SpeculativeStep
  PROVE  Promised
<1>1. CASE EnterSpeculative \/ Collect \/ RejectSpeculative \/ NoneSurvived
  BY <1>1, StillJudging DEF EnterSpeculative, Collect, RejectSpeculative, NoneSurvived
<1>2. ASSUME NEW k \in Tiers, TierSamples(k) \/ TierErrs(k)
      PROVE  Promised
  BY <1>2, StillJudging DEF TierSamples, TierErrs
<1>3. CASE AcceptSpeculative
  <2>1. PICK source, k, score : res' = Accepted(source, k, score)
    BY <1>3 DEF AcceptSpeculative
  <2>2. res'.solved
    BY <2>1 DEF Accepted
  <2> QED BY <1>3, <2>2, QueryAnswered DEF AcceptSpeculative
<1> QED BY <1>1, <1>2, <1>3 DEF SpeculativeStep

LEMMA StepPromised ==
  ASSUME IInv, IInv', [Next]_vars
  PROVE  Promised
<1>1. CASE StartSolve
  <2>1. Phase \in {"idle", "over"} /\ Phase' = "asked"
    BY <1>1 DEF StartSolve, Phase, Resting
  <2>2. spec' = NoSpec /\ res'.source = NoSource
    BY <1>1 DEF StartSolve, NoResult
  <2> QED BY <2>1, <2>2 DEF Promised, Promise!ANext, Promise!Ask, Suite
<1>2. CASE ContextDone
  <2>1. pc' = pc /\ spec' = spec /\ res' = res
    BY <1>2 DEF ContextDone
  <2> QED BY <2>1 DEF Promised, Promise!avars, Phase, Suite
<1>3. CASE Crash
  BY <1>3, FailPromised DEF Crash
<1>4. CASE UNCHANGED vars
  <2>1. pc' = pc /\ spec' = spec /\ res' = res
    BY <1>4 DEF vars
  <2> QED BY <2>1 DEF Promised, Promise!avars, Phase, Suite
<1> QED BY <1>1, <1>2, <1>3, <1>4, RouterPromised, SequentialPromised, SpeculativePromised
        DEF Next, Work

\* Whatever the arms, the tiers and the cache do, a query is given one oracle
\* before it is given any answer, and the answer is a program that passes it
\* (cascade.go:154-205).
THEOREM RouterImplementsPromise == Spec => ImplementsPromise
<1>1. ASSUME Init
      PROVE  Promise!AInit
  <2>1. pc = "idle" /\ spec = NoSpec /\ res.source = NoSource
    BY <1>1 DEF Init, NoResult
  <2>2. Phase = "idle"
    BY <2>1 DEF Phase
  <2> QED BY <2>1, <2>2 DEF Promise!AInit
<1>2. IInv /\ IInv' /\ [Next]_vars => [Promise!ANext]_(Promise!avars)
  BY StepPromised DEF Promised
<1>3. Spec => []IInv
  BY Invariance
<1> QED BY <1>1, <1>2, <1>3, PTL DEF Spec, ImplementsPromise, Promise!ASpec

-----------------------------------------------------------------------------
(* Beyond soundness.                                                       *)

Early   == {"idle", "spec", "cache", "cascade"}
AtATier == {"tier", "sample", "route", "repair", "accept"}

\* Nothing that is quoted, or may yet be, comes from a held-out run.
HeldOutUnquoted ==
  /\ "heldout" \notin prompted \cup carried \cup repair.quotes
  /\ \A i \in DOMAIN cands : "heldout" \notin cands[i].report.quotes
  /\ \A p \in Problems : \A f \in failures[p] : "heldout" \notin f.quotes

-----------------------------------------------------------------------------
(* The holdout.                                                            *)

\* The tiers from the current one on have not been up for acceptance.
TiersInTurn ==
  /\ \A k \in Tiers : consulted[k] \in 0..1
  /\ pc \in Early \cup {"fanout"} => tier = 1
  /\ pc \in Early \cup AtATier \cup {"fanout", "holdout"} =>
       \A k \in Tiers : k >= tier => consulted[k] = 0
  /\ res.acceptedAt \in Tiers =>
       \A k \in Tiers : k > res.acceptedAt => consulted[k] = 0

\* Each topology has its own program counters.
TopologyFits ==
  /\ pc \in AtATier => ~conf.deadline
  /\ pc \in {"fanout", "holdout"} => conf.deadline

HasOffer(k) == outs[k].st = "sampled" /\ Winners(outs[k].cands) # {}

OffersRefused ==
  /\ pc = "holdout" => \A k \in Tiers : k < tier /\ HasOffer(k) => consulted[k] = 1
  /\ CheapestSurvivorWins

HoldoutInv == TiersInTurn /\ TopologyFits /\ OffersRefused

-----------------------------------------------------------------------------
(* What the result says of itself.                                         *)

ThresholdsMet ==
  /\ pc = "accept" => Last(tier) \/ Score(cands) >= Threshold(tier)
  /\ res.acceptedAt \in Tiers =>
       /\ res.certified = Calibrated
       /\ conf.deadline \/ Last(res.acceptedAt) \/ res.score >= Threshold(res.acceptedAt)

AuthorsKnown ==
  /\ \A p \in Problems : specs[p] = NoSpec \/ specs[p].author \in TestModels
  /\ pc \in {"cache", "cascade", "fanout", "holdout"} \cup AtATier =>
       spec.author \in TestModels
  /\ res.acceptedAt \in Tiers =>
       spec.author \in TestModels /\ res.contaminated = Contaminated(res.acceptedAt)

-----------------------------------------------------------------------------
(* The trace.                                                              *)

\* An acceptance ends the trace, and names the tier of the answer.
AcceptEndsTrace ==
  /\ pc \in Early \cup AtATier \cup {"fanout", "holdout"} =>
       \A i \in DOMAIN trace : trace[i].action # "accept"
  /\ \A i \in DOMAIN trace : trace[i].action = "accept" => i = Len(trace)
  /\ res.acceptedAt \in Tiers => /\ res.solved /\ trace # <<>>
                                 /\ trace[Len(trace)] = Step(res.acceptedAt, "accept")

RecordIsRight ==
  observed = NoRecord \/ (pc = "done" /\ res.solved /\ observed = Record)

\* The trace goes up the tiers, and leaves none out.
TraceClimbs ==
  /\ pc \in Early \cup {"fanout"} => trace = <<>>
  /\ pc \in AtATier =>
       /\ \A i \in DOMAIN trace : trace[i].tier <= tier
       /\ \A k \in Tiers : k < tier => \E i \in DOMAIN trace : trace[i].tier = k
  /\ pc \in {"tier", "sample"} => \A i \in DOMAIN trace : trace[i].tier < tier
  /\ pc \in {"finish", "done"} /\ ~res.solved /\ ~conf.deadline =>
       IF res.err = ""
       THEN /\ \A k \in Tiers : \E i \in DOMAIN trace : trace[i].tier = k
            /\ trace[Len(trace)].action = "reject" <=> consulted[NTiers] = 1
       ELSE \E k \in Tiers : /\ Tried = 1..(k - 1)
                            /\ \A j \in Tiers : j >= k => consulted[j] = 0

Repaired(k) == Step(k, "repair") \in {trace[i] : i \in DOMAIN trace}

\* A repair is traced in the sequential topology only.
NoRepairUnderDeadline == conf.deadline => \A i \in DOMAIN trace : trace[i].action # "repair"

RepairsPayLate ==
  /\ pc = "repair" => \A i \in DOMAIN cands : ~cands[i].report.ok
  /\ pc = "route" /\ Repaired(tier) => Score(cands) < 50
  /\ pc = "accept" /\ Repaired(tier) /\ ~Calibrated => Last(tier)
  /\ UncalibratedRepairPaysOnlyAtTheLastTier

-----------------------------------------------------------------------------
(* The steps, those that end in an error taken together.                    *)

TierOpens ==
  /\ pc = "tier" /\ pc' = "sample"
  /\ UNCHANGED <<disk, job, ctx, spec, work, res, trace, history, observed>>

OutcomeComes ==
  /\ pc = "fanout" /\ \E k \in Tiers, out \in [st : {"sampled", "failed"}, cands : Seq(Candidate)] :
                        outs[k].st = "running" /\ outs' = [outs EXCEPT ![k] = out]
  /\ UNCHANGED <<disk, job, pc, ctx, spec, tier, cands, carried, repair, chosen,
                 res, trace, history, observed>>

\* A solve that was cut short is one without an answer.
LEMMA TimesOutIs ==
  ASSUME IInv, SampleTimesOut
  PROVE  /\ pc = "sample" /\ pc' = "finish"
         /\ ~res.solved /\ ~res'.solved /\ res'.err = "late"
         /\ res.acceptedAt = Nowhere /\ res'.acceptedAt = Nowhere /\ Nowhere \notin Tiers
         /\ res'.source = res.source
         /\ UNCHANGED <<disk, job, ctx, spec, work, trace, consulted, observed>>
<1>1. res \in Results
  BY DEF IInv, TypeOK, ResultTyped
<1>2. ~res.solved /\ res.acceptedAt = Nowhere /\ pc = "sample"
  BY DEF SampleTimesOut, IInv, NoAnswerYet
<1>3. Nowhere \notin Tiers
  BY TiersAssumption DEF Nowhere, Tiers
<1> QED BY <1>1, <1>2, <1>3 DEF SampleTimesOut, Results

LEMMA StepIs ==
  ASSUME IInv, [Next]_vars
  PROVE  \/ StartSolve \/ ContextDone \/ (pc \notin Resting /\ \E why : Fail(why))
         \/ ReuseSpec \/ GenerateSpec \/ CacheHit \/ CacheMiss
         \/ FinishUnsolved \/ Finish
         \/ EnterSequential \/ TierOpens \/ SampleTier \/ SampleTimesOut
         \/ RouteRefuted \/ RepairRound \/ RepairGivesUp
         \/ RouteBelow \/ RouteAbove \/ AcceptTier \/ RejectTier
         \/ EnterSpeculative \/ OutcomeComes \/ Collect
         \/ AcceptSpeculative \/ RejectSpeculative \/ NoneSurvived
         \/ UNCHANGED vars
<1>1. ASSUME SpecFails \/ SampleFails \/ Crash
      PROVE  pc \notin Resting /\ \E why : Fail(why)
  BY <1>1 DEF SpecFails, SampleFails, Crash, Resting
<1>2. ASSUME TierHead
      PROVE  TierOpens \/ (pc \notin Resting /\ \E why : Fail(why))
  BY <1>2 DEF TierHead, TierOpens, Resting
<1>3. ASSUME NEW k \in Tiers, TierSamples(k)
      PROVE  OutcomeComes
  <2>1. PICK cs \in [1..Tier[k].samples -> Sampled] :
          outs' = [outs EXCEPT ![k] = [st |-> "sampled", cands |-> cs]]
    BY <1>3 DEF TierSamples
  <2>2. Tier[k].samples \in Nat
    BY TiersAssumption
  <2>3. cs \in Seq(Candidate)
    BY <2>2, FanOutEarned DEF IInv
  <2> QED BY <1>3, <2>1, <2>3 DEF TierSamples, OutcomeComes
<1>4. ASSUME NEW k \in Tiers, TierErrs(k)
      PROVE  OutcomeComes
  <2>1. <<>> \in Seq(Candidate)
    OBVIOUS
  <2> QED BY <1>4, <2>1 DEF TierErrs, OutcomeComes
<1> QED BY <1>1, <1>2, <1>3, <1>4
        DEF Next, Work, RouterStep, SequentialStep, SpeculativeStep

-----------------------------------------------------------------------------
(* The verdict of the holdout stays held out.                               *)

LEMMA SampledUnquoted ==
  ASSUME NEW c \in Sampled
  PROVE  "heldout" \notin c.report.quotes
<1>6. PICK p \in Programs : \E r \in Reports(p) : c = [source |-> p, report |-> r]
  BY DEF Sampled
<1>1. PICK r \in Reports(p) : c = [source |-> p, report |-> r]
  BY <1>6
<1>2. ASSUME NEW stage, NEW late
      PROVE  "heldout" \notin RefutedAt(p, stage, late).quotes
  <2>1. "heldout" \notin Facts[p].quotes
    BY ProgramsAssumption
  <2> QED BY <2>1 DEF RefutedAt
<1>3. "heldout" \notin Survived(p).quotes
  BY DEF Survived
<1>4. "heldout" \notin Verdict(p).quotes
  BY <1>2, <1>3 DEF Verdict
<1>5. "heldout" \notin r.quotes
  BY <1>2, <1>4 DEF Reports
<1> QED BY <1>1, <1>5

\* What is remembered of a fan-out quotes what its reports quote.
LEMMA RecordedUnquoted ==
  ASSUME TypeOK, NEW cs \in Seq(Candidate),
         \A i \in DOMAIN cs : "heldout" \notin cs[i].report.quotes,
         \A p \in Problems : \A f \in failures[p] : "heldout" \notin f.quotes
  PROVE  \A p \in Problems : \A f \in RecordFailure(cs)[p] : "heldout" \notin f.quotes
<1> DEFINE known == {f.source : f \in failures[problem]}
           news  == {i \in DOMAIN cs :
                  /\ ~cs[i].report.ok
                  /\ cs[i].source \notin known
                  /\ Facts[cs[i].source].stage # StageParse
                  /\ \A j \in DOMAIN cs :
                       j < i /\ ~cs[j].report.ok => cs[j].source # cs[i].source}
           added == {[source |-> cs[i].source, quotes |-> cs[i].report.quotes] : i \in news}
<1>1. ASSUME NEW f \in added
      PROVE  "heldout" \notin f.quotes
  <2>1. PICK i \in news : f = [source |-> cs[i].source, quotes |-> cs[i].report.quotes]
    OBVIOUS
  <2>2. "heldout" \notin cs[i].report.quotes
    OBVIOUS
  <2> QED BY <2>1, <2>2
<1>2. RecordFailure(cs) = IF CacheEnabled THEN [failures EXCEPT ![problem] = @ \cup added]
                                          ELSE failures
  BY DEF RecordFailure
<1> HIDE DEF added
<1>3. DOMAIN failures = Problems
  BY DEF TypeOK, DiskTyped
<1> QED BY <1>1, <1>2, <1>3

LEMMA UnquotedKeeps ==
  ASSUME IInv, HeldOutUnquoted, [Next]_vars
  PROVE  HeldOutUnquoted'
<1> USE DEF HeldOutUnquoted, disk, job, work, history
<1>1. CASE StartSolve
  BY <1>1 DEF StartSolve, NoWork
<1>2. CASE \E why : Fail(why)
  BY <1>2 DEF Fail, NoWork
<1>3. CASE FinishUnsolved \/ Finish
  BY <1>3 DEF FinishUnsolved, Finish, NoWork
<1>4. CASE SampleTier
  <2>1. \A i \in DOMAIN cands' : "heldout" \notin cands'[i].report.quotes
    BY <1>4, SampledUnquoted DEF SampleTier
  <2>2. "heldout" \notin AvoidQuotes
    BY DEF AvoidQuotes, IInv, TypeOK, JobTyped
  <2> QED BY <1>4, <2>1, <2>2 DEF SampleTier
<1>5. CASE RouteRefuted
  <2>1. cands \in Seq(Candidate) /\ cands # <<>>
    BY <1>5 DEF RouteRefuted, IInv, FanOutInHand, TypeOK, WorkTyped
  <2>2. "heldout" \notin cands[BestRefuted(cands)].report.quotes
    BY <2>1, BestIsMember
  <2>3. \A p \in Problems : \A f \in failures'[p] : "heldout" \notin f.quotes
    BY <1>5, <2>1, RecordedUnquoted DEF RouteRefuted, IInv
  <2> QED BY <1>5, <2>2, <2>3 DEF RouteRefuted, ClearTier
<1>6. CASE RepairRound
  <2>1. PICK d \in Sampled :
          IF d.report.ok
          THEN cands' = Append(cands, d) /\ UNCHANGED repair
          ELSE /\ repair' = [round |-> repair.round + 1, quotes |-> d.report.quotes]
               /\ UNCHANGED cands
    BY <1>6 DEF RepairRound
  <2>2. "heldout" \notin d.report.quotes
    BY SampledUnquoted
  <2>3. \A i \in DOMAIN cands' : "heldout" \notin cands'[i].report.quotes
    <3>1. cands \in Seq(Candidate)
      BY DEF IInv, TypeOK, WorkTyped
    <3>2. CASE cands' = Append(cands, d)
      BY <2>2, <3>1, <3>2
    <3>3. CASE cands' = cands
      BY <3>3
    <3> QED BY <2>1, <3>2, <3>3
  <2>4. "heldout" \notin repair'.quotes
    BY <2>1, <2>2
  <2> QED BY <1>6, <2>3, <2>4 DEF RepairRound
<1>7. CASE RepairGivesUp
  <2>1. "heldout" \notin cands[BestRefuted(cands)].report.quotes
    BY <1>7, BestIsMember DEF RepairGivesUp, IInv, FanOutInHand, TypeOK, WorkTyped
  <2> QED BY <1>7, <2>1 DEF RepairGivesUp, ClearTier
<1>8. CASE RouteBelow
  BY <1>8 DEF RouteBelow, ClearTier
<1>9. CASE RejectTier
  <2>3. cands \in Seq(Candidate) /\ chosen \in DOMAIN cands
    BY <1>9 DEF RejectTier, IInv, FanOutInHand, TypeOK, WorkTyped
  <2>1. <<cands[chosen]>> \in Seq(Candidate) /\ "heldout" \notin cands[chosen].report.quotes
    BY <2>3, MemberTyped
  <2> DEFINE cs == <<cands[chosen]>>
  <2>4. \A i \in DOMAIN cs : "heldout" \notin cs[i].report.quotes
    BY <2>1
  <2>5. cs \in Seq(Candidate) /\ failures' = RecordFailure(cs)
    BY <1>9, <2>1 DEF RejectTier
  <2> HIDE DEF cs
  <2>2. \A p \in Problems : \A f \in failures'[p] : "heldout" \notin f.quotes
    BY <2>4, <2>5, RecordedUnquoted DEF IInv
  <2> QED BY <1>9, <2>2 DEF RejectTier, ClearTier, RefusalQuotes
<1>10. CASE EnterSpeculative
  <2>1. "heldout" \notin AvoidQuotes
    BY DEF AvoidQuotes, IInv, TypeOK, JobTyped
  <2> QED BY <1>10, <2>1 DEF EnterSpeculative
<1>11. CASE UNCHANGED <<failures, cands, carried, repair, prompted>>
  BY <1>11
<1>12. ASSUME \/ ContextDone \/ ReuseSpec \/ GenerateSpec \/ CacheHit \/ CacheMiss
              \/ EnterSequential \/ TierOpens \/ RouteAbove \/ AcceptTier
              \/ OutcomeComes \/ Collect \/ AcceptSpeculative \/ RejectSpeculative
              \/ NoneSurvived \/ UNCHANGED vars
       PROVE  UNCHANGED <<failures, cands, carried, repair, prompted>>
  BY <1>12 DEF ContextDone, ReuseSpec, GenerateSpec, CacheHit, CacheMiss, EnterSequential,
     TierOpens, RouteAbove, AcceptTier, OutcomeComes, Collect, AcceptSpeculative,
     RejectSpeculative, NoneSurvived, vars
<1>13. CASE SampleTimesOut
  <2>1. "heldout" \notin AvoidQuotes
    BY DEF AvoidQuotes, IInv, TypeOK, JobTyped
  <2>2. "heldout" \notin prompted'
    BY <1>13, <2>1 DEF SampleTimesOut
  <2> QED BY <1>13, <2>2, TimesOutIs
<1> QED BY StepIs, <1>13, <1>1, <1>2, <1>3, <1>4, <1>5, <1>6, <1>7, <1>8, <1>9, <1>10, <1>11, <1>12

\* No prompt quotes what a held-out run said, in this solve or, by way of the recorded
\* failures, in a later one.
THEOREM HoldoutStaysHeldOut == Spec => []HoldoutOutcomeNeverPrompted
<1>1. Init => HeldOutUnquoted
  BY DEF Init, InitWork, HeldOutUnquoted
<1>2. IInv /\ HeldOutUnquoted /\ [Next]_vars => HeldOutUnquoted'
  BY UnquotedKeeps
<1>3. HeldOutUnquoted => HoldoutOutcomeNeverPrompted
  BY DEF HeldOutUnquoted, HoldoutOutcomeNeverPrompted
<1> QED BY <1>1, <1>2, <1>3, Invariance, PTL DEF Spec

-----------------------------------------------------------------------------
(* No shopping against the holdout, and the cheapest survivor wins.         *)

\* The loop of the sequential topology leaves a tier.
LEMMA LeavesTier ==
  ASSUME IInv, NextTier, pc \in AtATier
  PROVE  /\ tier \in Tiers /\ tier \in Nat
         /\ \/ pc' = "finish" /\ tier = NTiers /\ tier' = tier
            \/ pc' = "tier" /\ tier < NTiers /\ tier' = tier + 1
<1>1. tier \in Tiers
  BY DEF IInv, TierInRange, AtATier
<1> QED BY <1>1, TiersAssumption DEF NextTier, Last, Tiers

\* What an acceptance of the speculative topology does.
LEMMA SpeculativeAccepts ==
  ASSUME AcceptSpeculative
  PROVE  \E k \in Tiers :
           /\ Cheapest(k)
           /\ res'.solved /\ res'.acceptedAt = k /\ res'.contaminated = Contaminated(k)
           /\ res'.certified = Calibrated
           /\ consulted' = [consulted EXCEPT ![k] = @ + 1]
           /\ trace' = Append(trace, Step(k, "accept"))
<1>1. PICK k \in Tiers :
        /\ Cheapest(k)
        /\ \E w \in Winners(outs[k].cands) :
             res' = Accepted(outs[k].cands[Rep(outs[k].cands, w)].source, k, Score(outs[k].cands))
        /\ consulted' = [consulted EXCEPT ![k] = @ + 1]
        /\ trace' = Append(trace, Step(k, "accept"))
  BY DEF AcceptSpeculative
<1>2. PICK w \in Winners(outs[k].cands) :
        res' = Accepted(outs[k].cands[Rep(outs[k].cands, w)].source, k, Score(outs[k].cands))
  BY <1>1
<1>3. /\ res'.solved /\ res'.acceptedAt = k /\ res'.contaminated = Contaminated(k)
      /\ res'.certified = Calibrated
  BY <1>2, Zenon DEF Accepted
<1> QED BY <1>1, <1>3

\* The steps that turn to acceptance, to the next tier, or to a new solve; the others
\* leave alone what the holdout has seen.
LEMMA TurnKeeps ==
  ASSUME IInv, TiersInTurn, [Next]_vars
  PROVE  TiersInTurn'
<1> USE DEF TiersInTurn, disk, job, work, history, Early, AtATier
<1>0. /\ tier \in 1..(NTiers + 1) /\ NTiers \in Nat /\ \A k \in Tiers : k \in Int
      /\ consulted \in [Tiers -> Nat]
  BY TiersAssumption DEF IInv, TypeOK, WorkTyped, HistoryTyped, Tiers
<1>1. CASE StartSolve
  <2>1. pc' = "spec" /\ tier' = 1 /\ res'.acceptedAt = -1
    BY <1>1 DEF StartSolve, NoWork, NoResult, Nowhere
  <2>2. \A k \in Tiers : consulted'[k] = 0
    BY <1>1 DEF StartSolve
  <2> QED BY <2>1, <2>2 DEF Tiers
<1>2. CASE \E why : Fail(why)
  <2>1. pc' = "failed" /\ UNCHANGED consulted /\ res'.acceptedAt = res.acceptedAt
    BY <1>2 DEF Fail, IInv, TypeOK, ResultTyped, Results
  <2> QED BY <2>1
<1>3. CASE FinishUnsolved \/ Finish
  BY <1>3 DEF FinishUnsolved, Finish
<1>4. CASE CacheHit
  <2>1. pc' = "finish" /\ UNCHANGED consulted /\ res'.acceptedAt = 0
    BY <1>4 DEF CacheHit, IInv, TypeOK, ResultTyped, Results, CacheArm
  <2> QED BY <2>1 DEF Tiers
<1>5. CASE RouteRefuted
  <2>1. CASE pc' = "repair" /\ UNCHANGED tier
    BY <1>5, <2>1 DEF RouteRefuted
  <2>2. CASE NextTier
    <3>1. tier' >= tier /\ pc' \in {"finish", "tier"}
      BY <1>0, <1>5, <2>2, LeavesTier DEF RouteRefuted
    <3>2. tier' \in Int
      BY <1>0, <1>5, <2>2, LeavesTier DEF RouteRefuted
    <3> QED BY <1>0, <1>5, <3>1, <3>2 DEF RouteRefuted
  <2> QED BY <1>5, <2>1, <2>2 DEF RouteRefuted
<1>6. CASE RepairGivesUp \/ RouteBelow
  <2>1. NextTier /\ UNCHANGED <<consulted, res>> /\ pc \in AtATier
    BY <1>6 DEF RepairGivesUp, RouteBelow
  <2>2. tier' >= tier /\ tier' \in Int /\ pc' \in {"finish", "tier"}
    BY <1>0, <2>1, LeavesTier
  <2> QED BY <1>0, <2>1, <2>2
<1>7. CASE RejectTier
  <2>1. NextTier /\ UNCHANGED res /\ pc = "accept" /\ consulted' = [consulted EXCEPT ![tier] = @ + 1]
    BY <1>7 DEF RejectTier
  <2>2. /\ tier \in Tiers /\ (pc' = "finish" \/ (pc' = "tier" /\ tier' = tier + 1))
    BY <2>1, LeavesTier
  <2>3. res.acceptedAt = Nowhere
    BY <2>1 DEF IInv, NoAnswerYet
  <2>4. \A k \in Tiers : consulted'[k] = IF k = tier THEN 1 ELSE consulted[k]
    BY <1>0, <2>1, <2>2
  <2>5. \A k \in Tiers : consulted'[k] \in 0..1
    BY <2>4
  <2>6. pc' = "tier" => \A k \in Tiers : k >= tier' => consulted'[k] = 0
    BY <1>0, <2>1, <2>2, <2>4
  <2>7. res'.acceptedAt \notin Tiers
    BY <2>1, <2>3 DEF Nowhere, Tiers
  <2> QED BY <2>2, <2>5, <2>6, <2>7
<1>8. CASE AcceptTier
  <2>1. /\ pc = "accept" /\ pc' = "finish" /\ res'.acceptedAt = tier
        /\ consulted' = [consulted EXCEPT ![tier] = @ + 1]
    BY <1>8 DEF AcceptTier, Accepted
  <2>2. tier \in Tiers
    BY <2>1 DEF IInv, TierInRange
  <2>3. \A k \in Tiers : consulted'[k] = IF k = tier THEN 1 ELSE consulted[k]
    BY <1>0, <2>1, <2>2
  <2> QED BY <1>0, <2>1, <2>2, <2>3
<1>9. CASE AcceptSpeculative
  <2>1. PICK k \in Tiers :
          /\ Cheapest(k) /\ res'.acceptedAt = k
          /\ consulted' = [consulted EXCEPT ![k] = @ + 1]
    BY <1>9, SpeculativeAccepts
  <2>2. k >= tier /\ pc = "holdout" /\ pc' = "finish"
    BY <1>9, <2>1 DEF AcceptSpeculative, Cheapest, Offering
  <2>3. \A j \in Tiers : consulted'[j] = IF j = k THEN 1 ELSE consulted[j]
    BY <1>0, <2>1, <2>2
  <2> QED BY <1>0, <2>1, <2>2, <2>3
<1>10. CASE RejectSpeculative
  <2>1. PICK k \in Tiers :
          /\ Cheapest(k) /\ tier' = k + 1
          /\ consulted' = [consulted EXCEPT ![k] = @ + 1]
    BY <1>10 DEF RejectSpeculative
  <2>2. k >= tier /\ pc = "holdout" /\ UNCHANGED <<pc, res>>
    BY <1>10, <2>1 DEF RejectSpeculative, Cheapest, Offering
  <2>3. \A j \in Tiers : consulted'[j] = IF j = k THEN 1 ELSE consulted[j]
    BY <1>0, <2>1, <2>2
  <2>4. \A j \in Tiers : j >= tier' => consulted'[j] = 0
    BY <1>0, <2>1, <2>2, <2>3
  <2>5. \A j \in Tiers : consulted'[j] \in 0..1
    BY <2>3
  <2>6. res.acceptedAt \notin Tiers
    <3>1. res.acceptedAt = -1
      BY <2>2 DEF IInv, NoAnswerYet, Nowhere
    <3> QED BY <3>1 DEF Tiers
  <2> QED BY <2>2, <2>4, <2>5, <2>6
<1>11. CASE EnterSequential \/ EnterSpeculative
  BY <1>11 DEF EnterSequential, EnterSpeculative
<1>12. CASE ReuseSpec \/ GenerateSpec \/ CacheMiss
  BY <1>12 DEF ReuseSpec, GenerateSpec, CacheMiss, AfterSpec
<1>13. CASE TierOpens \/ SampleTier \/ RepairRound \/ RouteAbove
  BY <1>13 DEF TierOpens, SampleTier, RepairRound, RouteAbove
<1>14. CASE OutcomeComes \/ Collect \/ NoneSurvived
  BY <1>14 DEF OutcomeComes, Collect, NoneSurvived
<1>15. CASE ContextDone \/ UNCHANGED vars
  BY <1>15 DEF ContextDone, vars
<1>16. CASE SampleTimesOut
  BY <1>16, TimesOutIs DEF TiersInTurn, Early, AtATier
<1> QED BY StepIs, <1>16, <1>1, <1>2, <1>3, <1>4, <1>5, <1>6, <1>7, <1>8, <1>9, <1>10, <1>11,
           <1>12, <1>13, <1>14, <1>15

LEMMA TopologyKeeps ==
  ASSUME IInv, TopologyFits, [Next]_vars
  PROVE  TopologyFits'
<1> USE DEF TopologyFits, disk, job, work, history, AtATier
<1>1. CASE StartSolve \/ (\E why : Fail(why)) \/ FinishUnsolved \/ Finish \/ CacheHit
  BY <1>1 DEF StartSolve, Fail, FinishUnsolved, Finish, CacheHit
<1>2. CASE RouteRefuted \/ RepairGivesUp \/ RouteBelow \/ RejectTier
  BY <1>2 DEF RouteRefuted, RepairGivesUp, RouteBelow, RejectTier, NextTier
<1>3. CASE AcceptTier \/ AcceptSpeculative \/ NoneSurvived
  BY <1>3 DEF AcceptTier, AcceptSpeculative, NoneSurvived
<1>4. CASE EnterSequential \/ EnterSpeculative \/ ReuseSpec \/ GenerateSpec \/ CacheMiss
  BY <1>4 DEF EnterSequential, EnterSpeculative, ReuseSpec, GenerateSpec, CacheMiss, AfterSpec
<1>5. CASE TierOpens \/ SampleTier \/ RepairRound \/ RouteAbove
  BY <1>5 DEF TierOpens, SampleTier, RepairRound, RouteAbove
<1>6. CASE OutcomeComes \/ Collect \/ RejectSpeculative \/ ContextDone \/ UNCHANGED vars
  BY <1>6 DEF OutcomeComes, Collect, RejectSpeculative, ContextDone, vars
<1>7. CASE SampleTimesOut
  BY <1>7, TimesOutIs DEF TopologyFits, AtATier
<1> QED BY StepIs, <1>7, <1>1, <1>2, <1>3, <1>4, <1>5, <1>6

LEMMA OffersKeep ==
  ASSUME IInv, TiersInTurn, TopologyFits, OffersRefused, [Next]_vars
  PROVE  OffersRefused'
<1> USE DEF OffersRefused, CheapestSurvivorWins, disk, job, work, history
<1>0. /\ tier \in 1..(NTiers + 1) /\ NTiers \in Nat /\ \A k \in Tiers : k \in 1..NTiers
      /\ consulted \in [Tiers -> Nat]
  BY TiersAssumption DEF IInv, TypeOK, WorkTyped, HistoryTyped, Tiers
<1>1. ASSUME pc' \notin {"finish", "holdout"}
      PROVE  OffersRefused'
  BY <1>1
<1>2. CASE StartSolve \/ (\E why : Fail(why)) \/ FinishUnsolved \/ Finish
           \/ ReuseSpec \/ GenerateSpec \/ CacheMiss
  <2>1. pc' \notin {"finish", "holdout"}
    BY <1>2 DEF StartSolve, Fail, FinishUnsolved, Finish, ReuseSpec, GenerateSpec, CacheMiss,
                AfterSpec
  <2> QED BY <1>1, <2>1
<1>3. CASE EnterSequential \/ EnterSpeculative \/ TierOpens \/ SampleTier \/ RepairRound
           \/ RouteAbove \/ OutcomeComes
  <2>1. pc' \notin {"finish", "holdout"}
    BY <1>3 DEF EnterSequential, EnterSpeculative, TierOpens, SampleTier, RepairRound,
                RouteAbove, OutcomeComes
  <2> QED BY <1>1, <2>1
<1>4. CASE CacheHit
  <2>1. pc' = "finish" /\ res'.acceptedAt = CacheArm
    BY <1>4 DEF CacheHit, IInv, TypeOK, ResultTyped, Results
  <2> QED BY <2>1
<1>5. CASE RouteRefuted \/ RepairGivesUp \/ RouteBelow \/ AcceptTier \/ RejectTier
  <2>1. pc \in AtATier /\ conf' = conf /\ pc' # "holdout"
    BY <1>5 DEF RouteRefuted, RepairGivesUp, RouteBelow, AcceptTier, RejectTier, NextTier,
                AtATier
  <2> QED BY <2>1 DEF TopologyFits
<1>6. CASE Collect
  <2>1. tier' = 1 /\ pc' = "holdout"
    BY <1>6 DEF Collect, TiersInTurn
  <2>2. \A k \in Tiers : ~(k < tier')
    BY <1>0, <2>1
  <2> QED BY <2>1, <2>2
<1>7. ASSUME NEW k \in Tiers, Cheapest(k), pc = "holdout"
      PROVE  \A j \in Tiers : j < k /\ HasOffer(j) => consulted[j] = 1
  <2> SUFFICES ASSUME NEW j \in Tiers, j < k, HasOffer(j)
               PROVE  consulted[j] = 1
    OBVIOUS
  <2>1. CASE j < tier
    BY <1>7, <2>1
  <2>2. CASE j >= tier
    <3>1. j \in tier..NTiers
      BY <1>0, <2>2
    <3>2. j \in Offering
      BY <3>1 DEF Offering, HasOffer
    <3>3. k <= j
      BY <1>7, <3>2 DEF Cheapest
    <3> QED BY <1>0, <3>3
  <2> QED BY <1>0, <2>1, <2>2
<1>8. CASE AcceptSpeculative
  <2>1. PICK k \in Tiers :
          /\ Cheapest(k) /\ res'.acceptedAt = k /\ res'.solved
          /\ consulted' = [consulted EXCEPT ![k] = @ + 1]
    BY <1>8, SpeculativeAccepts
  <2>2. pc = "holdout" /\ pc' = "finish" /\ UNCHANGED outs
    BY <1>8 DEF AcceptSpeculative
  <2>3. \A j \in Tiers : j < k => consulted'[j] = consulted[j]
    BY <1>0, <2>1
  <2> QED BY <1>7, <2>1, <2>2, <2>3 DEF HasOffer
<1>9. CASE RejectSpeculative
  <2>1. PICK k \in Tiers :
          /\ Cheapest(k) /\ tier' = k + 1
          /\ consulted' = [consulted EXCEPT ![k] = @ + 1]
    BY <1>9 DEF RejectSpeculative
  <2>2. pc = "holdout" /\ pc' = "holdout" /\ UNCHANGED outs
    BY <1>9 DEF RejectSpeculative
  <2>3. k >= tier
    BY <1>0, <2>1 DEF Cheapest, Offering
  <2>4. consulted[k] = 0
    BY <2>2, <2>3 DEF TiersInTurn
  <2>5. \A j \in Tiers : j < tier' /\ HasOffer(j) => consulted'[j] = 1
    <3> SUFFICES ASSUME NEW j \in Tiers, j < tier', HasOffer(j)
                 PROVE  consulted'[j] = 1
      OBVIOUS
    <3>1. CASE j = k
      BY <1>0, <2>1, <2>4, <3>1
    <3>2. CASE j < k
      BY <1>0, <1>7, <2>1, <2>2, <3>2
    <3> QED BY <1>0, <2>1, <3>1, <3>2
  <2> QED BY <2>2, <2>5 DEF HasOffer
<1>10. CASE NoneSurvived
  <2>1. Offering = {} /\ pc = "holdout" /\ pc' = "finish" /\ UNCHANGED <<outs, consulted>>
    BY <1>10 DEF NoneSurvived
  <2>2. \A j \in Tiers : HasOffer(j) => consulted[j] = 1
    <3> SUFFICES ASSUME NEW j \in Tiers, HasOffer(j)
                 PROVE  consulted[j] = 1
      OBVIOUS
    <3>1. ~(j >= tier)
      <4>1. j >= tier => j \in tier..NTiers
        BY <1>0
      <4> QED BY <2>1, <4>1 DEF Offering, HasOffer
    <3> QED BY <1>0, <2>1, <3>1
  <2> QED BY <2>1, <2>2 DEF HasOffer
<1>11. CASE ContextDone \/ UNCHANGED vars
  <2>1. UNCHANGED <<pc, conf, res, outs, consulted, tier>>
    BY <1>11 DEF ContextDone, vars
  <2> QED BY <2>1 DEF HasOffer
<1>12. CASE SampleTimesOut
  BY <1>12, TimesOutIs DEF OffersRefused, HasOffer, CheapestSurvivorWins, TopologyFits, AtATier
<1> QED BY StepIs, <1>12, <1>2, <1>3, <1>4, <1>5, <1>6, <1>8, <1>9, <1>10, <1>11

LEMMA HoldoutInvariance == Spec => []HoldoutInv
<1>1. ASSUME Init
      PROVE  HoldoutInv
  <2>0. res = NoResult
    BY <1>1 DEF Init
  <2>4. res.acceptedAt = -1
    BY <2>0 DEF NoResult, Nowhere
  <2>1. pc = "idle" /\ tier = 1 /\ res.acceptedAt \notin Tiers
    BY <1>1, <2>4 DEF Init, InitWork, Tiers
  <2>2. \A k \in Tiers : consulted[k] = 0
    BY <1>1 DEF Init
  <2>3. TiersInTurn
    BY <2>1, <2>2 DEF TiersInTurn
  <2> QED BY <2>1, <2>3 DEF HoldoutInv, TopologyFits, OffersRefused, CheapestSurvivorWins,
                            AtATier
<1>2. IInv /\ HoldoutInv /\ [Next]_vars => HoldoutInv'
  BY TurnKeeps, TopologyKeeps, OffersKeep DEF HoldoutInv
<1> QED BY <1>1, <1>2, Invariance, PTL DEF Spec

\* The held-out partition decides about at most one candidate of each tier, and a tier
\* above the accepted one is not consulted at all.
THEOREM NoShopping == Spec => []NoHoldoutShopping
<1>1. HoldoutInv => NoHoldoutShopping
  BY DEF HoldoutInv, TiersInTurn, NoHoldoutShopping
<1> QED BY <1>1, HoldoutInvariance, PTL

\* A tier below the accepted one had nothing to offer or was refused by the holdout,
\* in whatever order the tiers finished.
THEOREM CheapestWins == Spec => []CheapestSurvivorWins
<1>1. HoldoutInv => CheapestSurvivorWins
  BY DEF HoldoutInv, OffersRefused
<1> QED BY <1>1, HoldoutInvariance, PTL

-----------------------------------------------------------------------------
(* The certificate.                                                         *)

LEMMA CertificateTyped ==
  ASSUME TypeOK
  PROVE  conf.cert.tau \in Seq(0..100)
<1>1. CASE conf.cert \in Certificates
  BY <1>1, RunAssumption
<1>2. CASE conf.cert = NoCert
  BY <1>2 DEF NoCert
<1> QED BY <1>1, <1>2 DEF TypeOK, JobTyped

LEMMA NthTyped ==
  ASSUME NEW S, NEW s \in Seq(S), NEW k \in Int, k >= 1, k <= Len(s)
  PROVE  s[k] \in S
<1>1. k \in 1..Len(s)
  OBVIOUS
<1> QED BY <1>1

LEMMA PercentIsInt ==
  ASSUME NEW x \in 0..100
  PROVE  x \in Int
OBVIOUS

LEMMA ThresholdTyped ==
  ASSUME TypeOK, NEW k \in Tiers
  PROVE  Threshold(k) \in Int
<1>1. k \in Int /\ k >= 1
  BY TiersAssumption DEF Tiers
<1>2. conf.cert.tau \in Seq(0..100)
  BY CertificateTyped
<1>3. CASE Calibrated /\ k <= Len(conf.cert.tau)
  <2>1. conf.cert.tau[k] \in 0..100
    BY <1>1, <1>2, <1>3, NthTyped, Zenon
  <2>2. Threshold(k) = conf.cert.tau[k]
    BY <1>3, Zenon DEF Threshold
  <2> QED BY <2>1, <2>2, PercentIsInt
<1>4. CASE ~(Calibrated /\ k <= Len(conf.cert.tau))
  BY <1>4 DEF Threshold
<1> QED BY <1>3, <1>4

LEMMA ThresholdsKeep ==
  ASSUME IInv, TopologyFits, ThresholdsMet, [Next]_vars
  PROVE  ThresholdsMet'
<1> USE DEF disk, job, work, history
<1>1. ASSUME pc' # "accept", conf' = conf,
             \/ res'.acceptedAt \notin Tiers
             \/ /\ res'.acceptedAt = res.acceptedAt /\ res'.certified = res.certified
                /\ res'.score = res.score
      PROVE  ThresholdsMet'
  BY <1>1 DEF ThresholdsMet, Threshold, Calibrated, Last
<1>2. CASE StartSolve
  <2>1. pc' = "spec" /\ res'.acceptedAt = -1
    BY <1>2 DEF StartSolve, NoResult, Nowhere
  <2> QED BY <2>1 DEF ThresholdsMet, Tiers
<1>3. CASE \E why : Fail(why)
  <2>1. /\ pc' = "failed" /\ conf' = conf
        /\ res'.acceptedAt = res.acceptedAt /\ res'.certified = res.certified
        /\ res'.score = res.score
    BY <1>3 DEF Fail, IInv, TypeOK, ResultTyped, Results
  <2> QED BY <1>1, <2>1
<1>4. CASE CacheHit
  <2>1. pc' = "finish" /\ conf' = conf /\ res'.acceptedAt = 0
    BY <1>4 DEF CacheHit, IInv, TypeOK, ResultTyped, Results, CacheArm
  <2> QED BY <1>1, <2>1 DEF Tiers
<1>5. CASE RouteAbove
  <2>1. /\ pc' = "accept" /\ UNCHANGED <<conf, res, cands, tier>>
        /\ tier \in Tiers /\ res.acceptedAt = -1
        /\ Last(tier) \/ ~(Score(cands) < Threshold(tier))
    BY <1>5 DEF RouteAbove, BelowThreshold, IInv, TierInRange, NoAnswerYet, Nowhere
  <2>2. Score(cands) \in Int /\ Threshold(tier) \in Int
    BY <2>1, ScoreIsPercentage, ThresholdTyped DEF IInv
  <2>3. Last(tier) \/ Score(cands) >= Threshold(tier)
    BY <2>1, <2>2
  <2>4. (Last(tier) \/ Score(cands) >= Threshold(tier))'
    BY <2>1, <2>3 DEF Threshold, Calibrated, Last
  <2> QED BY <2>1, <2>4 DEF ThresholdsMet, Tiers
<1>6. CASE AcceptTier
  <2>1. /\ pc = "accept" /\ pc' = "finish" /\ conf' = conf
        /\ res'.acceptedAt = tier /\ res'.certified = Calibrated /\ res'.score = Score(cands)
    BY <1>6 DEF AcceptTier, Accepted
  <2> QED BY <2>1 DEF ThresholdsMet, Threshold, Calibrated, Last
<1>7. CASE AcceptSpeculative
  <2>1. res'.certified = Calibrated
    BY <1>7, SpeculativeAccepts
  <2>2. pc' = "finish" /\ conf' = conf /\ conf.deadline
    BY <1>7 DEF AcceptSpeculative, TopologyFits
  <2> QED BY <2>1, <2>2 DEF ThresholdsMet, Calibrated
<1>8. CASE RouteRefuted \/ RepairGivesUp \/ RouteBelow \/ RejectTier
  <2>1. pc' # "accept" /\ UNCHANGED <<conf, res>>
    BY <1>8 DEF RouteRefuted, RepairGivesUp, RouteBelow, RejectTier, NextTier
  <2> QED BY <1>1, <2>1
<1>9. CASE FinishUnsolved \/ Finish \/ ReuseSpec \/ GenerateSpec \/ CacheMiss
  <2>1. pc' # "accept" /\ UNCHANGED <<conf, res>>
    BY <1>9 DEF FinishUnsolved, Finish, ReuseSpec, GenerateSpec, CacheMiss, AfterSpec
  <2> QED BY <1>1, <2>1
<1>10. CASE EnterSequential \/ TierOpens \/ SampleTier \/ RepairRound
  <2>1. pc' # "accept" /\ UNCHANGED <<conf, res>>
    BY <1>10 DEF EnterSequential, TierOpens, SampleTier, RepairRound
  <2> QED BY <1>1, <2>1
<1>11. CASE EnterSpeculative \/ OutcomeComes \/ Collect \/ RejectSpeculative \/ NoneSurvived
  <2>1. pc' # "accept" /\ UNCHANGED <<conf, res>>
    BY <1>11 DEF EnterSpeculative, OutcomeComes, Collect, RejectSpeculative, NoneSurvived
  <2> QED BY <1>1, <2>1
<1>12. CASE ContextDone \/ UNCHANGED vars
  BY <1>12 DEF ContextDone, vars, ThresholdsMet, Threshold, Calibrated, Last
<1>13. CASE SampleTimesOut
  BY <1>13, TimesOutIs DEF ThresholdsMet
<1> QED BY StepIs, <1>13, <1>2, <1>3, <1>4, <1>5, <1>6, <1>7, <1>8, <1>9, <1>10, <1>11, <1>12

LEMMA ThresholdInvariance == Spec => []ThresholdsMet
<1>1. ASSUME Init
      PROVE  ThresholdsMet
  <2>1. res = NoResult /\ pc = "idle"
    BY <1>1 DEF Init
  <2>2. res.acceptedAt = -1
    BY <2>1 DEF NoResult, Nowhere
  <2> QED BY <2>1, <2>2 DEF ThresholdsMet, Tiers
<1>2. IInv /\ HoldoutInv /\ ThresholdsMet /\ [Next]_vars => ThresholdsMet'
  BY ThresholdsKeep DEF HoldoutInv
<1> QED BY <1>1, <1>2, Invariance, HoldoutInvariance, PTL DEF Spec

\* A certified answer reached its tier's threshold, in the topology that looks at the
\* thresholds, under a certificate with one for every tier but the last.
THEOREM CertifiedCoverage ==
  Spec => [](/\ ~conf.deadline
             /\ conf.cert.valid => Len(conf.cert.tau) >= NTiers - 1
             => CertifiedMeansThresholdMet)
<1>1. ASSUME TypeOK, ThresholdsMet, ~conf.deadline,
             conf.cert.valid => Len(conf.cert.tau) >= NTiers - 1
      PROVE  CertifiedMeansThresholdMet
  <2> SUFFICES ASSUME res.certified, res.acceptedAt \in 1..(NTiers - 1)
               PROVE  /\ res.acceptedAt <= Len(conf.cert.tau)
                      /\ res.score >= conf.cert.tau[res.acceptedAt]
    BY DEF CertifiedMeansThresholdMet
  <2>1. res.acceptedAt \in Tiers /\ ~Last(res.acceptedAt)
    BY TiersAssumption DEF Tiers, Last
  <2>2. Calibrated /\ res.score >= Threshold(res.acceptedAt)
    BY <1>1, <2>1 DEF ThresholdsMet
  <2>3. Len(conf.cert.tau) \in Nat
    BY <1>1, CertificateTyped
  <2>4. res.acceptedAt <= Len(conf.cert.tau)
    BY <1>1, <2>2, <2>3, TiersAssumption DEF Calibrated
  <2> QED BY <2>2, <2>4 DEF Threshold
<1>2. TypeOK /\ ThresholdsMet
        => (/\ ~conf.deadline
            /\ conf.cert.valid => Len(conf.cert.tau) >= NTiers - 1
            => CertifiedMeansThresholdMet)
  BY <1>1
<1> QED BY <1>2, TypeCorrectness, ThresholdInvariance, PTL

-----------------------------------------------------------------------------
(* The author of the tests.                                                 *)

LEMMA AuthorsKeep ==
  ASSUME IInv, AuthorsKnown, [Next]_vars
  PROVE  AuthorsKnown'
<1> USE DEF disk, job, work, history, Early, AtATier
<1>1. ASSUME UNCHANGED <<specs, conf, spec>>,
             \/ pc' \notin {"cache", "cascade", "fanout", "holdout"} \cup AtATier
             \/ pc \in {"cache", "cascade", "fanout", "holdout"} \cup AtATier,
             \/ res'.acceptedAt \notin Tiers
             \/ /\ res'.acceptedAt = res.acceptedAt
                /\ res'.contaminated = res.contaminated
      PROVE  AuthorsKnown'
  BY <1>1 DEF AuthorsKnown, Contaminated
<1>2. CASE StartSolve
  <2>1. pc' = "spec" /\ specs' = specs /\ res'.acceptedAt = -1
    BY <1>2 DEF StartSolve, NoResult, Nowhere
  <2> QED BY <2>1 DEF AuthorsKnown, Tiers
<1>3. CASE \E why : Fail(why)
  <2>1. /\ pc' = "failed" /\ UNCHANGED <<specs, conf, spec>>
        /\ res'.acceptedAt = res.acceptedAt /\ res'.contaminated = res.contaminated
    BY <1>3 DEF Fail, IInv, TypeOK, ResultTyped, Results
  <2> QED BY <1>1, <2>1
<1>4. CASE CacheHit
  <2>1. pc' = "finish" /\ UNCHANGED <<specs, conf, spec>> /\ res'.acceptedAt = 0
    BY <1>4 DEF CacheHit, IInv, TypeOK, ResultTyped, Results, CacheArm
  <2> QED BY <1>1, <2>1 DEF Tiers
<1>5. CASE ReuseSpec
  <2>1. /\ specs' = specs /\ spec' = specs[problem] /\ specs[problem] # NoSpec
        /\ problem \in Problems /\ res' = res /\ res.acceptedAt = -1
    BY <1>5 DEF ReuseSpec, IInv, TypeOK, JobTyped, NoAnswerYet, Nowhere
  <2>2. spec'.author \in TestModels
    BY <2>1 DEF AuthorsKnown
  <2> QED BY <2>1, <2>2 DEF AuthorsKnown, Tiers
<1>6. CASE GenerateSpec
  <2>1. /\ spec'.author = conf.testModel /\ conf.testModel \in TestModels
        /\ specs' = IF CacheEnabled THEN [specs EXCEPT ![problem] = spec'] ELSE specs
        /\ res' = res /\ res.acceptedAt = -1
    <3>1. pc = "spec" /\ res' = res
      BY <1>6 DEF GenerateSpec
    <3>2. res.acceptedAt = -1
      BY <3>1 DEF IInv, NoAnswerYet, Nowhere
    <3> QED BY <1>6, <3>1, <3>2 DEF GenerateSpec, IInv, TypeOK, JobTyped
  <2>2. \A p \in Problems : specs'[p] = specs[p] \/ specs'[p] = spec'
    BY <2>1 DEF IInv, TypeOK, DiskTyped
  <2>3. \A p \in Problems : specs'[p] = NoSpec \/ specs'[p].author \in TestModels
    BY <2>1, <2>2 DEF AuthorsKnown
  <2> QED BY <2>1, <2>3 DEF AuthorsKnown, Tiers
<1>7. CASE AcceptTier
  <2>1. /\ pc = "accept" /\ pc' = "finish" /\ UNCHANGED <<specs, conf, spec>>
        /\ res'.acceptedAt = tier /\ res'.contaminated = Contaminated(tier)
    BY <1>7 DEF AcceptTier, Accepted
  <2> QED BY <2>1 DEF AuthorsKnown, Contaminated
<1>8. CASE AcceptSpeculative
  <2>1. PICK k \in Tiers : res'.acceptedAt = k /\ res'.contaminated = Contaminated(k)
    BY <1>8, SpeculativeAccepts
  <2>2. pc = "holdout" /\ pc' = "finish" /\ UNCHANGED <<specs, conf, spec>>
    BY <1>8 DEF AcceptSpeculative
  <2> QED BY <2>1, <2>2 DEF AuthorsKnown, Contaminated
<1>9. CASE FinishUnsolved \/ Finish
  <2>1. pc' = "done" /\ UNCHANGED <<specs, conf, spec, res>>
    BY <1>9 DEF FinishUnsolved, Finish
  <2> QED BY <1>1, <2>1
<1>10. CASE RouteRefuted \/ RepairGivesUp \/ RouteBelow \/ RejectTier \/ RouteAbove
  <2>1. pc \in AtATier /\ UNCHANGED <<specs, conf, spec, res>>
    BY <1>10 DEF RouteRefuted, RepairGivesUp, RouteBelow, RejectTier, RouteAbove
  <2> QED BY <1>1, <2>1
<1>11. CASE CacheMiss \/ EnterSequential \/ EnterSpeculative \/ TierOpens \/ SampleTier
            \/ RepairRound
  <2>1. /\ pc \in {"cache", "cascade"} \cup AtATier
        /\ UNCHANGED <<specs, conf, spec, res>>
    BY <1>11 DEF CacheMiss, EnterSequential, EnterSpeculative, TierOpens, SampleTier, RepairRound
  <2> QED BY <1>1, <2>1
<1>12. CASE OutcomeComes \/ Collect \/ RejectSpeculative \/ NoneSurvived
  <2>1. pc \in {"fanout", "holdout"} /\ UNCHANGED <<specs, conf, spec, res>>
    BY <1>12 DEF OutcomeComes, Collect, RejectSpeculative, NoneSurvived
  <2> QED BY <1>1, <2>1
<1>13. CASE ContextDone \/ UNCHANGED vars
  <2>1. UNCHANGED <<pc, specs, conf, spec, res>>
    BY <1>13 DEF ContextDone, vars
  <2> QED BY <2>1 DEF AuthorsKnown, Contaminated
<1>14. CASE SampleTimesOut
  BY <1>14, TimesOutIs DEF AuthorsKnown, AtATier
<1> QED BY StepIs, <1>14, <1>2, <1>3, <1>4, <1>5, <1>6, <1>7, <1>8, <1>9, <1>10, <1>11, <1>12, <1>13

LEMMA AuthorInvariance == Spec => []AuthorsKnown
<1>1. ASSUME Init
      PROVE  AuthorsKnown
  <2>1. res = NoResult /\ pc = "idle" /\ \A p \in Problems : specs[p] = NoSpec
    BY <1>1 DEF Init
  <2>2. res.acceptedAt = -1
    BY <2>1 DEF NoResult, Nowhere
  <2> QED BY <2>1, <2>2 DEF AuthorsKnown, Tiers, AtATier
<1>2. IInv /\ AuthorsKnown /\ [Next]_vars => AuthorsKnown'
  BY AuthorsKeep
<1> QED BY <1>1, <1>2, Invariance, PTL DEF Spec

\* The flag tells the truth about the oracle whenever the suite was written by this
\* run's test model, generated by it or stored by an earlier run of its.
THEOREM FlagIsTrue == Spec => [](conf.testModel = spec.author => ContaminationFlagged)
<1>1. AuthorsKnown => (conf.testModel = spec.author => ContaminationFlagged)
  BY DEF AuthorsKnown, ContaminationFlagged, Contaminated
<1> QED BY <1>1, AuthorInvariance, PTL

\* With one test model for all runs over a cache, no author grades its own work into it.
THEOREM NobodyGradesHimself ==
  ASSUME \A m, n \in TestModels : m = n
  PROVE  Spec => [](ContaminationFlagged /\ AdmittedByAnother)
<1>1. Init => AdmittedByAnother
  BY DEF Init, AdmittedByAnother
<1>2. ASSUME IInv, AuthorsKnown
      PROVE  ContaminationFlagged
  <2>1. conf.testModel \in TestModels
    BY <1>2 DEF IInv, TypeOK, JobTyped
  <2> QED BY <1>2, <2>1 DEF AuthorsKnown, ContaminationFlagged, Contaminated
<1>3. ASSUME IInv, AuthorsKnown, AdmittedByAnother, [Next]_vars
      PROVE  AdmittedByAnother'
  <2>1. CASE Finish
    <3>1. CASE Admissible
      <4> DEFINE e == [problem |-> problem, source |-> res.source, score |-> res.score,
                       tier |-> res.acceptedAt, oracle |-> spec.author]
      <4>1. solutions' = PutSolution(e)
        BY <2>1, <3>1 DEF Finish
      <4>2. \A f \in solutions' : f \in solutions \/ f = e
        BY <4>1 DEF PutSolution
      <4>3. res.acceptedAt \in Tiers /\ ~res.contaminated
        BY <1>3, <2>1, <3>1 DEF Finish, Admissible, IInv, AnswerIsWhole, TypeOK, ResultTyped,
           Results, Arms
      <4>4. spec.author \notin {Tier[res.acceptedAt].model, Tier[res.acceptedAt].planner}
        BY <1>2, <1>3, <4>3 DEF ContaminationFlagged
      <4>5. e.oracle = spec.author /\ e.tier = res.acceptedAt
        OBVIOUS
      <4> HIDE DEF e
      <4> QED BY <1>3, <4>2, <4>4, <4>5 DEF AdmittedByAnother
    <3>2. CASE ~Admissible
      BY <1>3, <2>1, <3>2 DEF Finish, AdmittedByAnother
    <3> QED BY <3>1, <3>2
  <2>2. CASE solutions' = solutions
    BY <1>3, <2>2 DEF AdmittedByAnother
  <2>3. ASSUME StartSolve \/ ContextDone \/ (\E why : Fail(why)) \/ ReuseSpec \/ GenerateSpec
               \/ CacheHit \/ CacheMiss \/ FinishUnsolved \/ EnterSequential \/ TierOpens
               \/ SampleTier \/ SampleTimesOut \/ RouteRefuted
        PROVE  solutions' = solutions
    BY <2>3 DEF disk, StartSolve, ContextDone, Fail, ReuseSpec, GenerateSpec, CacheHit, CacheMiss,
       FinishUnsolved, EnterSequential, TierOpens, SampleTier, SampleTimesOut, RouteRefuted
  <2>4. ASSUME RepairRound \/ RepairGivesUp \/ RouteBelow \/ RouteAbove \/ AcceptTier
               \/ RejectTier \/ EnterSpeculative \/ OutcomeComes \/ Collect
               \/ AcceptSpeculative \/ RejectSpeculative \/ NoneSurvived \/ UNCHANGED vars
        PROVE  solutions' = solutions
    BY <2>4 DEF disk, RepairRound, RepairGivesUp, RouteBelow, RouteAbove, AcceptTier, RejectTier,
       EnterSpeculative, OutcomeComes, Collect, AcceptSpeculative, RejectSpeculative,
       NoneSurvived, vars
  <2> QED BY <1>3, StepIs, <2>1, <2>2, <2>3, <2>4
<1>4. IInv /\ AuthorsKnown /\ AdmittedByAnother /\ [Next]_vars => AdmittedByAnother'
  BY <1>3
<1>5. IInv /\ AuthorsKnown => ContaminationFlagged
  BY <1>2
<1> QED BY <1>1, <1>4, <1>5, Invariance, AuthorInvariance, PTL DEF Spec

-----------------------------------------------------------------------------
(* The record of a solve.                                                   *)

LEMMA Grown ==
  ASSUME NEW t \in Seq(Steps), NEW s, NEW u, u = Append(t, s)
  PROVE  /\ u # <<>> /\ Len(u) = Len(t) + 1 /\ u[Len(u)] = s
         /\ Len(u) \in DOMAIN u
         /\ \A i \in DOMAIN u : i = Len(u) \/ (i \in DOMAIN t /\ u[i] = t[i])
         /\ \A i \in DOMAIN t : i \in DOMAIN u /\ u[i] = t[i] /\ i < Len(u)
OBVIOUS

\* The steps that leave the trace as it is.
LEMMA TraceStays ==
  ASSUME \/ ContextDone \/ (\E why : Fail(why))
         \/ ReuseSpec \/ GenerateSpec \/ CacheHit \/ CacheMiss
         \/ FinishUnsolved \/ Finish
         \/ EnterSequential \/ TierOpens \/ SampleTier \/ RouteAbove
         \/ EnterSpeculative \/ OutcomeComes \/ Collect \/ NoneSurvived
         \/ UNCHANGED vars
  PROVE  trace' = trace
BY DEF ContextDone, Fail, ReuseSpec, GenerateSpec, CacheHit, CacheMiss, FinishUnsolved, Finish,
   EnterSequential, TierOpens, SampleTier, RouteAbove, EnterSpeculative, OutcomeComes, Collect,
   NoneSurvived, vars

\* The steps of the cascade that add to it something else than an acceptance.
LEMMA TraceGoesOn ==
  ASSUME IInv,
         RouteRefuted \/ RepairRound \/ RepairGivesUp \/ RouteBelow \/ RejectTier
           \/ RejectSpeculative
  PROVE  /\ pc \in AtATier \cup {"holdout"} /\ res' = res /\ res.acceptedAt = -1
         /\ \/ trace' = trace
            \/ \E k \in Tiers, action \in {"escalate", "repair", "reject"} :
                 trace' = Append(trace, Step(k, action))
<1>1. CASE RouteRefuted \/ RepairRound \/ RepairGivesUp \/ RouteBelow \/ RejectTier
  <2>1. pc \in AtATier /\ tier \in Tiers /\ res' = res /\ res.acceptedAt = -1
    BY <1>1 DEF RouteRefuted, RepairRound, RepairGivesUp, RouteBelow, RejectTier, AtATier,
       IInv, TierInRange, NoAnswerYet, Nowhere
  <2>2. \/ trace' = trace
        \/ \E action \in {"escalate", "repair", "reject"} :
             trace' = Append(trace, Step(tier, action))
    BY <1>1 DEF RouteRefuted, RepairRound, RepairGivesUp, RouteBelow, RejectTier
  <2> QED BY <2>1, <2>2
<1>2. CASE RejectSpeculative
  <2>1. PICK k \in Tiers : trace' = Append(trace, Step(k, "reject"))
    BY <1>2 DEF RejectSpeculative
  <2> QED BY <1>2, <2>1 DEF RejectSpeculative, IInv, NoAnswerYet, Nowhere
<1> QED BY <1>1, <1>2

LEMMA AcceptEndsKeeps ==
  ASSUME IInv, AcceptEndsTrace, [Next]_vars
  PROVE  AcceptEndsTrace'
<1> USE DEF disk, job, work, history, Early, AtATier
<1>0. trace \in Seq(Steps)
  BY DEF IInv, TypeOK, ResultTyped
<1>1. ASSUME trace' = trace,
             \/ pc' \notin Early \cup AtATier \cup {"fanout", "holdout"}
             \/ pc \in Early \cup AtATier \cup {"fanout", "holdout"},
             \/ res'.acceptedAt \notin Tiers
             \/ res'.acceptedAt = res.acceptedAt /\ res'.solved = res.solved
      PROVE  AcceptEndsTrace'
  BY <1>1 DEF AcceptEndsTrace
<1>2. CASE StartSolve
  <2>1. trace' = <<>> /\ res'.acceptedAt = -1
    BY <1>2 DEF StartSolve, NoResult, Nowhere
  <2> QED BY <2>1 DEF AcceptEndsTrace, Tiers
<1>3. CASE \E why : Fail(why)
  <2>1. /\ pc' = "failed"
        /\ res'.acceptedAt = res.acceptedAt /\ res'.solved = res.solved
    BY <1>3 DEF Fail, IInv, TypeOK, ResultTyped, Results
  <2> QED BY <1>1, <1>3, <2>1, TraceStays
<1>4. CASE CacheHit
  <2>1. pc' = "finish" /\ res'.acceptedAt = 0
    BY <1>4 DEF CacheHit, IInv, TypeOK, ResultTyped, Results, CacheArm
  <2> QED BY <1>1, <1>4, <2>1, TraceStays DEF Tiers
<1>5. CASE ReuseSpec \/ GenerateSpec \/ CacheMiss \/ FinishUnsolved \/ Finish
  <2>1. /\ res' = res
        /\ \/ pc' \notin Early \cup AtATier \cup {"fanout", "holdout"}
           \/ pc \in Early \cup AtATier \cup {"fanout", "holdout"}
    BY <1>5 DEF ReuseSpec, GenerateSpec, CacheMiss, FinishUnsolved, Finish
  <2> QED BY <1>1, <1>5, <2>1, TraceStays
<1>6. CASE EnterSequential \/ TierOpens \/ SampleTier \/ RouteAbove \/ EnterSpeculative
  <2>1. res' = res /\ pc \in Early \cup AtATier \cup {"fanout", "holdout"}
    BY <1>6 DEF EnterSequential, TierOpens, SampleTier, RouteAbove, EnterSpeculative
  <2> QED BY <1>1, <1>6, <2>1, TraceStays
<1>7. CASE OutcomeComes \/ Collect \/ NoneSurvived
  <2>1. res' = res /\ pc \in Early \cup AtATier \cup {"fanout", "holdout"}
    BY <1>7 DEF OutcomeComes, Collect, NoneSurvived
  <2> QED BY <1>1, <1>7, <2>1, TraceStays
<1>8. CASE ContextDone \/ UNCHANGED vars
  <2>1. UNCHANGED <<pc, res>>
    BY <1>8 DEF ContextDone, vars
  <2> QED BY <1>1, <1>8, <2>1, TraceStays
<1>9. CASE RouteRefuted \/ RepairRound \/ RepairGivesUp \/ RouteBelow \/ RejectTier
           \/ RejectSpeculative
  <2>1. /\ pc \in AtATier \cup {"holdout"} /\ res' = res /\ res.acceptedAt = -1
        /\ \/ trace' = trace
           \/ \E k \in Tiers, action \in {"escalate", "repair", "reject"} :
                trace' = Append(trace, Step(k, action))
    BY <1>9, TraceGoesOn
  <2>2. CASE trace' = trace
    BY <1>1, <2>1, <2>2
  <2>3. ASSUME NEW k \in Tiers, NEW action \in {"escalate", "repair", "reject"},
               trace' = Append(trace, Step(k, action))
        PROVE  AcceptEndsTrace'
    <3>1. Step(k, action).action # "accept"
      BY DEF Step
    <3>2. \A i \in DOMAIN trace : trace[i].action # "accept"
      BY <2>1 DEF AcceptEndsTrace
    <3>3. \A i \in DOMAIN trace' : trace'[i].action # "accept"
      BY <1>0, <2>3, <3>1, <3>2, Grown
    <3> QED BY <2>1, <3>3 DEF AcceptEndsTrace, Tiers
  <2> QED BY <2>1, <2>2, <2>3
<1>10. ASSUME NEW k \in Tiers, trace' = Append(trace, Step(k, "accept")),
              res'.solved, res'.acceptedAt = k, pc' = "finish",
              \A i \in DOMAIN trace : trace[i].action # "accept"
       PROVE  AcceptEndsTrace'
  <2>1. \A i \in DOMAIN trace' : trace'[i].action = "accept" => i = Len(trace')
    BY <1>0, <1>10, Grown
  <2>2. trace' # <<>> /\ trace'[Len(trace')] = Step(k, "accept")
    BY <1>0, <1>10, Grown
  <2> QED BY <1>10, <2>1, <2>2 DEF AcceptEndsTrace
<1>11. CASE AcceptTier
  <2>1. /\ pc = "accept" /\ pc' = "finish" /\ res'.solved /\ res'.acceptedAt = tier
        /\ trace' = Append(trace, Step(tier, "accept"))
    BY <1>11 DEF AcceptTier, Accepted
  <2>2. tier \in Tiers
    BY <2>1 DEF IInv, TierInRange
  <2>3. \A i \in DOMAIN trace : trace[i].action # "accept"
    BY <2>1 DEF AcceptEndsTrace
  <2> QED BY <1>10, <2>1, <2>2, <2>3
<1>12. CASE AcceptSpeculative
  <2>1. PICK k \in Tiers :
          res'.solved /\ res'.acceptedAt = k /\ trace' = Append(trace, Step(k, "accept"))
    BY <1>12, SpeculativeAccepts
  <2>2. pc = "holdout" /\ pc' = "finish"
    BY <1>12 DEF AcceptSpeculative
  <2>3. \A i \in DOMAIN trace : trace[i].action # "accept"
    BY <2>2 DEF AcceptEndsTrace
  <2> QED BY <1>10, <2>1, <2>2, <2>3
<1>13. CASE SampleTimesOut
  BY <1>13, TimesOutIs DEF AcceptEndsTrace
<1> QED BY StepIs, <1>13, <1>2, <1>3, <1>4, <1>5, <1>6, <1>7, <1>8, <1>9, <1>11, <1>12

LEMMA RecordKeeps ==
  ASSUME IInv, RecordIsRight, [Next]_vars
  PROVE  RecordIsRight'
<1> USE DEF disk, job, work, history
<1>1. ASSUME pc # "done", observed' = observed
      PROVE  RecordIsRight'
  BY <1>1 DEF RecordIsRight, NoRecord
<1>2. CASE StartSolve
  BY <1>2 DEF StartSolve, RecordIsRight, NoRecord
<1>3. CASE pc \notin Resting /\ \E why : Fail(why)
  BY <1>1, <1>3 DEF Fail, Resting
<1>4. CASE Finish
  BY <1>4 DEF Finish, RecordIsRight, Record, Observations
<1>5. CASE ReuseSpec \/ GenerateSpec \/ CacheHit \/ CacheMiss \/ FinishUnsolved \/ EnterSequential
  <2>1. pc # "done" /\ observed' = observed
    BY <1>5 DEF ReuseSpec, GenerateSpec, CacheHit, CacheMiss, FinishUnsolved, EnterSequential
  <2> QED BY <1>1, <2>1
<1>6. CASE TierOpens \/ SampleTier \/ RouteRefuted \/ RepairRound \/ RepairGivesUp \/ RouteBelow
           \/ RouteAbove \/ AcceptTier \/ RejectTier
  <2>1. pc # "done" /\ observed' = observed
    BY <1>6 DEF TierOpens, SampleTier, RouteRefuted, RepairRound, RepairGivesUp, RouteBelow,
       RouteAbove, AcceptTier, RejectTier
  <2> QED BY <1>1, <2>1
<1>7. CASE EnterSpeculative \/ OutcomeComes \/ Collect \/ AcceptSpeculative \/ RejectSpeculative
           \/ NoneSurvived
  <2>1. pc # "done" /\ observed' = observed
    BY <1>7 DEF EnterSpeculative, OutcomeComes, Collect, AcceptSpeculative, RejectSpeculative,
       NoneSurvived
  <2> QED BY <1>1, <2>1
<1>8. CASE ContextDone
  BY <1>1, <1>8 DEF ContextDone, Resting
<1>9. CASE UNCHANGED vars
  BY <1>9 DEF vars, RecordIsRight, Record, Observations, NoRecord
<1>10. CASE SampleTimesOut
  BY <1>10, TimesOutIs DEF RecordIsRight, NoRecord, Resting
<1> QED BY StepIs, <1>10, <1>2, <1>3, <1>4, <1>5, <1>6, <1>7, <1>8, <1>9

LEMMA RecordInvariance == Spec => [](AcceptEndsTrace /\ RecordIsRight)
<1>1. ASSUME Init
      PROVE  AcceptEndsTrace /\ RecordIsRight
  <2>1. res = NoResult /\ trace = <<>> /\ observed = NoRecord
    BY <1>1 DEF Init
  <2>2. res.acceptedAt = -1
    BY <2>1 DEF NoResult, Nowhere
  <2> QED BY <2>1, <2>2 DEF AcceptEndsTrace, RecordIsRight, Tiers
<1>2. IInv /\ AcceptEndsTrace /\ RecordIsRight /\ [Next]_vars => (AcceptEndsTrace /\ RecordIsRight)'
  BY AcceptEndsKeeps, RecordKeeps
<1> QED BY <1>1, <1>2, Invariance, PTL DEF Spec

\* A calibration record calls correct exactly the tier whose answer was accepted, and
\* it is the last observation of the record.
THEOREM RecordIsTrue == Spec => []RecordCallsTheAcceptedTierCorrect
<1>1. ASSUME IInv, AcceptEndsTrace, RecordIsRight, observed # NoRecord, ~observed.cacheHit
      PROVE  \A i \in DOMAIN observed.tiers :
               observed.tiers[i].correct <=> /\ \A j \in DOMAIN observed.tiers : j <= i
                                             /\ observed.tiers[i].tier = res.acceptedAt
  <2>0. trace \in Seq(Steps) /\ Len(trace) \in Nat
    BY <1>1 DEF IInv, TypeOK, ResultTyped
  <2>1. res.solved /\ observed = Record /\ res.acceptedAt # CacheArm
    <3>1. res.solved /\ observed = Record
      BY <1>1 DEF RecordIsRight
    <3>2. Record.cacheHit = (res.acceptedAt = CacheArm)
      BY Zenon DEF Record
    <3> QED BY <1>1, <3>1, <3>2, Zenon
  <2>2. res.acceptedAt \in Tiers
    <3>1. res.acceptedAt \in Arms /\ res.acceptedAt # Nowhere
      BY <1>1, <2>1 DEF IInv, AnswerIsWhole, TypeOK, ResultTyped, Results
    <3> QED BY <2>1, <3>1 DEF Arms
  <2>3. /\ trace # <<>> /\ trace[Len(trace)].action = "accept"
        /\ trace[Len(trace)].tier = res.acceptedAt
    BY <1>1, <2>2 DEF AcceptEndsTrace, Step
  <2>4. Len(trace) \in DOMAIN trace
    BY <2>0, <2>3
  <2>5. Len(trace) \in Observations
    BY <2>1, <2>3, <2>4 DEF Observations
  <2>6. DOMAIN observed.tiers = Observations
    BY <2>1 DEF Record
  <2>7. ASSUME NEW i \in Observations
        PROVE  /\ observed.tiers[i].correct <=> trace[i].action = "accept"
               /\ observed.tiers[i].tier = trace[i].tier
               /\ i \in DOMAIN trace /\ i \in 1..Len(trace)
    <3>1. observed.tiers[i] =
            [tier |-> trace[i].tier, correct |-> trace[i].action = "accept" /\ res.solved]
      BY <2>1 DEF Record
    <3>2. i \in DOMAIN trace
      BY DEF Observations
    <3>3. i \in 1..Len(trace)
      BY <2>0, <3>2
    <3>4. observed.tiers[i].correct = (trace[i].action = "accept" /\ res.solved)
      BY <3>1
    <3>5. observed.tiers[i].tier = trace[i].tier
      BY <3>1
    <3> QED BY <2>1, <3>2, <3>3, <3>4, <3>5, Zenon
  <2> SUFFICES ASSUME NEW i \in Observations
               PROVE  observed.tiers[i].correct <=>
                        /\ \A j \in Observations : j <= i
                        /\ observed.tiers[i].tier = res.acceptedAt
    BY <2>6
  <2>8. trace[i].action = "accept" <=> i = Len(trace)
    BY <1>1, <2>3, <2>7 DEF AcceptEndsTrace
  <2>9. i = Len(trace) <=> \A j \in Observations : j <= i
    <3>1. ASSUME \A j \in Observations : j <= i
          PROVE  i = Len(trace)
      BY <2>0, <2>5, <2>7, <3>1
    <3>2. ASSUME i = Len(trace), NEW j \in Observations
          PROVE  j <= i
      BY <2>0, <2>7, <3>2
    <3> QED BY <3>1, <3>2
  <2> QED BY <2>3, <2>7, <2>8, <2>9
<1>2. IInv /\ AcceptEndsTrace /\ RecordIsRight => RecordCallsTheAcceptedTierCorrect
  BY <1>1 DEF RecordCallsTheAcceptedTierCorrect
<1> QED BY <1>2, Invariance, RecordInvariance, PTL

-----------------------------------------------------------------------------
(* The way up the tiers.                                                    *)

LEMMA TraceTyped ==
  ASSUME TypeOK
  PROVE  /\ trace \in Seq(Steps)
         /\ \A i \in DOMAIN trace : trace[i].tier \in Tiers /\ trace[i].tier \in Int
<1>1. trace \in Seq(Steps)
  BY DEF TypeOK, ResultTyped
<1>2. ASSUME NEW i \in DOMAIN trace
      PROVE  trace[i].tier \in Tiers /\ trace[i].tier \in Int
  <2>1. trace[i] \in Steps
    BY <1>1
  <2>2. trace[i].tier \in Tiers
    BY <2>1 DEF Steps
  <2> QED BY <2>2, TiersAssumption DEF Tiers
<1> QED BY <1>1, <1>2

\* The cascade leaves a tier with a step of it at the end of the trace.
LEMMA ClimbsOn ==
  ASSUME IInv, TiersInTurn, TraceClimbs, pc \in AtATier, NextTier, res' = res,
         NEW action \in {"escalate", "reject"},
         trace' = Append(trace, Step(tier, action)),
         consulted' = IF action = "reject" THEN [consulted EXCEPT ![tier] = @ + 1] ELSE consulted
  PROVE  TraceClimbs'
<1>a. /\ tier \in Tiers /\ tier \in Nat /\ NTiers \in Tiers /\ NTiers \in Nat
      /\ \A k \in Tiers : k \in 1..NTiers
  BY LeavesTier, TiersAssumption DEF Tiers
<1>0. /\ trace \in Seq(Steps) /\ \A i \in DOMAIN trace : trace[i].tier \in Int
      /\ tier \in Tiers /\ tier \in Nat /\ NTiers \in Tiers /\ NTiers \in Nat
      /\ \A k \in Tiers : k \in 1..NTiers
      /\ consulted \in [Tiers -> Nat]
  BY <1>a, TraceTyped DEF IInv, TypeOK, HistoryTyped
<1>1. /\ \A i \in DOMAIN trace : trace[i].tier <= tier
      /\ \A k \in Tiers : k < tier => \E i \in DOMAIN trace : trace[i].tier = k
  BY DEF TraceClimbs
<1>2. Step(tier, action).tier = tier /\ Step(tier, action).action = action
  BY DEF Step
<1>3. \A i \in DOMAIN trace' : trace'[i].tier <= tier
  BY <1>0, <1>1, <1>2, Grown
<1>4. \A k \in Tiers : k <= tier => \E i \in DOMAIN trace' : trace'[i].tier = k
  <2> SUFFICES ASSUME NEW k \in Tiers, k <= tier
               PROVE  \E i \in DOMAIN trace' : trace'[i].tier = k
    OBVIOUS
  <2>1. CASE k = tier
    BY <1>0, <1>2, <2>1, Grown
  <2>2. CASE k # tier
    <3>0. k < tier
      BY <1>a, <2>2
    <3>1. PICK i \in DOMAIN trace : trace[i].tier = k
      BY <1>1, <3>0
    <3>2. i \in DOMAIN trace' /\ trace'[i] = trace[i]
      BY <1>0, <3>1, Grown
    <3> QED BY <3>1, <3>2
  <2> QED BY <2>1, <2>2
<1>5. trace'[Len(trace')].action = action
  BY <1>0, <1>2, Grown
<1>6. CASE pc' = "tier" /\ tier < NTiers /\ tier' = tier + 1
  <2>1. \A i \in DOMAIN trace' : trace'[i].tier < tier'
    <3>1. \A i \in DOMAIN trace' : trace'[i].tier \in Int
      BY <1>0, <1>2, Grown
    <3> QED BY <1>0, <1>3, <1>6, <3>1
  <2>2. \A i \in DOMAIN trace' : trace'[i].tier <= tier'
    <3>1. \A i \in DOMAIN trace' : trace'[i].tier \in Int
      BY <1>0, <1>2, Grown
    <3> QED BY <1>0, <1>3, <1>6, <3>1
  <2>3. \A k \in Tiers : k < tier' => \E i \in DOMAIN trace' : trace'[i].tier = k
    BY <1>0, <1>4, <1>6
  <2> QED BY <1>6, <2>1, <2>2, <2>3 DEF TraceClimbs, Early
<1>7. CASE pc' = "finish" /\ tier = NTiers
  <2>1. \A k \in Tiers : \E i \in DOMAIN trace' : trace'[i].tier = k
    BY <1>0, <1>4, <1>7
  <2>2. consulted[NTiers] = 0
    BY <1>0, <1>7 DEF TiersInTurn
  <2>3. action = "reject" <=> consulted'[NTiers] = 1
    BY <1>0, <1>7, <2>2
  <2>4. res'.err = ""
    BY DEF IInv, NoAnswerYet, AtATier
  <2> QED BY <1>5, <1>7, <2>1, <2>3, <2>4 DEF TraceClimbs, Early, AtATier
<1> QED BY <1>6, <1>7, LeavesTier

LEMMA ClimbKeeps ==
  ASSUME IInv, TiersInTurn, TopologyFits, TraceClimbs, [Next]_vars
  PROVE  TraceClimbs'
<1> USE DEF disk, job, work, history
<1>0. /\ trace \in Seq(Steps) /\ \A i \in DOMAIN trace : trace[i].tier \in Int
      /\ \A k \in Tiers : k \in 1..NTiers /\ k \in Int
  BY TraceTyped, TiersAssumption DEF IInv, Tiers
<1>1. ASSUME pc' \in {"failed", "holdout"} \/ (pc' \in {"finish", "done"} /\ res'.solved)
      PROVE  TraceClimbs'
  BY <1>1 DEF TraceClimbs, Early, AtATier
<1>2. CASE (\E why : Fail(why)) \/ CacheHit \/ Finish \/ AcceptTier \/ Collect
  <2>1. CASE CacheHit
    <3>1. pc' = "finish" /\ res'.solved
      BY <2>1 DEF CacheHit, IInv, TypeOK, ResultTyped, Results
    <3> QED BY <1>1, <3>1
  <2>2. CASE (\E why : Fail(why)) \/ Collect
    BY <1>1, <2>2 DEF Fail, Collect
  <2>3. CASE Finish
    <3>1. pc' = "done" /\ res'.solved
      BY <2>3 DEF Finish
    <3> QED BY <1>1, <3>1
  <2>4. CASE AcceptTier
    <3>1. pc' = "finish" /\ res'.solved
      BY <2>4 DEF AcceptTier, Accepted
    <3> QED BY <1>1, <3>1
  <2> QED BY <1>2, <2>1, <2>2, <2>3, <2>4
<1>3. CASE AcceptSpeculative
  <2>1. pc' = "finish" /\ res'.solved
    BY <1>3, SpeculativeAccepts DEF AcceptSpeculative
  <2> QED BY <1>1, <2>1
<1>4. CASE RejectSpeculative
  <2>1. pc' = "holdout"
    BY <1>4 DEF RejectSpeculative
  <2> QED BY <1>1, <2>1
<1>5. ASSUME pc' \in Early \cup {"fanout"}, trace' = <<>>
      PROVE  TraceClimbs'
  BY <1>5 DEF TraceClimbs, Early, AtATier
<1>6. CASE StartSolve \/ ReuseSpec \/ GenerateSpec \/ CacheMiss \/ EnterSpeculative \/ OutcomeComes
  <2>1. CASE StartSolve
    BY <1>5, <2>1 DEF StartSolve, Early
  <2>2. CASE ReuseSpec \/ GenerateSpec \/ CacheMiss \/ EnterSpeculative \/ OutcomeComes
    <3>1. pc \in Early \cup {"fanout"} /\ pc' \in Early \cup {"fanout"} /\ trace' = trace
      BY <2>2 DEF ReuseSpec, GenerateSpec, CacheMiss, EnterSpeculative, OutcomeComes, AfterSpec,
         Early
    <3> QED BY <1>5, <3>1 DEF TraceClimbs
  <2> QED BY <1>6, <2>1, <2>2
<1>7. CASE EnterSequential
  <2>1. pc' = "tier" /\ tier' = 1 /\ trace' = <<>>
    BY <1>7 DEF EnterSequential, TiersInTurn, TraceClimbs, Early
  <2>2. \A k \in Tiers : ~(k < tier')
    BY <1>0, <2>1
  <2>3. \A i \in DOMAIN trace' : FALSE
    BY <2>1
  <2> QED BY <2>1, <2>2, <2>3 DEF TraceClimbs, Early
<1>8. ASSUME pc \in AtATier, pc' \in AtATier, UNCHANGED <<tier, trace>>,
             pc' \in {"tier", "sample"} => pc \in {"tier", "sample"}
      PROVE  TraceClimbs'
  BY <1>8 DEF TraceClimbs, Early, AtATier
<1>9. CASE TierOpens \/ SampleTier \/ RouteAbove
  BY <1>8, <1>9 DEF TierOpens, SampleTier, RouteAbove, AtATier
<1>10. CASE RouteRefuted
  <2>1. CASE pc' = "repair" /\ UNCHANGED <<tier, trace>>
    BY <1>8, <1>10, <2>1 DEF RouteRefuted, AtATier
  <2>2. CASE NextTier /\ trace' = Append(trace, Step(tier, "escalate"))
    BY <1>10, <2>2, ClimbsOn DEF RouteRefuted, AtATier
  <2> QED BY <1>10, <2>1, <2>2 DEF RouteRefuted
<1>11. CASE RepairGivesUp \/ RouteBelow
  <2>1. /\ pc \in AtATier /\ NextTier /\ consulted' = consulted /\ res' = res
        /\ trace' = Append(trace, Step(tier, "escalate"))
    BY <1>11 DEF RepairGivesUp, RouteBelow, AtATier
  <2> QED BY <2>1, ClimbsOn
<1>12. CASE RejectTier
  <2>1. /\ pc \in AtATier /\ NextTier /\ consulted' = [consulted EXCEPT ![tier] = @ + 1]
        /\ res' = res /\ trace' = Append(trace, Step(tier, "reject"))
    BY <1>12 DEF RejectTier, AtATier
  <2> QED BY <2>1, ClimbsOn
<1>13. CASE RepairRound
  <2>1. PICK action \in {"repair", "escalate"} :
          /\ trace' = Append(trace, Step(tier, action))
          /\ pc' \in {"route", "repair"} /\ tier' = tier /\ pc = "repair" /\ tier \in Tiers
    BY <1>13 DEF RepairRound, IInv, TierInRange
  <2>2. Step(tier, action).tier = tier /\ tier \in Int
    BY <1>0, <2>1 DEF Step
  <2>3. \A i \in DOMAIN trace : trace[i].tier <= tier
    BY <2>1 DEF TraceClimbs, AtATier
  <2>4. \A i \in DOMAIN trace' : trace'[i].tier <= tier
    BY <1>0, <2>1, <2>2, <2>3, Grown
  <2>5. \A k \in Tiers : k < tier => \E i \in DOMAIN trace' : trace'[i].tier = k
    <3> SUFFICES ASSUME NEW k \in Tiers, k < tier
                 PROVE  \E i \in DOMAIN trace' : trace'[i].tier = k
      OBVIOUS
    <3>1. PICK i \in DOMAIN trace : trace[i].tier = k
      BY <2>1 DEF TraceClimbs, AtATier
    <3> QED BY <1>0, <2>1, <3>1, Grown
  <2> QED BY <2>1, <2>4, <2>5 DEF TraceClimbs, Early
<1>14. CASE NoneSurvived
  <2>1. pc' = "finish" /\ conf' = conf /\ conf.deadline
    BY <1>14 DEF NoneSurvived, TopologyFits
  <2> QED BY <2>1 DEF TraceClimbs, Early, AtATier
<1>15. CASE FinishUnsolved
  <2>1. /\ pc = "finish" /\ pc' = "done" /\ UNCHANGED <<res, conf, consulted, trace>>
        /\ Tried' = Tried
    BY <1>15 DEF FinishUnsolved, Tried
  <2> QED BY <2>1 DEF TraceClimbs, Early, AtATier
<1>16. CASE ContextDone \/ UNCHANGED vars
  <2>1. UNCHANGED <<pc, res, conf, consulted, trace, tier>> /\ Tried' = Tried
    BY <1>16 DEF ContextDone, vars, Tried
  <2> QED BY <2>1 DEF TraceClimbs, Early, AtATier
<1>17. CASE SampleTimesOut
  <2>1. tier \in Tiers /\ tier \in 1..NTiers /\ ~conf'.deadline
    BY <1>0, <1>17, TimesOutIs DEF IInv, TierInRange, TopologyFits, AtATier
  <2>2. Tried = 1..(tier - 1)
    <3>1. /\ \A i \in DOMAIN trace : trace[i].tier < tier /\ trace[i].tier \in 1..NTiers
          /\ \A k \in Tiers : k < tier => \E i \in DOMAIN trace : trace[i].tier = k
      BY <1>0, <1>17, TimesOutIs, TraceTyped DEF TraceClimbs, AtATier, IInv
    <3>2. \A k \in 1..(tier - 1) : k \in Tiers /\ k < tier
      BY <2>1, TiersAssumption DEF Tiers
    <3>3. ASSUME NEW k \in Tried
          PROVE  k \in 1..(tier - 1)
      BY <2>1, <3>1, TiersAssumption DEF Tried
    <3>4. ASSUME NEW k \in 1..(tier - 1)
          PROVE  k \in Tried
      BY <3>1, <3>2 DEF Tried
    <3> QED BY <3>3, <3>4
  <2>3. \A j \in Tiers : j >= tier => consulted[j] = 0
    BY <1>17, TimesOutIs DEF TiersInTurn, AtATier
  <2>4. Tried' = 1..(tier - 1)
    BY <1>17, <2>2, TimesOutIs DEF Tried
  <2>5. /\ pc' = "finish" /\ res'.err = "late" /\ consulted' = consulted
    BY <1>17, TimesOutIs
  <2> QED BY <2>1, <2>3, <2>4, <2>5 DEF TraceClimbs, Early, AtATier
<1> QED BY StepIs, <1>17, <1>2, <1>3, <1>4, <1>6, <1>7, <1>9, <1>10, <1>11, <1>12, <1>13, <1>14,
           <1>15, <1>16

LEMMA ClimbInvariance == Spec => []TraceClimbs
<1>1. Init => TraceClimbs
  BY DEF Init, TraceClimbs, Early, AtATier
<1>2. IInv /\ HoldoutInv /\ TraceClimbs /\ [Next]_vars => TraceClimbs'
  BY ClimbKeeps DEF HoldoutInv
<1> QED BY <1>1, <1>2, Invariance, HoldoutInvariance, PTL DEF Spec

\* A sequential solve comes back empty and without an error only after every tier was
\* tried, and its last step is then a refusal of the holdout exactly when the last tier
\* had something to offer; or because a call ran out of time, and then it tried the
\* cheapest tiers, not all, and the holdout decided about nothing above them.
THEOREM EmptyIsAccountedFor == Spec => []EmptyIsExhaustedOrLate
<1>1. ASSUME IInv, TraceClimbs
      PROVE  EmptyIsExhaustedOrLate
  <2>1. (\A k \in Tiers : \E i \in DOMAIN trace : trace[i].tier = k) => Tried = Tiers
    BY <1>1, TraceTyped DEF Tried, IInv
  <2> QED BY <1>1, <2>1 DEF TraceClimbs, EmptyIsExhaustedOrLate
<1>2. IInv /\ TraceClimbs => EmptyIsExhaustedOrLate
  BY <1>1
<1> QED BY <1>2, Invariance, ClimbInvariance, PTL

-----------------------------------------------------------------------------
(* The repairs.                                                             *)

LEMMA NoRepairKeeps ==
  ASSUME IInv, TopologyFits, NoRepairUnderDeadline, [Next]_vars
  PROVE  NoRepairUnderDeadline'
<1> USE DEF disk, job, work, history
<1>0. trace \in Seq(Steps)
  BY DEF IInv, TypeOK, ResultTyped
<1>1. CASE StartSolve
  BY <1>1 DEF StartSolve, NoRepairUnderDeadline
<1>2. ASSUME conf' = conf, trace' = trace
      PROVE  NoRepairUnderDeadline'
  BY <1>2 DEF NoRepairUnderDeadline
<1>3. ASSUME conf' = conf, pc \in AtATier
      PROVE  NoRepairUnderDeadline'
  BY <1>3 DEF NoRepairUnderDeadline, TopologyFits
<1>4. ASSUME conf' = conf, NEW k, NEW action \in {"reject", "accept"},
             trace' = Append(trace, Step(k, action))
      PROVE  NoRepairUnderDeadline'
  <2>1. Step(k, action).action # "repair"
    BY DEF Step
  <2> QED BY <1>0, <1>4, <2>1, Grown DEF NoRepairUnderDeadline
<1>5. CASE RouteRefuted \/ RepairRound \/ RepairGivesUp \/ RouteBelow \/ RejectTier \/ AcceptTier
  <2>1. conf' = conf /\ pc \in AtATier
    BY <1>5 DEF RouteRefuted, RepairRound, RepairGivesUp, RouteBelow, RejectTier, AcceptTier,
       AtATier
  <2> QED BY <1>3, <2>1
<1>6. CASE AcceptSpeculative
  <2>1. PICK k \in Tiers : trace' = Append(trace, Step(k, "accept"))
    BY <1>6, SpeculativeAccepts
  <2> QED BY <1>4, <1>6, <2>1 DEF AcceptSpeculative
<1>7. CASE RejectSpeculative
  <2>1. PICK k \in Tiers : trace' = Append(trace, Step(k, "reject"))
    BY <1>7 DEF RejectSpeculative
  <2> QED BY <1>4, <1>7, <2>1 DEF RejectSpeculative
<1>8. CASE ContextDone \/ (\E why : Fail(why)) \/ ReuseSpec \/ GenerateSpec \/ CacheHit
           \/ CacheMiss \/ FinishUnsolved \/ Finish
  <2>1. conf' = conf
    BY <1>8 DEF ContextDone, Fail, ReuseSpec, GenerateSpec, CacheHit, CacheMiss, FinishUnsolved,
       Finish
  <2> QED BY <1>2, <1>8, <2>1, TraceStays
<1>9. CASE EnterSequential \/ TierOpens \/ SampleTier \/ RouteAbove \/ EnterSpeculative
           \/ OutcomeComes \/ Collect \/ NoneSurvived \/ UNCHANGED vars
  <2>1. conf' = conf
    BY <1>9 DEF EnterSequential, TierOpens, SampleTier, RouteAbove, EnterSpeculative,
       OutcomeComes, Collect, NoneSurvived, vars
  <2> QED BY <1>2, <1>9, <2>1, TraceStays
<1>10. CASE SampleTimesOut
  BY <1>10, TimesOutIs DEF NoRepairUnderDeadline
<1> QED BY StepIs, <1>10, <1>1, <1>5, <1>6, <1>7, <1>8, <1>9

\* Where no threshold is the certificate's, one half is the least of them.
LEMMA PriorThreshold ==
  ASSUME ~Calibrated, NEW k
  PROVE  Threshold(k) \in {50, 60}
BY DEF Threshold

LEMMA RepairsKeep ==
  ASSUME IInv, TopologyFits, TraceClimbs, RepairsPayLate, NoRepairUnderDeadline, [Next]_vars
  PROVE  RepairsPayLate'
<1> USE DEF disk, job, work, history, Early, AtATier
<1>0. /\ trace \in Seq(Steps) /\ \A i \in DOMAIN trace : trace[i].tier \in Tiers
      /\ \A k \in Tiers : k \in Int
  BY TraceTyped, TiersAssumption DEF IInv, Tiers
<1>1. \A i \in DOMAIN trace' : trace'[i].tier \in Tiers
  <2>1. trace' \in Seq(Steps)
    BY NextKeeps DEF IInv, TypeOK, ResultTyped
  <2>2. \A i \in DOMAIN trace' : trace'[i] \in Steps
    BY <2>1
  <2> QED BY <2>2 DEF Steps
<1>2. ASSUME pc' \notin {"route", "repair", "accept"},
             \/ res'.acceptedAt \notin Tiers
             \/ /\ res'.acceptedAt = res.acceptedAt
                /\ UNCHANGED <<conf, trace>>
      PROVE  RepairsPayLate'
  BY <1>1, <1>2 DEF RepairsPayLate, UncalibratedRepairPaysOnlyAtTheLastTier, Calibrated
<1>3. CASE StartSolve
  <2>1. pc' = "spec" /\ res'.acceptedAt = -1
    BY <1>3 DEF StartSolve, NoResult, Nowhere
  <2> QED BY <1>2, <2>1 DEF Tiers
<1>4. CASE \E why : Fail(why)
  <2>1. pc' = "failed" /\ UNCHANGED <<conf, trace>> /\ res'.acceptedAt = res.acceptedAt
    BY <1>4 DEF Fail, IInv, TypeOK, ResultTyped, Results
  <2> QED BY <1>2, <2>1
<1>5. CASE CacheHit
  <2>1. pc' = "finish" /\ res'.acceptedAt = 0
    BY <1>5 DEF CacheHit, IInv, TypeOK, ResultTyped, Results, CacheArm
  <2> QED BY <1>2, <2>1 DEF Tiers
<1>6. CASE ReuseSpec \/ GenerateSpec \/ CacheMiss \/ FinishUnsolved \/ Finish \/ EnterSequential
           \/ EnterSpeculative
  <2>1. pc' \notin {"route", "repair", "accept"} /\ UNCHANGED <<conf, trace, res>>
    BY <1>6 DEF ReuseSpec, GenerateSpec, CacheMiss, FinishUnsolved, Finish, EnterSequential,
       EnterSpeculative, AfterSpec
  <2> QED BY <1>2, <2>1
<1>7. CASE TierOpens \/ OutcomeComes \/ Collect \/ NoneSurvived
  <2>1. pc' \notin {"route", "repair", "accept"} /\ UNCHANGED <<conf, trace, res>>
    BY <1>7 DEF TierOpens, OutcomeComes, Collect, NoneSurvived
  <2> QED BY <1>2, <2>1
<1>8. CASE RepairGivesUp \/ RouteBelow \/ RejectTier \/ RejectSpeculative
  <2>1. /\ pc' \notin {"route", "repair", "accept"}
        /\ res' = res /\ pc \in AtATier \cup {"holdout"}
    BY <1>8 DEF RepairGivesUp, RouteBelow, RejectTier, RejectSpeculative, NextTier
  <2>2. res.acceptedAt = -1
    BY <2>1 DEF IInv, NoAnswerYet, Nowhere
  <2> QED BY <1>2, <2>1, <2>2 DEF Tiers
<1>9. CASE ContextDone \/ UNCHANGED vars
  <2>1. UNCHANGED <<pc, conf, trace, res, cands, tier>>
    BY <1>9 DEF ContextDone, vars
  <2> QED BY <2>1 DEF RepairsPayLate, UncalibratedRepairPaysOnlyAtTheLastTier, Calibrated,
                      Repaired, Last
\* The steps within a tier: there is no answer yet.
<1>10. ASSUME res' = res, pc \in AtATier,
              pc' = "repair" => \A i \in DOMAIN cands' : ~cands'[i].report.ok,
              pc' = "route" => (Repaired(tier)' => Score(cands') < 50),
              pc' = "accept" => (Repaired(tier)' /\ ~Calibrated' => Last(tier)')
       PROVE  RepairsPayLate'
  <2>1. res'.acceptedAt = -1
    BY <1>10 DEF IInv, NoAnswerYet, Nowhere
  <2> QED BY <1>1, <1>10, <2>1 DEF RepairsPayLate, UncalibratedRepairPaysOnlyAtTheLastTier, Tiers
<1>11. CASE SampleTier
  <2>1. /\ pc = "sample" /\ pc' = "route" /\ UNCHANGED <<res, trace, tier>>
    BY <1>11 DEF SampleTier
  <2>2. tier \in Tiers /\ \A i \in DOMAIN trace : trace[i].tier < tier
    BY <2>1 DEF TraceClimbs, IInv, TierInRange
  <2>3. \A i \in DOMAIN trace : trace[i] # Step(tier, "repair")
    BY <1>0, <2>2 DEF Step
  <2>4. ~Repaired(tier)'
    BY <2>1, <2>3 DEF Repaired
  <2> QED BY <1>10, <2>1, <2>4
<1>12. CASE RouteRefuted
  <2>1. /\ res' = res /\ pc = "route" /\ Winners(cands) = {}
        /\ (pc' = "repair" /\ cands' = cands) \/ pc' \in {"tier", "finish"}
    BY <1>12 DEF RouteRefuted, NextTier
  <2>2. \A i \in DOMAIN cands : ~cands[i].report.ok
    BY <2>1, SurvivorWins DEF IInv, TypeOK, WorkTyped
  <2> QED BY <1>10, <2>1, <2>2
<1>13. CASE RepairRound
  <2>1. /\ res' = res /\ pc = "repair" /\ cands \in Seq(Candidate) /\ cands # <<>>
        /\ \A i \in DOMAIN cands : ~cands[i].report.ok
    BY <1>13 DEF RepairRound, RepairsPayLate, IInv, TypeOK, WorkTyped, FanOutInHand
  <2>2. PICK d \in Sampled :
          IF d.report.ok
          THEN cands' = Append(cands, d) /\ pc' = "route"
          ELSE UNCHANGED <<pc, cands>>
    BY <1>13 DEF RepairRound
  <2>3. CASE cands' = Append(cands, d) /\ pc' = "route"
    <3>1. d \in Candidate
      BY SampledEarned DEF IInv
    <3>2. Score(Append(cands, d)) \in 0..49
      BY <2>1, <3>1, LoneSurvivor
    <3>3. Score(Append(cands, d)) < 50
      BY <3>2
    <3>4. Score(cands') < 50
      BY <2>3, <3>3, Zenon
    <3> QED BY <1>10, <2>1, <2>3, <3>4
  <2>4. CASE UNCHANGED <<pc, cands>>
    BY <1>10, <2>1, <2>4
  <2> QED BY <2>2, <2>3, <2>4
<1>14. CASE RouteAbove
  <2>1. /\ pc = "route" /\ pc' = "accept" /\ UNCHANGED <<res, conf, trace, tier>>
        /\ Last(tier) \/ ~(Score(cands) < Threshold(tier))
    BY <1>14 DEF RouteAbove, BelowThreshold
  <2>2. ASSUME Repaired(tier), ~Calibrated
        PROVE  Last(tier)
    <3>1. Score(cands) < 50 /\ Score(cands) \in 0..100
      BY <2>1, <2>2, ScoreIsPercentage DEF RepairsPayLate
    <3>2. Threshold(tier) \in {50, 60}
      BY <2>2, PriorThreshold
    <3>3. Score(cands) < Threshold(tier)
      BY <3>1, <3>2
    <3> QED BY <2>1, <3>3
  <2>3. Repaired(tier)' /\ ~Calibrated' => Last(tier)'
    BY <2>1, <2>2 DEF Repaired, Calibrated, Last
  <2> QED BY <1>10, <2>1, <2>3
<1>15. ASSUME NEW k \in Tiers, pc' = "finish", conf' = conf, res'.acceptedAt = k,
              trace' = Append(trace, Step(k, "accept")),
              Repaired(k) /\ ~Calibrated => k = NTiers
       PROVE  RepairsPayLate'
  <2> SUFFICES ASSUME NEW i \in DOMAIN trace', trace'[i].action = "repair", ~Calibrated',
                      trace'[i].tier = k
               PROVE  k = NTiers
    BY <1>15 DEF RepairsPayLate, UncalibratedRepairPaysOnlyAtTheLastTier
  <2>1. Step(k, "accept").action # "repair"
    BY DEF Step
  <2>2. i \in DOMAIN trace /\ trace[i] = trace'[i]
    BY <1>0, <1>15, <2>1, Grown
  <2>3. trace[i] \in Steps
    BY <1>0, <2>2
  <2>4. trace[i] = Step(k, "repair")
    BY <2>2, <2>3 DEF Step, Steps
  <2>5. Repaired(k)
    BY <2>2, <2>4 DEF Repaired
  <2>6. ~Calibrated
    BY <1>15 DEF Calibrated
  <2> QED BY <1>15, <2>5, <2>6
<1>16. CASE AcceptTier
  <2>1. /\ pc = "accept" /\ pc' = "finish" /\ conf' = conf /\ res'.acceptedAt = tier
        /\ trace' = Append(trace, Step(tier, "accept"))
    BY <1>16 DEF AcceptTier, Accepted
  <2>2. tier \in Tiers
    BY <2>1 DEF IInv, TierInRange
  <2>3. Repaired(tier) /\ ~Calibrated => tier = NTiers
    BY <2>1 DEF RepairsPayLate, Last
  <2> QED BY <1>15, <2>1, <2>2, <2>3
<1>17. CASE AcceptSpeculative
  <2>1. PICK k \in Tiers : res'.acceptedAt = k /\ trace' = Append(trace, Step(k, "accept"))
    BY <1>17, SpeculativeAccepts
  <2>2. pc' = "finish" /\ conf' = conf /\ conf.deadline
    BY <1>17 DEF AcceptSpeculative, TopologyFits
  <2>3. \A i \in DOMAIN trace : trace[i].action # "repair"
    BY <2>2 DEF NoRepairUnderDeadline
  <2>4. ~Repaired(k)
    BY <2>3 DEF Repaired, Step
  <2> QED BY <1>15, <2>1, <2>2, <2>4
<1>18. CASE SampleTimesOut
  <2>1. pc' = "finish" /\ res'.acceptedAt = -1 /\ trace' = trace
    BY <1>18, TimesOutIs DEF Nowhere
  <2>2. \A i \in DOMAIN trace : trace[i].tier # -1
    BY <1>18, TraceTyped, TiersAssumption DEF IInv, Tiers
  <2> QED BY <2>1, <2>2 DEF RepairsPayLate, UncalibratedRepairPaysOnlyAtTheLastTier
<1> QED BY StepIs, <1>18, <1>3, <1>4, <1>5, <1>6, <1>7, <1>8, <1>9, <1>11, <1>12, <1>13, <1>14,
           <1>16, <1>17

LEMMA RepairInvariance == Spec => [](NoRepairUnderDeadline /\ RepairsPayLate)
<1>1. Init => NoRepairUnderDeadline /\ RepairsPayLate
  BY DEF Init, NoRepairUnderDeadline, RepairsPayLate, UncalibratedRepairPaysOnlyAtTheLastTier
<1>2. IInv /\ HoldoutInv /\ TraceClimbs /\ NoRepairUnderDeadline /\ RepairsPayLate /\ [Next]_vars
        => (NoRepairUnderDeadline /\ RepairsPayLate)'
  BY NoRepairKeeps, RepairsKeep DEF HoldoutInv
<1> QED BY <1>1, <1>2, Invariance, HoldoutInvariance, ClimbInvariance, PTL DEF Spec

\* Without a certificate a repaired tier is never scored high enough, however wide its
\* fan-out and whatever survived: a repair is only ever accepted at the last tier.
THEOREM RepairsPayOnlyAtTheLastTier == Spec => []UncalibratedRepairPaysOnlyAtTheLastTier
<1>1. RepairsPayLate => UncalibratedRepairPaysOnlyAtTheLastTier
  BY DEF RepairsPayLate
<1> QED BY <1>1, RepairInvariance, PTL

-----------------------------------------------------------------------------
(* What a tier can reach.                                                   *)

\* No fan-out in hand scores above an agreeing one of the tier's width, and what was
\* accepted by a threshold had one that such a fan-out reaches.
WithinReach ==
  /\ pc \in {"route", "accept"} => Score(cands) <= UnanimousScore(Tier[tier].samples)
  /\ ~conf.deadline /\ res.acceptedAt \in Tiers =>
       \/ Last(res.acceptedAt)
       \/ Threshold(res.acceptedAt) <= UnanimousScore(Tier[res.acceptedAt].samples)

LEMMA ReachKeeps ==
  ASSUME IInv, TopologyFits, ThresholdsMet, RepairsPayLate, WithinReach, [Next]_vars
  PROVE  WithinReach'
<1> USE DEF disk, job, work, history
<1>1. ASSUME pc' \notin {"route", "accept"},
             \/ res'.acceptedAt \notin Tiers
             \/ res'.acceptedAt = res.acceptedAt /\ conf' = conf
      PROVE  WithinReach'
  BY <1>1 DEF WithinReach, Threshold, Calibrated, Last
<1>2. CASE StartSolve
  <2>1. pc' = "spec" /\ res'.acceptedAt = -1
    BY <1>2 DEF StartSolve, NoResult, Nowhere
  <2> QED BY <1>1, <2>1 DEF Tiers
<1>3. CASE \E why : Fail(why)
  <2>1. pc' = "failed" /\ conf' = conf /\ res'.acceptedAt = res.acceptedAt
    BY <1>3 DEF Fail, IInv, TypeOK, ResultTyped, Results
  <2> QED BY <1>1, <2>1
<1>4. CASE CacheHit
  <2>1. pc' = "finish" /\ res'.acceptedAt = 0
    BY <1>4 DEF CacheHit, IInv, TypeOK, ResultTyped, Results, CacheArm
  <2> QED BY <1>1, <2>1 DEF Tiers
<1>5. CASE AcceptSpeculative
  <2>1. pc' = "finish" /\ conf' = conf /\ conf.deadline
    BY <1>5 DEF AcceptSpeculative, TopologyFits
  <2> QED BY <2>1 DEF WithinReach
<1>6. CASE ReuseSpec \/ GenerateSpec \/ CacheMiss \/ FinishUnsolved \/ Finish \/ EnterSequential
           \/ EnterSpeculative
  <2>1. pc' \notin {"route", "accept"} /\ UNCHANGED <<conf, res>>
    BY <1>6 DEF ReuseSpec, GenerateSpec, CacheMiss, FinishUnsolved, Finish, EnterSequential,
       EnterSpeculative, AfterSpec
  <2> QED BY <1>1, <2>1
<1>7. CASE TierOpens \/ OutcomeComes \/ Collect \/ RejectSpeculative \/ NoneSurvived
  <2>1. pc' \notin {"route", "accept"} /\ UNCHANGED <<conf, res>>
    BY <1>7 DEF TierOpens, OutcomeComes, Collect, RejectSpeculative, NoneSurvived
  <2> QED BY <1>1, <2>1
<1>8. CASE RouteRefuted \/ RepairGivesUp \/ RouteBelow \/ RejectTier
  <2>1. pc' \notin {"route", "accept"} /\ UNCHANGED <<conf, res>>
    BY <1>8 DEF RouteRefuted, RepairGivesUp, RouteBelow, RejectTier, NextTier
  <2> QED BY <1>1, <2>1
<1>9. CASE ContextDone \/ UNCHANGED vars
  <2>1. UNCHANGED <<pc, conf, res, cands, tier>>
    BY <1>9 DEF ContextDone, vars
  <2> QED BY <2>1 DEF WithinReach, Threshold, Calibrated, Last
\* The steps within a tier: there is no answer yet.
<1>10. ASSUME pc \in AtATier, UNCHANGED <<res, tier>>,
              Score(cands') <= UnanimousScore(Tier[tier].samples)
       PROVE  WithinReach'
  <2>1. res'.acceptedAt = -1
    BY <1>10 DEF IInv, NoAnswerYet, Nowhere, AtATier
  <2> QED BY <1>10, <2>1 DEF WithinReach, Tiers
<1>11. CASE SampleTier
  <2>1. /\ pc \in AtATier /\ UNCHANGED <<res, tier>>
        /\ cands' \in [1..Tier[tier].samples -> Sampled]
    BY <1>11 DEF SampleTier, AtATier
  <2>2. Tier[tier].samples \in Nat
    BY <1>11, TiersAssumption DEF SampleTier, IInv, TierInRange
  <2>3. cands' \in Seq(Sampled) /\ Len(cands') = Tier[tier].samples
    BY <2>1, <2>2
  <2> QED BY <1>10, <2>1, <2>3, UnanimityBounds
<1>12. CASE RouteAbove
  <2>1. pc = "route" /\ UNCHANGED <<res, tier, cands>>
    BY <1>12 DEF RouteAbove
  <2>2. Score(cands') <= UnanimousScore(Tier[tier].samples)
    BY <2>1 DEF WithinReach
  <2> QED BY <1>10, <2>1, <2>2 DEF AtATier
<1>13. CASE RepairRound
  <2>1. /\ pc = "repair" /\ UNCHANGED <<res, tier>> /\ cands \in Seq(Candidate)
        /\ \A i \in DOMAIN cands : ~cands[i].report.ok
        /\ Tier[tier].samples \in Nat \ {0}
    BY <1>13, TiersAssumption DEF RepairRound, RepairsPayLate, IInv, TypeOK, WorkTyped, TierInRange
  <2>2. PICK d \in Sampled :
          IF d.report.ok
          THEN cands' = Append(cands, d) /\ pc' = "route"
          ELSE UNCHANGED pc
    BY <1>13 DEF RepairRound
  <2>3. CASE cands' = Append(cands, d)
    <3>1. d \in Candidate
      BY SampledEarned DEF IInv
    <3>2. Score(Append(cands, d)) <= UnanimousScore(Tier[tier].samples)
      BY <2>1, <3>1, LoneIsWithinReach
    <3>3. Score(cands') <= UnanimousScore(Tier[tier].samples)
      BY <2>3, <3>2, Zenon
    <3> QED BY <1>10, <2>1, <3>3 DEF AtATier
  <2>4. CASE pc' = "repair"
    <3>1. res.acceptedAt = -1
      BY <2>1 DEF IInv, NoAnswerYet, Nowhere
    <3> QED BY <1>1, <2>1, <2>4, <3>1 DEF Tiers
  <2> QED BY <2>1, <2>2, <2>3, <2>4
<1>14. CASE AcceptTier
  <2>1. /\ pc = "accept" /\ pc' = "finish" /\ conf' = conf /\ res'.acceptedAt = tier
        /\ tier \in Tiers
    BY <1>14 DEF AcceptTier, Accepted, IInv, TierInRange
  <2> DEFINE s == Score(cands)
             t == Threshold(tier)
             u == UnanimousScore(Tier[tier].samples)
  <2>2. (Last(tier) \/ s >= t) /\ s <= u
    BY <2>1 DEF ThresholdsMet, WithinReach
  <2>3. s \in 0..100 /\ t \in Int /\ u \in 0..100
    BY <2>1, ScoreIsPercentage, ThresholdTyped, WilsonIsPercentage DEF UnanimousScore, IInv
  <2>4. Last(tier) \/ t <= u
    <3> HIDE DEF s, t, u
    <3> QED BY <2>2, <2>3
  <2>5. Threshold(tier)' = Threshold(tier) \/ tier' # tier
    BY <2>1 DEF Threshold, Calibrated
  <2> QED BY <2>1, <2>4 DEF WithinReach, Threshold, Calibrated, Last
<1>15. CASE SampleTimesOut
  BY <1>15, TimesOutIs DEF WithinReach
<1> QED BY StepIs, <1>15, <1>2, <1>3, <1>4, <1>5, <1>6, <1>7, <1>8, <1>9, <1>11, <1>12, <1>13, <1>14

\* A tier that even agreement could not lift to its threshold never answers, however wide
\* it is and whatever certificate is in force, unless it is the last.
THEOREM OutOfReachEscalates == Spec => []OnlyTiersInReachAnswer
<1>1. Init => WithinReach
  <2> SUFFICES ASSUME Init
               PROVE  WithinReach
    OBVIOUS
  <2>1. res.acceptedAt = -1 /\ pc = "idle"
    BY DEF Init, NoResult, Nowhere
  <2> QED BY <2>1 DEF WithinReach, Tiers
<1>2. IInv /\ HoldoutInv /\ ThresholdsMet /\ RepairsPayLate /\ WithinReach /\ [Next]_vars
        => WithinReach'
  BY ReachKeeps DEF HoldoutInv
<1>3. WithinReach => OnlyTiersInReachAnswer
  BY TiersAssumption DEF WithinReach, OnlyTiersInReachAnswer, Tiers, Last
<1> QED BY <1>1, <1>2, <1>3, Invariance, HoldoutInvariance, ThresholdInvariance,
           RepairInvariance, PTL DEF Spec

-----------------------------------------------------------------------------
(* How often a tier is counted. *)

\* The steps of the trace that become observations of tier k.
Attempts(k) == {i \in DOMAIN trace : trace[i].tier = k /\ trace[i].action # "repair"}

Tries(k) == Cardinality(Attempts(k))

\* A tier left behind was tried at least once, and as often as its repairs allow; the
\* rounds of the repair in hand are the tries at this tier so far.
TriesCounted ==
  /\ pc \in AtATier => \A k \in Tiers : k < tier => Tries(k) \in 1..(1 + Tier[k].repairDepth)
  /\ pc = "route" /\ Winners(cands) = {} => Tries(tier) = 0
  /\ pc \in {"route", "repair", "accept"} => Tries(tier) <= Tier[tier].repairDepth
  /\ pc = "repair" => Tries(tier) <= repair.round
  /\ ~conf.deadline /\ res.acceptedAt \in Tiers =>
       \A k \in Tiers : IF k > res.acceptedAt THEN Tries(k) = 0
                        ELSE Tries(k) \in 1..(1 + Tier[k].repairDepth)

LEMMA TriesTyped ==
  ASSUME TypeOK, NEW k
  PROVE  IsFiniteSet(Attempts(k)) /\ Tries(k) \in Nat
<1>1. trace \in Seq(Steps)
  BY DEF TypeOK, ResultTyped
<1>2. Len(trace) \in Nat /\ DOMAIN trace = 1..Len(trace)
  BY <1>1
<1>3. IsFiniteSet(1..Len(trace))
  BY <1>2, IntervalSize
<1>4. Attempts(k) \subseteq 1..Len(trace)
  BY <1>2 DEF Attempts
<1>5. IsFiniteSet(Attempts(k))
  BY <1>3, <1>4, FS_Subset
<1> QED BY <1>5, FS_CardinalityType DEF Tries

LEMMA NoTries ==
  ASSUME NEW k, \A i \in DOMAIN trace : trace[i].tier # k
  PROVE  Tries(k) = 0
<1>1. Attempts(k) = {}
  BY DEF Attempts
<1> QED BY <1>1, FS_EmptySet DEF Tries

\* One more step is one more try of its tier, unless a repair cleared the ladder.
LEMMA TriesGrow ==
  ASSUME TypeOK, NEW t, NEW action, Step(t, action) \in Steps,
         trace' = Append(trace, Step(t, action)), NEW k
  PROVE  Tries(k)' = IF k = t /\ action # "repair" THEN Tries(k) + 1 ELSE Tries(k)
<1> DEFINE n == Len(trace')
<1>1. trace \in Seq(Steps)
  BY DEF TypeOK, ResultTyped
<1>2. /\ trace'[n] = Step(t, action) /\ n \in DOMAIN trace'
      /\ \A i \in DOMAIN trace' : i = n \/ (i \in DOMAIN trace /\ trace'[i] = trace[i])
      /\ \A i \in DOMAIN trace : i \in DOMAIN trace' /\ trace'[i] = trace[i] /\ i < n
  BY <1>1, Grown
<1>3. Step(t, action).tier = t /\ Step(t, action).action = action
  BY DEF Step
<1>4. n \notin DOMAIN trace
  <2>1. n \in Int
    BY <1>1, <1>2
  <2> HIDE DEF n
  <2> QED BY <1>2, <2>1
<1> HIDE DEF n
<1>5. IsFiniteSet(Attempts(k)) /\ n \notin Attempts(k)
  BY <1>4, TriesTyped DEF Attempts
<1>6. CASE k = t /\ action # "repair"
  <2>1. Attempts(k)' = Attempts(k) \cup {n}
    BY <1>2, <1>3, <1>6 DEF Attempts
  <2> QED BY <1>5, <1>6, <2>1, FS_AddElement DEF Tries
<1>7. CASE ~(k = t /\ action # "repair")
  <2>1. Attempts(k)' = Attempts(k)
    BY <1>2, <1>3, <1>7 DEF Attempts
  <2> QED BY <1>7, <2>1 DEF Tries
<1> QED BY <1>6, <1>7

\* The loop leaves a tier that was tried no more often than it has repairs.
LEMMA TriesGoOn ==
  ASSUME IInv, TriesCounted, pc \in AtATier, NextTier, res' = res,
         NEW action \in {"escalate", "reject"},
         trace' = Append(trace, Step(tier, action)), Tries(tier) <= Tier[tier].repairDepth
  PROVE  TriesCounted'
<1>1. /\ tier \in Tiers /\ tier \in Nat /\ \A k \in Tiers : k \in Nat
      /\ \A k \in Tiers : Tier[k].repairDepth \in Nat
  BY LeavesTier, TiersAssumption DEF Tiers
<1>2. Step(tier, action) \in Steps
  BY <1>1 DEF Step, Steps
<1>3. \A k \in Tiers : Tries(k)' = IF k = tier THEN Tries(k) + 1 ELSE Tries(k)
  BY <1>2, TriesGrow DEF IInv
<1>4. \A k \in Tiers : k <= tier => Tries(k)' \in 1..(1 + Tier[k].repairDepth)
  <2> TAKE k \in Tiers
  <2> HAVE k <= tier
  <2>1. CASE k = tier
    <3>1. Tries(k)' = Tries(tier) + 1 /\ Tries(tier) \in Nat /\ Tier[tier].repairDepth \in Nat
      BY <1>1, <1>3, <2>1, TriesTyped DEF IInv
    <3> QED BY <2>1, <3>1
  <2>2. CASE k # tier
    <3>1. k < tier
      BY <1>1, <2>2
    <3> QED BY <1>3, <2>2, <3>1 DEF TriesCounted
  <2> QED BY <2>1, <2>2
<1>5. res'.acceptedAt = -1
  BY DEF IInv, NoAnswerYet, Nowhere, AtATier
<1>6. \/ pc' = "finish"
      \/ pc' = "tier" /\ tier' = tier + 1
  BY LeavesTier
<1>7. CASE pc' = "finish"
  BY <1>5, <1>7 DEF TriesCounted, Tiers, AtATier
<1>8. CASE pc' = "tier" /\ tier' = tier + 1
  <2>1. \A k \in Tiers : k < tier' => Tries(k)' \in 1..(1 + Tier[k].repairDepth)
    BY <1>1, <1>4, <1>8
  <2> QED BY <1>5, <1>8, <2>1 DEF TriesCounted, Tiers
<1> QED BY <1>6, <1>7, <1>8

LEMMA TriesKeep ==
  ASSUME IInv, TiersInTurn, TopologyFits, TraceClimbs, TriesCounted, [Next]_vars
  PROVE  TriesCounted'
<1> USE DEF disk, job, work, history
<1>0. /\ trace \in Seq(Steps) /\ \A i \in DOMAIN trace : trace[i].tier \in Int
      /\ \A k \in Tiers : k \in Int /\ Tier[k].repairDepth \in Nat
      /\ \A k \in Tiers : Tries(k) \in Nat
  BY TraceTyped, TriesTyped, TiersAssumption DEF IInv, Tiers
<1>1. ASSUME trace' = trace
      PROVE  \A k : Tries(k)' = Tries(k)
  BY <1>1 DEF Tries, Attempts
<1>2. ASSUME pc' \notin AtATier, res'.acceptedAt \notin Tiers
      PROVE  TriesCounted'
  BY <1>2 DEF TriesCounted, AtATier
<1>3. ASSUME pc' \notin AtATier, UNCHANGED <<conf, trace>>, res'.acceptedAt = res.acceptedAt
      PROVE  TriesCounted'
  <2>1. \A k : Tries(k)' = Tries(k)
    BY <1>1, <1>3
  <2> QED BY <1>3, <2>1 DEF TriesCounted, AtATier
<1>4. CASE StartSolve
  <2>1. pc' = "spec" /\ res'.acceptedAt = -1
    BY <1>4 DEF StartSolve, NoResult, Nowhere
  <2> QED BY <1>2, <2>1 DEF Tiers, AtATier
<1>5. CASE \E why : Fail(why)
  <2>1. pc' = "failed" /\ UNCHANGED <<conf, trace>> /\ res'.acceptedAt = res.acceptedAt
    BY <1>5 DEF Fail, IInv, TypeOK, ResultTyped, Results
  <2> QED BY <1>3, <2>1 DEF AtATier
<1>6. CASE CacheHit
  <2>1. pc' = "finish" /\ res'.acceptedAt = 0
    BY <1>6 DEF CacheHit, IInv, TypeOK, ResultTyped, Results, CacheArm
  <2> QED BY <1>2, <2>1 DEF Tiers, AtATier
<1>7. CASE AcceptSpeculative
  <2>1. pc' = "finish" /\ conf' = conf /\ conf.deadline
    BY <1>7 DEF AcceptSpeculative, TopologyFits
  <2> QED BY <2>1 DEF TriesCounted, AtATier
<1>8. CASE RejectSpeculative
  <2>1. pc' = "holdout" /\ res' = res /\ res.acceptedAt = -1
    BY <1>8 DEF RejectSpeculative, IInv, NoAnswerYet, Nowhere
  <2> QED BY <1>2, <2>1 DEF Tiers, AtATier
<1>9. CASE ReuseSpec \/ GenerateSpec \/ CacheMiss \/ FinishUnsolved \/ Finish \/ EnterSpeculative
           \/ OutcomeComes \/ Collect \/ NoneSurvived
  <2>1. pc' \notin AtATier /\ UNCHANGED <<conf, res, trace>>
    BY <1>9 DEF ReuseSpec, GenerateSpec, CacheMiss, FinishUnsolved, Finish, EnterSpeculative,
       OutcomeComes, Collect, NoneSurvived, AfterSpec, AtATier
  <2> QED BY <1>3, <2>1
\* The steps to and within a tier: there is no answer yet.
<1>10. ASSUME res' = res, pc \in AtATier \cup {"cascade"}
       PROVE  res'.acceptedAt \notin Tiers
  <2>1. res'.acceptedAt = -1
    BY <1>10 DEF IInv, NoAnswerYet, Nowhere, AtATier
  <2> QED BY <2>1 DEF Tiers
<1>11. CASE EnterSequential
  <2>1. pc' = "tier" /\ tier' = 1 /\ res' = res /\ pc = "cascade"
    BY <1>11 DEF EnterSequential, TiersInTurn, Early
  <2>2. \A k \in Tiers : ~(k < tier')
    BY <2>1, TiersAssumption DEF Tiers
  <2> QED BY <1>10, <2>1, <2>2 DEF TriesCounted, AtATier
<1>12. ASSUME pc \in AtATier, UNCHANGED <<res, tier, trace>>,
              pc' = "route" => Tries(tier) = 0,
              pc' = "repair" => Tries(tier) = 0 /\ repair'.round = 0,
              pc' = "accept" => Tries(tier) <= Tier[tier].repairDepth
       PROVE  TriesCounted'
  <2>1. \A k : Tries(k)' = Tries(k)
    BY <1>1, <1>12
  <2>2. tier \in Tiers
    BY <1>12 DEF IInv, TierInRange, AtATier
  <2>3. 0 <= Tier[tier].repairDepth
    BY <1>0, <2>2
  <2>4. res'.acceptedAt \notin Tiers
    BY <1>10, <1>12
  <2> QED BY <1>12, <2>1, <2>3, <2>4 DEF TriesCounted
<1>13. CASE TierOpens
  BY <1>12, <1>13 DEF TierOpens, AtATier
<1>14. CASE SampleTier
  <2>1. /\ pc = "sample" /\ pc' = "route" /\ UNCHANGED <<res, trace, tier>>
        /\ tier \in Tiers
    BY <1>14 DEF SampleTier, IInv, TierInRange
  <2>2. \A i \in DOMAIN trace : trace[i].tier # tier
    BY <1>0, <2>1 DEF TraceClimbs
  <2>3. Tries(tier) = 0
    BY <2>2, NoTries
  <2> QED BY <1>12, <2>1, <2>3 DEF AtATier
<1>15. CASE RouteRefuted
  <2>1. pc = "route" /\ pc \in AtATier /\ res' = res /\ Tries(tier) = 0 /\ tier \in Tiers
    BY <1>15 DEF RouteRefuted, TriesCounted, AtATier, IInv, TierInRange
  <2>2. CASE pc' = "repair" /\ UNCHANGED <<tier, trace>> /\ repair'.round = 0
    BY <1>12, <2>1, <2>2
  <2>3. CASE NextTier /\ trace' = Append(trace, Step(tier, "escalate"))
    <3>1. Tries(tier) <= Tier[tier].repairDepth
      BY <1>0, <2>1
    <3> QED BY <2>1, <2>3, <3>1, TriesGoOn
  <2>4. \/ /\ pc' = "repair" /\ UNCHANGED <<tier, trace>>
           /\ repair'.round = 0
        \/ NextTier /\ trace' = Append(trace, Step(tier, "escalate"))
    BY <1>15 DEF RouteRefuted
  <2> QED BY <2>2, <2>3, <2>4
<1>16. CASE RepairGivesUp \/ RouteBelow
  <2>1. /\ pc \in {"repair", "route"} /\ NextTier /\ res' = res
        /\ trace' = Append(trace, Step(tier, "escalate"))
    BY <1>16 DEF RepairGivesUp, RouteBelow
  <2>2. Tries(tier) <= Tier[tier].repairDepth
    BY <2>1 DEF TriesCounted
  <2> QED BY <2>1, <2>2, TriesGoOn DEF AtATier
<1>17. CASE RejectTier
  <2>1. /\ pc = "accept" /\ NextTier /\ res' = res
        /\ trace' = Append(trace, Step(tier, "reject"))
    BY <1>17 DEF RejectTier
  <2>2. Tries(tier) <= Tier[tier].repairDepth
    BY <2>1 DEF TriesCounted
  <2> QED BY <2>1, <2>2, TriesGoOn DEF AtATier
<1>18. CASE RouteAbove
  <2>1. pc = "route" /\ pc' = "accept" /\ UNCHANGED <<res, trace, tier>>
    BY <1>18 DEF RouteAbove
  <2>2. Tries(tier) <= Tier[tier].repairDepth
    BY <2>1 DEF TriesCounted
  <2> QED BY <1>12, <2>1, <2>2 DEF AtATier
<1>19. CASE RepairRound
  <2>1. /\ pc = "repair" /\ UNCHANGED <<res, tier>> /\ tier \in Tiers
        /\ repair.round < Tier[tier].repairDepth /\ repair.round \in Nat
        /\ Tries(tier) <= repair.round /\ cands \in Seq(Candidate)
    BY <1>19 DEF RepairRound, RoundsLeft, TriesCounted, IInv, TierInRange, TypeOK, WorkTyped
  <2>2. PICK d \in Sampled :
          IF d.report.ok
          THEN /\ cands' = Append(cands, d) /\ pc' = "route"
               /\ trace' = Append(trace, Step(tier, "repair"))
          ELSE /\ repair' = [round |-> repair.round + 1, quotes |-> d.report.quotes]
               /\ pc' = pc
               /\ trace' = Append(trace, Step(tier, "escalate"))
    BY <1>19 DEF RepairRound
  <2>3. res'.acceptedAt \notin Tiers
    BY <1>10, <2>1 DEF AtATier
  <2>4. \A action \in {"repair", "escalate"} : Step(tier, action) \in Steps
    BY <2>1 DEF Step, Steps
  <2>5. \A k \in Tiers : k < tier => Tries(k) \in 1..(1 + Tier[k].repairDepth)
    BY <2>1 DEF TriesCounted, AtATier
  <2>6. CASE /\ cands' = Append(cands, d) /\ pc' = "route" /\ d.report.ok
             /\ trace' = Append(trace, Step(tier, "repair"))
    <3>1. \A k : Tries(k)' = Tries(k)
      BY <2>4, <2>6, TriesGrow DEF IInv
    <3>2. d \in Candidate
      BY SampledEarned DEF IInv
    <3>3. Winners(cands') # {}
      <4>1. cands' \in Seq(Candidate) /\ Len(cands') \in DOMAIN cands' /\ cands'[Len(cands')] = d
        BY <2>1, <2>6, <3>2
      <4> QED BY <2>6, <4>1, SurvivorWins
    <3>4. Tries(tier) <= Tier[tier].repairDepth
      BY <1>0, <2>1
    <3> QED BY <2>1, <2>3, <2>5, <2>6, <3>1, <3>3, <3>4 DEF TriesCounted
  <2>7. CASE /\ repair'.round = repair.round + 1 /\ pc' = "repair"
             /\ trace' = Append(trace, Step(tier, "escalate"))
    <3>1. \A k \in Tiers : Tries(k)' = IF k = tier THEN Tries(k) + 1 ELSE Tries(k)
      BY <2>4, <2>7, TriesGrow DEF IInv
    <3>2. Tries(tier)' <= repair'.round /\ Tries(tier)' <= Tier[tier].repairDepth
      BY <1>0, <2>1, <2>7, <3>1
    <3>3. \A k \in Tiers : k < tier => Tries(k)' \in 1..(1 + Tier[k].repairDepth)
      BY <1>0, <2>1, <2>5, <3>1
    <3> QED BY <2>1, <2>3, <2>7, <3>2, <3>3 DEF TriesCounted
  <2> QED BY <2>1, <2>2, <2>6, <2>7
<1>20. CASE AcceptTier
  <2>1. /\ pc = "accept" /\ pc' = "finish" /\ res'.acceptedAt = tier /\ tier \in Tiers
        /\ trace' = Append(trace, Step(tier, "accept"))
    BY <1>20 DEF AcceptTier, Accepted, IInv, TierInRange
  <2>2. Step(tier, "accept") \in Steps
    BY <2>1 DEF Step, Steps
  <2>3. \A k \in Tiers : Tries(k)' = IF k = tier THEN Tries(k) + 1 ELSE Tries(k)
    BY <2>1, <2>2, TriesGrow DEF IInv
  <2>4. \A k \in Tiers : IF k > tier THEN Tries(k)' = 0
                         ELSE Tries(k)' \in 1..(1 + Tier[k].repairDepth)
    <3> TAKE k \in Tiers
    <3>1. CASE k > tier
      <4>1. \A i \in DOMAIN trace : trace[i].tier # k
        BY <1>0, <2>1, <3>1 DEF TraceClimbs, AtATier
      <4>2. Tries(k) = 0 /\ k # tier
        BY <1>0, <2>1, <3>1, <4>1, NoTries
      <4> QED BY <2>3, <3>1, <4>2
    <3>2. CASE k = tier
      <4>1. Tries(tier) <= Tier[tier].repairDepth
        BY <2>1 DEF TriesCounted
      <4> QED BY <1>0, <2>1, <2>3, <3>2, <4>1
    <3>3. CASE k < tier
      <4>1. Tries(k) \in 1..(1 + Tier[k].repairDepth)
        BY <2>1, <3>3 DEF TriesCounted, AtATier
      <4> QED BY <1>0, <2>1, <2>3, <3>3, <4>1
    <3> QED BY <1>0, <2>1, <3>1, <3>2, <3>3
  <2> QED BY <2>1, <2>4 DEF TriesCounted, AtATier
<1>21. CASE ContextDone \/ UNCHANGED vars
  <2>1. UNCHANGED <<pc, conf, trace, res, cands, tier, repair>>
    BY <1>21 DEF ContextDone, vars
  <2>2. \A k : Tries(k)' = Tries(k)
    BY <1>1, <2>1
  <2> QED BY <2>1, <2>2 DEF TriesCounted
<1>22. CASE SampleTimesOut
  <2>1. pc' = "finish" /\ res'.acceptedAt \notin Tiers
    BY <1>22, TimesOutIs
  <2> QED BY <2>1 DEF TriesCounted, AtATier
<1> QED BY StepIs, <1>22, <1>4, <1>5, <1>6, <1>7, <1>8, <1>9, <1>11, <1>13, <1>14, <1>15, <1>16, <1>17,
           <1>18, <1>19, <1>20, <1>21

LEMMA TriesInvariance == Spec => []TriesCounted
<1>1. Init => TriesCounted
  <2> SUFFICES ASSUME Init
               PROVE  TriesCounted
    OBVIOUS
  <2>1. res.acceptedAt = -1 /\ pc = "idle"
    BY DEF Init, NoResult, Nowhere
  <2> QED BY <2>1 DEF TriesCounted, Tiers, AtATier
<1>2. IInv /\ HoldoutInv /\ TraceClimbs /\ TriesCounted /\ [Next]_vars => TriesCounted'
  BY TriesKeep DEF HoldoutInv
<1> QED BY <1>1, <1>2, Invariance, HoldoutInvariance, ClimbInvariance, PTL DEF Spec

\* A record calls the answer's tier right and no other, counts every tier the solve came
\* to, as often at most as its repair depth accounts for, and no tier above the answer's.
THEOREM RecordIsAccounted == Spec => []RecordTellsTheSolve
<1>1. ASSUME IInv, RecordIsRight, TriesCounted, observed # NoRecord, ~observed.cacheHit,
             ~conf.deadline, NEW k \in Tiers
      PROVE  LET n == Cardinality({i \in DOMAIN observed.tiers : observed.tiers[i].tier = k})
             IN IF k > res.acceptedAt THEN n = 0 ELSE n \in 1..(1 + Tier[k].repairDepth)
  <2>1. res.solved /\ observed = Record /\ res.acceptedAt # CacheArm
    <3>1. res.solved /\ observed = Record
      BY <1>1 DEF RecordIsRight
    <3>2. Record.cacheHit = (res.acceptedAt = CacheArm)
      BY Zenon DEF Record
    <3> QED BY <1>1, <3>1, <3>2, Zenon
  <2>2. res.acceptedAt \in Tiers
    <3>1. res.acceptedAt \in Arms /\ res.acceptedAt # Nowhere
      BY <1>1, <2>1 DEF IInv, AnswerIsWhole, TypeOK, ResultTyped, Results
    <3> QED BY <2>1, <3>1 DEF Arms
  <2>3. DOMAIN observed.tiers = Observations
    BY <2>1 DEF Record
  <2>4. \A i \in Observations : observed.tiers[i].tier = trace[i].tier
    <3> TAKE i \in Observations
    <3>1. observed.tiers[i] =
            [tier |-> trace[i].tier, correct |-> trace[i].action = "accept" /\ res.solved]
      BY <2>1 DEF Record
    <3> QED BY <3>1
  <2>5. {i \in DOMAIN observed.tiers : observed.tiers[i].tier = k} = Attempts(k)
    <3>1. Observations = {i \in DOMAIN trace : trace[i].action # "repair"}
      BY <2>1 DEF Observations
    <3> QED BY <2>3, <2>4, <3>1, Zenon DEF Attempts
  <2>6. IF k > res.acceptedAt THEN Tries(k) = 0 ELSE Tries(k) \in 1..(1 + Tier[k].repairDepth)
    BY <1>1, <2>2 DEF TriesCounted
  <2> QED BY <2>5, <2>6 DEF Tries
<1>2. IInv /\ RecordIsRight /\ TriesCounted => ObservationsAreAccounted
  BY <1>1 DEF ObservationsAreAccounted
<1>3. RecordCallsTheAcceptedTierCorrect /\ ObservationsAreAccounted => RecordTellsTheSolve
  BY DEF RecordTellsTheSolve
<1> QED BY <1>2, <1>3, RecordIsTrue, Invariance, RecordInvariance, TriesInvariance, PTL
=============================================================================
