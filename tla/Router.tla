-------------------------------- MODULE Router --------------------------------
(***************************************************************************)
(* The state of one Router and the phases every solve shares               *)
(* (internal/cascade/cascade.go): obtain the oracle, try the cache, and,   *)
(* after the cascade, admit and observe.  Sequential and Speculative model *)
(* the two topologies of the cascade itself; Cascade composes them.        *)
(*                                                                         *)
(* Each solve is one run of `go-cascade solve`: a process with its own     *)
(* configuration over a cache directory that outlives it.  A program is a  *)
(* model value.  An oracle is the pair of sets of programs that pass the   *)
(* visible and the held-out partition of one generated test suite.  Money, *)
(* clocks and the mutation score are left out: they are recorded, never    *)
(* read.                                                                   *)
(*                                                                         *)
(* Convention: a step stands for a call together with the time it takes,   *)
(* and ctx is the context as it is when the call ends.  So in a step taken *)
(* with a done context any part of the call may have run before it was     *)
(* done.                                                                   *)
(***************************************************************************)
EXTENDS Cluster

CONSTANTS
  Problems,        \* problem statements
  Programs,        \* candidate sources
  Models,          \* model ids
  NoModel,         \* the empty model id
  NTiers,          \* length of Config.Tiers, cheapest first
  Tier,            \* Tier[k] = [model, planner, samples, repairDepth, price]
  CascadePlanner,  \* Config.PlannerModel: one plan for all tiers
  TestModels,      \* the values Config.TestModel has from run to run
  Oracles,         \* what a generated suite may be: [vis, hid]
  Facts,           \* Facts[p] = [stage, racy, concurrent, tests, quotes]
  Similarity,      \* Similarity[p][q] in percents
  CacheEnabled,    \* Config.CacheDir # ""
  CacheTopK, CacheMinSim, CacheAdmitAt,
  Certificates,    \* the certificates a run may be given: [valid, tau]
  DeadlineModes,   \* whether a run has Config.Deadline > 0
  ShadowModes,     \* whether a run is a shadow sample
  Faults,          \* the faults of the environment, a subset of AllFaults
  MaxSolves        \* bound on the number of solves

VARIABLES
  specs,      \* cache/specs: the oracle stored for each problem
  solutions,  \* cache/solutions: the admitted entries
  failures,   \* cache/failures: the refuted forms of each problem
  solves,     \* how many solves have begun
  conf,       \* this run's configuration: testModel, cert, deadline, shadow
  pc,         \* what Solve does next
  ctx,        \* "live", "cancelled" (a signal) or "expired" (the deadline)
  problem, spec,
  tier,       \* the tier the cascade is at
  cands,      \* the fan-out of that tier
  carried,    \* what the diagnostics carried to the next tier quote
  repair,     \* the repair round and what its diagnostic quotes
  chosen,     \* position in cands of the representative up for acceptance
  outs,       \* the outcomes of the tiers of the speculative topology
  res,        \* the Result, and in res.err why Solve ended early
  trace,      \* the steps of Result.Trace that name a tier
  prompted,   \* history: the texts quoted in any prompt of this solve
  consulted,  \* history: acceptance runs of each tier in this solve
  observed    \* history: the record handed to Observe, if any

disk    == <<specs, solutions, failures>>
job     == <<solves, conf, problem>>
work    == <<tier, cands, carried, repair, chosen, outs>>
history == <<prompted, consulted>>
vars    == <<disk, job, pc, ctx, spec, work, res, trace, history, observed>>

Tiers == 1..NTiers

\* Config.Validate: at least one tier, at least one sample per tier, one source of
\* plans, and no planner that is also the author of the tests.
ASSUME TiersAssumption ==
  /\ NTiers \in Nat \ {0}
  /\ Tier \in [Tiers -> [model : Models, planner : Models \cup {NoModel},
                         samples : Nat \ {0}, repairDepth : Nat, price : Nat]]
  /\ CascadePlanner \in Models \cup {NoModel} /\ NoModel \notin TestModels
  /\ CascadePlanner \notin TestModels
  /\ \A k \in Tiers : /\ Tier[k].planner \notin TestModels
                      /\ CascadePlanner # NoModel => Tier[k].planner = NoModel

ASSUME CacheAssumption ==
  /\ CacheEnabled \in BOOLEAN
  /\ CacheTopK \in Nat /\ CacheMinSim \in 0..100 /\ CacheAdmitAt \in 0..100
  /\ Similarity \in [Problems -> [Problems -> 0..100]]

\* calibrate.Certificate: one threshold for each tier it was calibrated on.
ASSUME RunAssumption ==
  /\ Certificates \subseteq [valid : BOOLEAN, tau : Seq(0..100)]
  /\ DeadlineModes \subseteq BOOLEAN /\ ShadowModes \subseteq BOOLEAN
  /\ TestModels # {} /\ TestModels \subseteq Models
  /\ MaxSolves \in Nat

-----------------------------------------------------------------------------
(* The verifier as the router sees it. *)

\* verify.Stage: the rungs of the ladder.
StageParse == 0
StageBuild == 3
StageVet   == 4
StageTest  == 5
StageRace  == 6
Stages     == 0..8

\* The texts a prompt may quote: the visible tests, the hidden tests' source
\* (which vet compiles) and the outcome of the held-out run.
Texts == {"visible", "hidden", "heldout"}

ASSUME ProgramsAssumption ==
  /\ Oracles \subseteq [vis : SUBSET Programs, hid : SUBSET Programs]
  /\ \A p \in Programs : Weight[p] \in Nat
  /\ \A p \in Programs : /\ Facts[p].stage \in 0..5
                         /\ Facts[p].racy \in BOOLEAN /\ Facts[p].concurrent \in BOOLEAN
                         /\ Facts[p].quotes \subseteq {"visible", "hidden"}

Survived(p) == [ok |-> TRUE, failedAt |-> StageParse, tests |-> Facts[p].tests,
                timedOut |-> FALSE, quotes |-> {}]

RefutedAt(p, stage, late) ==
  [ok |-> FALSE, failedAt |-> stage, tests |-> "none", timedOut |-> late,
   quotes |-> CASE stage = StageVet -> Facts[p].quotes
                [] stage \in {StageTest, StageRace} -> {"visible"}
                [] OTHER -> {}]

\* The races the ladder looks for: those of a source that uses concurrency itself
\* (static.go:41-50).  What the goroutines of the tests do with another is not watched.
Races(p) == Facts[p].racy /\ Facts[p].concurrent

\* Ladder.Run on a machine that gets in nobody's way.  The race stage is off
\* under a deadline.
Verdict(p) ==
  IF p \notin spec.vis THEN RefutedAt(p, Facts[p].stage, FALSE)
  ELSE IF Races(p) /\ ~conf.deadline THEN RefutedAt(p, StageRace, FALSE)
  ELSE Survived(p)

ReachesRung(p, stage) == p \in spec.vis \/ Facts[p].stage >= stage

\* The reports Ladder.Run can return: the verdict itself, a test that ran out of
\* its time, or a child process that was killed, or never started, because the
\* context was done.  A killed child is a refutation like any other; it is
\* marked TimedOut only when a deadline did it.
Reports(p) ==
  LET late   == RefutedAt(p, StageTest, TRUE)
      killed == RefutedAt(p, StageBuild, ctx = "expired")
  IN {Verdict(p)}
       \cup {r \in {late}   : "timeout" \in Faults /\ ReachesRung(p, StageTest)}
       \cup {r \in {killed} : ctx # "live" /\ ReachesRung(p, StageBuild)}

\* Bug: the held-out run is not looked at.
AcceptVerdictsUnread(p) == {TRUE}

\* What Ladder.Accept can report of p: OK only if the held-out run passed.
AcceptVerdicts(p) ==
  {ok \in BOOLEAN : IF ok THEN p \in spec.hid
                         ELSE p \notin spec.hid \/ "timeout" \in Faults \/ ctx # "live"}

\* What the diagnostic of a held-out refusal quotes: it is one fixed sentence.
\* Bug: it carries the outcome of the tests.
RefusalQuotesOutcome == {"heldout"}
RefusalQuotes == {}

\* verifyOne: both partitions in one workspace.
MayPassBoth(p)   == (\E r \in Reports(p) : r.ok) /\ TRUE \in AcceptVerdicts(p)
MayBeRefuted(p)  == (\E r \in Reports(p) : ~r.ok) \/ FALSE \in AcceptVerdicts(p)

\* The candidates one sample, drawn and verified, may turn out to be.
Sampled == UNION {{[source |-> p, report |-> r] : r \in Reports(p)} : p \in Programs}

\* A call to a model fails when the provider does or when the context is done.
MayFail == "provider" \in Faults \/ ctx # "live"

-----------------------------------------------------------------------------
(* The cache as one process sees it. *)

NoSpec == [author |-> NoModel, vis |-> {}, hid |-> {}]

Entry == [problem : Problems, source : Programs, score : 0..100, tier : Tiers,
          oracle : Models \cup {NoModel}]

\* Cache.Retrieve: the entries similar enough to the problem, best first, at most
\* CacheTopK of them.  Entries alike in similarity and score are left in the
\* order of their file names, which the model leaves open.
SimilarityOf(e) == IF e.problem = problem THEN 100 ELSE Similarity[problem][e.problem]

Outranks(e, f) ==
  \/ SimilarityOf(e) > SimilarityOf(f)
  \/ SimilarityOf(e) = SimilarityOf(f) /\ e.score > f.score

Candidates ==
  IF CacheEnabled
  THEN {e \in solutions : e.problem = problem \/ SimilarityOf(e) >= CacheMinSim}
  ELSE {}

Retrieve ==
  {H \in SUBSET Candidates :
     /\ \A e \in Candidates \ H, h \in H : ~Outranks(e, h)
     /\ IF CacheTopK = 0 \/ Cardinality(Candidates) <= CacheTopK
          THEN H = Candidates ELSE Cardinality(H) = CacheTopK}

\* Cache.PutSolution: the file is named after the problem and the source.
PutSolution(e) ==
  IF CacheEnabled
  THEN {f \in solutions : f.problem # e.problem \/ f.source # e.source} \cup {e}
  ELSE solutions

\* Router.recordFailure on a fan-out: each refuted source that parses is added
\* once, with what its first report quotes.  The 64-entry cap of Cache.AddFailure
\* is not reached by the programs of a model.
RecordFailure(cs) ==
  LET known == {f.source : f \in failures[problem]}
      news  == {i \in DOMAIN cs :
                  /\ ~cs[i].report.ok
                  /\ cs[i].source \notin known
                  /\ Facts[cs[i].source].stage # StageParse
                  /\ \A j \in DOMAIN cs :
                       j < i /\ ~cs[j].report.ok => cs[j].source # cs[i].source}
  IN IF CacheEnabled
     THEN [failures EXCEPT ![problem] =
             @ \cup {[source |-> cs[i].source, quotes |-> cs[i].report.quotes] : i \in news}]
     ELSE failures

\* The failure summaries every fan-out is told to avoid.
AvoidQuotes ==
  IF CacheEnabled THEN UNION {f.quotes : f \in failures[problem]} ELSE {}

-----------------------------------------------------------------------------
(* Result, certificate and record. *)

\* Where an answer came from: nowhere, arm zero (the cache) or a tier.
Nowhere  == -1
CacheArm == 0
Arms     == {Nowhere, CacheArm} \cup Tiers

NoSource == "none"

\* No certificate file.
NoCert == [valid |-> FALSE, tau |-> <<>>]

NoResult == [solved |-> FALSE, source |-> NoSource, acceptedAt |-> Nowhere, score |-> 0,
             certified |-> FALSE, contaminated |-> FALSE, err |-> ""]

Calibrated == conf.cert.valid

\* Router.threshold: the certificate's for as many tiers as it has thresholds,
\* else the priors.
Threshold(k) ==
  IF Calibrated /\ k <= Len(conf.cert.tau) THEN conf.cert.tau[k]
  ELSE IF k = 1 THEN 60 ELSE 50

\* Bug: only the planner is compared.
ContaminatedPlanner(k) == conf.testModel = Tier[k].planner

Contaminated(k) == conf.testModel \in {Tier[k].model, Tier[k].planner, CascadePlanner}

\* Bug: tiers are counted from one on one side and from zero on the other.
AcceptedOffByOne(source, k, score) ==
  [solved |-> TRUE, source |-> source, acceptedAt |-> k + 1, score |-> score,
   certified |-> Calibrated, contaminated |-> Contaminated(k), err |-> ""]

\* The Result of accepting source at tier k with the given score.
Accepted(source, k, score) ==
  [solved |-> TRUE, source |-> source, acceptedAt |-> k, score |-> score,
   certified |-> Calibrated, contaminated |-> Contaminated(k), err |-> ""]

Step(k, action) == [tier |-> k, action |-> action]

\* Router.record: one observation for every step that names a tier, but for the
\* repairs that succeeded; an observation is keyed by the position of its step.
Observations ==
  IF res.acceptedAt = CacheArm THEN {}
  ELSE {i \in DOMAIN trace : trace[i].action # "repair"}

\* Bug: every tier of a solve that has an answer was right.
RecordOutcome ==
  [cacheHit |-> res.acceptedAt = CacheArm,
   tiers |-> [i \in Observations |-> [tier |-> trace[i].tier, correct |-> res.solved]]]

Record ==
  [cacheHit |-> res.acceptedAt = CacheArm,
   tiers |-> [i \in Observations |->
     [tier |-> trace[i].tier, correct |-> trace[i].action = "accept" /\ res.solved]]]

NoRecord == [cacheHit |-> FALSE, tiers |-> <<>>]

-----------------------------------------------------------------------------
(* The phases. *)

Resting == {"idle", "done", "failed"}

Running == [st |-> "running", cands |-> <<>>]
NoWork  == /\ tier' = 1 /\ cands' = <<>> /\ carried' = {}
           /\ repair' = [round |-> 0, quotes |-> {}]
           /\ chosen' = 0
           /\ outs' = [k \in Tiers |-> Running]

InitWork == /\ tier = 1 /\ cands = <<>> /\ carried = {}
            /\ repair = [round |-> 0, quotes |-> {}]
            /\ chosen = 0
            /\ outs = [k \in Tiers |-> Running]

FirstConf == [testModel |-> CHOOSE m \in TestModels : TRUE, cert |-> NoCert,
              deadline |-> FALSE, shadow |-> FALSE]

Init ==
  /\ specs = [p \in Problems |-> NoSpec]
  /\ solutions = {}
  /\ failures = [p \in Problems |-> {}]
  /\ solves = 0
  /\ conf = FirstConf
  /\ problem \in Problems
  /\ pc = "idle" /\ ctx = "live" /\ spec = NoSpec
  /\ InitWork
  /\ res = NoResult /\ trace = <<>>
  /\ prompted = {} /\ consulted = [k \in Tiers |-> 0]
  /\ observed = NoRecord

\* A process starts, with the flags its user gave it.
StartSolve ==
  /\ pc \in Resting
  /\ solves < MaxSolves
  /\ solves' = solves + 1
  /\ \E m \in TestModels, c \in Certificates, d \in DeadlineModes, s \in ShadowModes :
       conf' = [testModel |-> m, cert |-> c, deadline |-> d, shadow |-> s]
  /\ problem' \in Problems
  /\ pc' = "spec" /\ ctx' = "live" /\ spec' = NoSpec
  /\ NoWork
  /\ res' = NoResult /\ trace' = <<>>
  /\ prompted' = {} /\ consulted' = [k \in Tiers |-> 0]
  /\ observed' = NoRecord
  /\ UNCHANGED disk

\* Solve returns an error; finish is not called.
Fail(why) ==
  /\ pc' = "failed"
  /\ res' = [res EXCEPT !.err = why]
  /\ NoWork
  /\ UNCHANGED <<disk, job, ctx, spec, trace, history, observed>>

\* Where Solve goes once it has the oracle.
AfterSpec == IF conf.shadow \/ ~CacheEnabled THEN "cascade" ELSE "cache"

\* spec, on a hit of the test cache.  The stored author is not looked at: in the
\* model spec.author is what the file says.
ReuseSpec ==
  /\ pc = "spec"
  /\ CacheEnabled /\ specs[problem] # NoSpec
  /\ spec' = specs[problem]
  /\ pc' = AfterSpec
  /\ UNCHANGED <<disk, job, ctx, work, res, trace, history, observed>>

\* spec, on a miss: the test model writes the suite and it is stored.
GenerateSpec ==
  /\ pc = "spec"
  /\ ~(CacheEnabled /\ specs[problem] # NoSpec)
  /\ \E o \in Oracles :
       spec' = [author |-> conf.testModel, vis |-> o.vis, hid |-> o.hid]
  /\ specs' = IF CacheEnabled THEN [specs EXCEPT ![problem] = spec'] ELSE specs
  /\ pc' = AfterSpec
  /\ UNCHANGED <<solutions, failures, job, ctx, work, res, trace, history, observed>>

\* spec, when the call fails or its text does not parse.
SpecFails ==
  /\ pc = "spec"
  /\ ~(CacheEnabled /\ specs[problem] # NoSpec)
  /\ MayFail
  /\ Fail("spec")

\* tryCache: the first retrieved entry that passes both partitions of this
\* query's oracle is the answer.
CacheHit ==
  /\ pc = "cache"
  /\ \E H \in Retrieve : \E h \in H :
       /\ MayPassBoth(h.source)
       /\ \A g \in H : Outranks(g, h) => MayBeRefuted(g.source)
       /\ res' = [res EXCEPT !.solved = TRUE, !.source = h.source,
                             !.acceptedAt = CacheArm, !.score = 100]
  /\ pc' = "finish"
  /\ UNCHANGED <<disk, job, ctx, spec, work, trace, history, observed>>

\* tryCache: nothing retrieved, or all of it refuted.
CacheMiss ==
  /\ pc = "cache"
  /\ \E H \in Retrieve : \A h \in H : MayBeRefuted(h.source)
  /\ pc' = "cascade"
  /\ UNCHANGED <<disk, job, ctx, spec, work, res, trace, history, observed>>

\* finish, of a solve that found nothing.
FinishUnsolved ==
  /\ pc = "finish" /\ ~res.solved
  /\ pc' = "done"
  /\ NoWork
  /\ UNCHANGED <<disk, job, ctx, spec, res, trace, history, observed>>

\* Bug: a contaminated answer is admitted too.
AdmissibleAnyway == res.acceptedAt # CacheArm /\ res.score >= CacheAdmitAt

Admissible == res.acceptedAt # CacheArm /\ res.score >= CacheAdmitAt /\ ~res.contaminated

\* finish, of a solve that has an answer: admission, then the record.
Finish ==
  /\ pc = "finish" /\ res.solved
  /\ solutions' =
       IF Admissible
       THEN PutSolution([problem |-> problem, source |-> res.source, score |-> res.score,
                         tier |-> res.acceptedAt, oracle |-> spec.author])
       ELSE solutions
  /\ observed' = Record
  /\ pc' = "done"
  /\ NoWork
  /\ UNCHANGED <<specs, failures, job, ctx, spec, res, trace, history>>

\* SIGINT, or the deadline, at any moment of a solve.
ContextDone ==
  /\ pc \notin Resting
  /\ ctx = "live"
  /\ \/ "signal" \in Faults /\ ctx' = "cancelled"
     \/ conf.deadline /\ ctx' = "expired"
  /\ UNCHANGED <<disk, job, pc, spec, work, res, trace, history, observed>>

\* The process is killed.  Each file of the cache is written whole or not at all
\* (CacheStore looks inside a write).
Crash ==
  /\ pc \notin Resting
  /\ "crash" \in Faults
  /\ Fail("killed")

RouterStep == \/ ReuseSpec \/ GenerateSpec \/ SpecFails
              \/ CacheHit \/ CacheMiss
              \/ FinishUnsolved \/ Finish
=============================================================================
