------------------------------- MODULE Cascade -------------------------------
(***************************************************************************)
(* Router.Solve: the phases of Router with the two topologies of the       *)
(* cascade, over any number of runs, and the properties of the whole.      *)
(***************************************************************************)
EXTENDS Sequential, Speculative

\* What the program does by itself, as opposed to what is done to it.
Work == RouterStep \/ SequentialStep \/ SpeculativeStep

Next == StartSolve \/ ContextDone \/ Crash \/ Work

\* Solve is one goroutine that waits for nothing but its own calls: provider
\* calls and child processes end, the latter by their timeouts, so whatever it
\* can do next it does.
Fairness == WF_vars(Work)

Spec == Init /\ [][Next]_vars /\ Fairness

-----------------------------------------------------------------------------
Oracle    == [author : Models \cup {NoModel}, vis : SUBSET Programs, hid : SUBSET Programs]
Outcomes  == {Facts[p].tests : p \in Programs} \cup {"none"}
Report    == [ok : BOOLEAN, failedAt : Stages, tests : Outcomes, timedOut : BOOLEAN,
              quotes : SUBSET Texts]
Candidate == [source : Programs, report : Report]
Observation == [tier : Tiers, correct : BOOLEAN]

PCs == {"idle", "spec", "cache", "cascade", "tier", "sample", "route", "repair",
        "accept", "fanout", "holdout", "finish", "done", "failed"}

DiskTyped ==
  /\ specs \in [Problems -> Oracle]
  /\ solutions \subseteq Entry
  /\ failures \in [Problems -> SUBSET [source : Programs, quotes : SUBSET Texts]]

JobTyped ==
  /\ solves \in 0..MaxSolves
  /\ conf \in [testModel : TestModels, cert : Certificates \cup {NoCert},
               deadline : BOOLEAN, shadow : BOOLEAN]
  /\ problem \in Problems

ControlTyped ==
  /\ pc \in PCs
  /\ ctx \in {"live", "cancelled", "expired"}
  /\ spec \in Oracle

WorkTyped ==
  /\ tier \in 1..(NTiers + 1)
  /\ cands \in Seq(Candidate)
  /\ carried \subseteq Texts
  /\ repair \in [round : Nat, quotes : SUBSET Texts]
  /\ chosen \in Nat
  /\ outs \in [Tiers -> [st : {"running", "sampled", "failed"}, cands : Seq(Candidate)]]

Results == [solved : BOOLEAN, source : Programs \cup {NoSource}, acceptedAt : Arms,
            score : 0..100, certified : BOOLEAN, contaminated : BOOLEAN,
            err : {"", "spec", "planner", "coder", "ctx", "killed", "late"}]

Steps == [tier : Tiers, action : {"escalate", "repair", "reject", "accept"}]

ResultTyped == res \in Results /\ trace \in Seq(Steps)

HistoryTyped ==
  /\ prompted \subseteq Texts
  /\ consulted \in [Tiers -> Nat]
  /\ observed.cacheHit \in BOOLEAN
  /\ \A i \in DOMAIN observed.tiers : observed.tiers[i] \in Observation

TypeOK == /\ DiskTyped /\ JobTyped /\ ControlTyped
          /\ WorkTyped /\ ResultTyped /\ HistoryTyped

-----------------------------------------------------------------------------
(* What must hold. *)

\* Soundness of the answer (cascade.go:341, 434-455, 554-583).  Whichever arm or
\* tier it came from, repaired or retrieved, it passed both partitions of the
\* oracle of this query, and the race detector if its source uses concurrency and no
\* deadline dropped that rung.
AcceptedPassedItsOracle ==
  res.solved => /\ res.source \in spec.vis \cap spec.hid
                /\ conf.deadline \/ ~Races(res.source)

\* No shopping against the holdout (cascade.go:432-451, 514-518): the held-out
\* partition decides about at most one candidate of each tier, and a tier above
\* the accepted one is not consulted at all.
NoHoldoutShopping ==
  /\ \A k \in Tiers : consulted[k] <= 1
  /\ res.acceptedAt \in Tiers => \A k \in Tiers : k > res.acceptedAt => consulted[k] = 0

\* The verdict of the holdout stays held out (cascade.go:437-441, 517-518): no
\* prompt quotes what the held-out run said, in this solve or, by way of the
\* recorded failures, in a later one.
HoldoutOutcomeNeverPrompted == "heldout" \notin prompted

\* A certificate covers the answers its thresholds let through (trace.go:89-91):
\* a certified answer of a tier but the last reached that tier's threshold.
CertifiedMeansThresholdMet ==
  res.certified /\ res.acceptedAt \in 1..(NTiers - 1)
    => /\ res.acceptedAt <= Len(conf.cert.tau)
       /\ res.score >= conf.cert.tau[res.acceptedAt]

\* The flag tells the truth about the oracle (trace.go:98-99): it is up exactly
\* when the author of the tests that judged the answer also wrote its code.
ContaminationFlagged ==
  res.acceptedAt \in Tiers =>
    (res.contaminated <=>
       spec.author \in {Tier[res.acceptedAt].model, Tier[res.acceptedAt].planner, CascadePlanner})

\* No author grades its own work into the cache (cascade.go:230).
AdmittedByAnother ==
  \A e \in solutions : e.oracle \notin {Tier[e.tier].model, Tier[e.tier].planner}

\* Without a certificate the score of a repaired tier, one survivor in n + 1,
\* never reaches the prior threshold: a repair is only ever accepted at the last
\* tier (cascade.go:397-403, 421, 934).
UncalibratedRepairPaysOnlyAtTheLastTier ==
  \A i \in DOMAIN trace :
    /\ trace[i].action = "repair" /\ ~Calibrated
    /\ res.acceptedAt = trace[i].tier
    => trace[i].tier = NTiers

\* A calibration record calls correct exactly the tier whose answer was accepted
\* (cascade.go:255-268), and it is the last observation of the record.
RecordCallsTheAcceptedTierCorrect ==
  observed # NoRecord /\ ~observed.cacheHit =>
    \A i \in DOMAIN observed.tiers :
      observed.tiers[i].correct <=> /\ \A j \in DOMAIN observed.tiers : j <= i
                                    /\ observed.tiers[i].tier = res.acceptedAt

\* Agreement is worth no more than the fan-out is wide (cascade.go:127-140, 397-421): a
\* tier whose full fan-out in agreement would not reach its threshold never answers,
\* repaired or not, unless nothing is left to escalate to.
OnlyTiersInReachAnswer ==
  ~conf.deadline /\ res.acceptedAt \in 1..(NTiers - 1)
    => Threshold(res.acceptedAt) <= UnanimousScore(Tier[res.acceptedAt].samples)

\* No tier is counted more often than it worked (cascade.go:255-268, 893-915): a record has
\* at least one observation of every tier a sequential solve came to, at most one more for
\* each repair round it may spend there, and none of a tier above.
ObservationsAreAccounted ==
  observed # NoRecord /\ ~observed.cacheHit /\ ~conf.deadline =>
    \A k \in Tiers :
      LET n == Cardinality({i \in DOMAIN observed.tiers : observed.tiers[i].tier = k})
      IN IF k > res.acceptedAt THEN n = 0 ELSE n \in 1..(1 + Tier[k].repairDepth)

\* What is observed of a solve is what happened in it: which tier was right, how often
\* each was tried, and none that was not (cascade.go:255-268, 905).
RecordTellsTheSolve == RecordCallsTheAcceptedTierCorrect /\ ObservationsAreAccounted

\* The cheapest survivor wins (cascade.go:514-570) whatever the order in which
\* the tiers finish: a tier below the accepted one had nothing to offer or was
\* refused by the holdout.
CheapestSurvivorWins ==
  pc = "finish" /\ conf.deadline /\ res.acceptedAt # CacheArm =>
    \A k \in Tiers :
      /\ outs[k].st = "sampled" /\ Winners(outs[k].cands) # {}
      /\ res.solved => k < res.acceptedAt
      => consulted[k] = 1

\* The tiers a solve has something to say of.
Tried == {trace[i].tier : i \in DOMAIN trace}

\* A sequential solve comes back empty and without an error for one of two reasons
\* (cascade.go:197-204, 374-467).  Either every tier was tried, and the holdout, not the
\* score, turned the last survivor away; or a call was not answered in time, and then the
\* tiers tried are the cheapest ones, the last is not among them, and the holdout has
\* decided about nothing of the tier that was cut short or of one above it.
EmptyIsExhaustedOrLate ==
  pc = "done" /\ ~res.solved /\ ~conf.deadline =>
    IF res.err = ""
    THEN /\ Tried = Tiers
         /\ trace[Len(trace)].action = "reject" <=> consulted[NTiers] = 1
    ELSE \E k \in Tiers : /\ Tried = 1..(k - 1)
                         /\ \A j \in Tiers : j >= k => consulted[j] = 0

\* Every solve comes to an end.
EverySolveEnds == pc \notin Resting ~> pc \in Resting

\* The promise to the caller, in the terms of the router.
Phase == CASE pc = "idle" -> "idle"
           [] pc = "spec" -> "asked"
           [] pc \in {"done", "failed"} -> "over"
           [] OTHER -> "judging"

Suite(o) == [vis |-> o.vis, hid |-> o.hid]

Promise == INSTANCE VerifiedAnswer WITH
  Sources <- Programs, OraclePairs <- Oracles,
  NoAnswer <- NoSource, NoOracle <- Suite(NoSpec),
  phase <- Phase, oracle <- Suite(spec), answer <- res.source

\* The router implements the promise: one oracle per query, fixed before there
\* is an answer, and no answer it does not accept (cascade.go:170-204).
ImplementsPromise == Promise!ASpec

-----------------------------------------------------------------------------
(* What comments and documents of the repository say and the code does not.  *)

\* "TestH* (hidden) is the acceptance oracle and is never shown to a repair
\* prompt" (README.md:316-317): the source of the hidden tests is quoted in no
\* prompt, in this solve or, by way of the recorded failures, in a later one.
HiddenNeverPrompted == "hidden" \notin prompted

\* "OK==false means the candidate is incorrect" (ladder.go:85): what is remembered
\* as refuted does not pass both partitions.
RememberedFailuresAreWrong ==
  \A p \in Problems : \A f \in failures[p] :
    f.source \notin specs[p].vis \cap specs[p].hid
=============================================================================
