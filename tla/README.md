# TLA+ for go-cascade

go-cascade answers a programming query by asking cheap language models first.
Several candidates are drawn per tier, each is run up a ladder of verifiers,
the survivors are clustered by behaviour, and the size of the largest class
decides whether the tier's answer goes to a held-out acceptance test or the next
tier is tried. These modules model that decision process, the collection of the records it
is calibrated on, the calibration, and the provider it pays, check them with TLC
on small instances and prove the main results with TLAPS for all of them.

## 1. Inventory

| part | state it keeps | operations | what makes it correct |
|---|---|---|---|
| router, `internal/cascade/cascade.go` | one `Result` with its trace; the tier, fan-out and carried diagnostics of a solve | `Solve`: `spec`, `tryCache`, `sequential` or `speculative`, `repairLoop`, `acceptOne`, `finish` | the answer passed both partitions of this query's oracle; the holdout decides once per tier and its verdict leaks nowhere; certificates and flags say what happened |
| clustering, `internal/cluster` | none | `Group`, `Score`, `UnanimousScore`; `TextVote` for the baseline arm | a refuted class never wins; the score is a lower bound, monotone in evidence |
| cache, `internal/cache` | files: one suite per problem, admitted solutions, up to 64 refuted forms per problem | `PutSpec`/`GetSpec`, `PutSolution`/`Retrieve`, `AddFailure`/`Failures` | nothing retrieved is trusted; a crash leaves no half entry |
| verifier, `internal/verify` | a scratch workspace per candidate, child processes under a timeout | `Ladder.Run`, `Ladder.Accept`, `Mutate` | a refuted program is wrong, a survivor passed every rung that ran |
| calibration, `internal/calibrate` | none: records in, a certificate out | `Calibrate`, `Replay`, `Baselines`, `SelfConsistencyBudget`, `SweepAbsorption` | a valid certificate keeps its error rate; what does not vote changes nothing |
| calibration entry points, `cascade/{judge,estimator,selfconsistency,profile}.go` | one record in the making | `Profile`, `ProfileJudge`, `ProfilePaired`, `ProfileStrictnessReplay`, `ProfileSeeded`, `EstimateOracleGap`, `SelfConsistency`, `validateOracle` | an unsound oracle is excluded, and only such; what a judge is measured against was really run |
| configuration, `internal/config` | tiers, models, knobs | `Load`, `Validate` | the test author writes no code it grades; admission is reachable |
| providers, `internal/model` | per process: the profile of each model, what was warned of; shared: the account's profiles | `Generate`, `resolve`, `findProfile`, `ensureProfile` | spend goes to its model's row; one profile per name; a call ends |
| mutation testing, `internal/verify/mutation.go` | one scratch workspace | `KilledMutants`, `RaceKilledMutants`, `ScarFreeRaceKilledMutants`, `Mutate` | a seed builds and its suite refuted it |
| prompts, `internal/prompt` | none | formatting, extraction | the hidden tests are quoted nowhere |
| command line, `cmd/go-cascade` | records files and certificates | `solve`, `calibrate` (with a judge, `-compare`, sweeps), `estimator`, `selfconsistency`, `absorption` | no paid work is lost, doubled or mixed; a resumed collection is finished in the end |

Interaction: `main` builds one `Router` per process and calls `Solve`. The router
calls providers and the ladder (child processes) and blocks on them; under a
deadline one goroutine per tier does so at once. The processes of successive
solves share nothing but the cache directory. The collecting commands call the
profilers problem by problem and write what they return to a records file, which a
later process reads with `-resume`, and which `Calibrate` turns into the certificate
that `solve` loads. Processes also share the account's inference profiles. `SIGINT` and `Config.Deadline`
cancel one context that every call sees.

Hard parts: a context that ends at any moment of a call; tiers that end in any
order; contents of the cache that outlive the configuration and the oracle that
produced them; repairs, rejections and escalations in any mixture; a collection
that is killed or interrupted anywhere and resumed; two processes that make the same
profile; statistics at their edges. `PROJECT.json` lists each at its line ("hazards").

## 2. Modules

| module | models | notes |
|---|---|---|
| `Cluster` | `internal/cluster/cluster.go` | operators only; percents, rounded down, in place of floats |
| `Router` | state, ladder reports, cache, and the phases every solve shares | variables of the whole system |
| `Sequential` | `sequential`, `sampleTier`, `repairLoop`, `preferRepair` | one action per step of the tier loop |
| `Speculative` | `speculative` | one action per goroutine that ends |
| `Cascade` | `Solve` over any number of runs | composes the three, states the properties |
| `VerifiedAnswer` | what a caller is promised | the abstract specification |
| `CacheStore` | the writes of `internal/cache/cache.go`, from inside | several processes over one directory |
| `AtomicStore` | what one process may expect of these files | the abstract specification |
| `Ladder` | `sampleTierN` and `verifyOne`, `verify/ladder.go`, `verify/workspace.go` | one fan-out from inside: goroutines, rungs, child processes |
| `TextVote` | `internal/cluster/text.go` | operators only |
| `Config` | `internal/config/config.go`: `Validate`, the derived admission score | operators only |
| `Calibrate` | `calibrate/ltt.go`, `stats.go` | operators only, over sequences of records |
| `Offline` | `calibrate/baseline.go`, `selfconsistency.go`, `absorb.go` | what else is computed from records; extends `Calibrate` |
| `Certify` | records that come in one by one, and what a certificate may say of them | a history over `Offline`; states the properties |
| `Mutation` | the harvests of `verify/mutation.go` | operators only, over the sites of one source |
| `FanOut` | the reports of a `Ladder` fan-out beside those `Router` takes it to have | instantiates `Router` over `Ladder`'s suites and programs |
| `Evidence` | one fan-out that grows, beside the configurations it may be drawn under | over `Cluster`, `Config` and `TextVote` |
| `Collect` | the collecting commands of `main.go` and the profilers of `internal/cascade` | composes `Mutation` with the commands; processes that are killed and resumed |
| `Provider` | `model/bedrock.go`, `model/costtag.go` | goroutines of several processes over one account |
| `MCCluster`, `MCCascade`, `MCLadder`, `MCCalibrate`, `MCCollect`, `MCProvider` | instances for TLC | |
| `ClusterProofs`, `EvidenceProofs`, `CascadeProofs`, `CacheStoreProofs`, `LadderProofs`, `CertifyProofs`, `CollectProofs`, `ProviderProofs` | theorems | section 5 |

### How the state corresponds to the code

`specs`, `solutions` and `failures` are the three directories of the cache.
`conf` is what one process was started with. `pc` says which call of `Solve` runs
next. `tier`, `cands`, `carried`, `repair`, `chosen` are the locals of
`sequential` and `repairLoop`; `outs` is what the channel of `speculative` will
have delivered. `res` and `trace` are the `Result`; `trace` keeps the steps that
name a tier, which are those `record` reads. `prompted`, `consulted` and `observed`
are history variables: the texts quoted in a prompt, the acceptance runs per tier,
and the record handed to `Observe`.

A program is a model value described by `Facts`: the rung at which it fails if it
fails the visible tests, whether it is racy and shows it in its text, the outcomes it shows, and which test
text its vet diagnostic quotes. An oracle is a pair of sets of programs, those
that pass its visible and those that pass its held-out partition. A prompt is
the set of texts it quotes. So a solve chooses, for every sample, any program and
any report the ladder can return on it.

A step stands for a call together with the time it takes. `ctx` in a step is the
context as it is when the call ends; in a call during which the context became
done, any part may have run before and any part after. That is how a child
process killed by a signal comes to refute a correct program (`Reports`).

`Solve` takes every error that `Is` `DeadlineExceeded` for the end of `-deadline` and finishes
without an answer. A sequential solve has no deadline, but a call of a provider that runs
into its own timeout fails with such an error: `SampleTimesOut` is that step, beside
`SampleFails` for every other error. `res.err` is "late" after it; it is a history variable
there, since the code keeps nothing of the error, and section 6 says what that means.

`Router` takes a `Put` of the cache to be one step, and `Crash` to fall between
them; `CacheStore` is about what that stands on. `file[p][n]` is the file that name
`n` of path `p` leads to: none, one cut off by `O_TRUNC`, one with the bytes of two
writers, or a whole one. `fd[q]` is where the file that process `q` has open is
found now, since a rename by another process moves it. `Open`, `Fill` and `Rename`
are the three system calls of `writeJSON`; what an operation reads it reads
before the first of them, so another process may come between. `users` is chosen
once: the processes that use the directory in this behaviour.

`Router` also takes a fan-out to be one step, and gives every sample some report
of `Reports`. `Ladder` has the steps: `at[i]` is the place of the goroutine of sample
`i`, `gctx` the context of its errgroup, which a failing member cancels, `owner` the
holder of `Ladder.mu`, `rep[i]` and `acc[i]` the two reports of `verifyOne`.
`Results` is what `Workspace.run` can return of a child: a status, and whether a
deadline had passed when the status was looked at, which a child that ended with
success may find too. `FanOut` instantiates `Router` over `Ladder`'s suites and
programs and compares: every report of a returned fan-out is one `Router` assumes,
as far as the router can tell two reports apart (`Alike`). That holds, on `MCLadder` and
as a theorem (`RouterReportsSuffice`), while
`-max-allocs` and `-max-complexity` are unset, as they are by default; `Router` has no
programs that exceed those bounds. A racy program is one whose race the detector
would report in `RaceCount` runs of the tests, and `concurrent` what `UsesConcurrency` says
of its text; neither implies the other, and the rung is run for the programs that are
both (`Races`). Of the children, `Results` leaves out those that cannot be started or that
die for want of memory (`workspace.go:158-163`): to a rung both are a failure, as a kill is.

`Calibrate` and `Offline` have no state: a record is a problem with what each tier
scored, whether its answer was correct, and what it cost. Risks are counts of errors
and costs totals over a stream, compared at one length only, so the model needs no
division; the two p-values of `HoeffdingBentkus` are multiplied out and compared as
integers, exactly, with e as 2.719 in Bentkus's bound. `Certify` gives them a
history: records come in one by one, any of `Records`, so that an action property can
say what one more record may change; `MCCalibrate` takes the kinds of record in a fixed
order. A random permutation of `absorb.go` is every permutation, and
a random draw every draw of its size.

`Collect`: `disk` is the records files, `mem` what the process has read and appended,
`at` the problem, `pc` the call of its profiler that is next, `row` the record in the
making. A profiler is the sequence of its calls, since its only decisions are to skip
what needs a survivor and to return at the first error; every call may fail,
be cut by the end of the context, or end with it. What a row keeps is what the
properties tell apart: which run drew it (`draw`), whether the last tier has a
survivor (`won`), the verdict of the oracle gate, the seeds and how many were judged.
`spoiled` and `slow` are history variables: the calls whose child the end of the context
killed, and the seeds whose deciding run its own clock ended. In `Mutation` a child that is
`lost`, to its clock or to the context, is a failed one: a build that is lost drops the
edit, a test run that is lost makes it a seed.
`Kill` is a kill or an exit on a failed write. `writeJSONFile` writes to a temporary file with
a name of its own (`os.CreateTemp`), which a kill leaves behind and nobody reads, so a
checkpoint is one step and two for two arms. The rows of the tiers of one problem are one row.

`Provider`: `account` is the account's application profiles in the order they were made,
a profile's ARN its position. `arns`, `warned` and `holder` are the resolver of each
process: its map, what it warned of, and who has its lock, which `resolve` keeps over
both calls of the control plane. The control plane is external: it may fail, lose an
answer after it acted, or make a profile that is not yet usable; its creation is
idempotent in the token, which is the profile's name. The eight hexadecimal digits
of the 32-bit hash in long names (`costtag.go:326-328`) are taken to be free of collisions,
which at 32 bits is an assumption about the models of one account.

`Config` and `TextVote` are operators over a configuration and over a fan-out;
`Evidence` lets the fan-out grow, one candidate at a time, beside every configuration.

Left out: money, clocks and the mutation score (recorded, read by nobody); the
text of prompts and diagnostics; `MinSamplesFor`; the planner's text (a
planner is a call that can fail); errors of the cache's file operations (`_ =` in
the code); the cap of 64 remembered failures, which is in `CacheStore`. `verifyOne` inside `sampleTierN` also runs the held-out partition on
every survivor and discards the result; it changes nothing and is not an action.
Of `Collect`: a problem for which no budget
was recorded, a probe that cost nothing, and files that cannot be parsed.

## 3. Runs

| run | instance | question |
|---|---|---|
| `MCCluster` | fan-outs of up to 4, three sources of which two differ in layout only, two survivor behaviours, two refuting rungs; configurations of 1 or 2 tiers of up to 3 samples | is the score monotone in evidence; is what represents a class its simplest member; can every tier reach the score the cache admits from; does the vote depend on the order of samples |
| `MCSequential` | 2 tiers (2 samples + 1, one repair round), 3 programs, 2 solves of one problem, late tests, signals, calls that fail or time out, three certificates | is a sequential solve right, and the next one over its cache; what does an empty result mean; does a tier answer that could not reach its threshold; how often is a tier counted |
| `MCSpeculative` | 3 tiers, 4 programs, deadline, late tests, failing provider | is the cheapest survivor the answer in every order of completion |
| `MCTransfer` | 2 similar problems, 3 solves, two oracles that disagree, crashes, a test author that also codes | are retrieved answers verified again, and is own work kept out |
| `MCLiveness` | 2 tiers of one sample, both topologies, all faults but a kill | does every solve end; when can a repair pay |
| `MCCacheStore` | 2 processes, 3 forms with a cap of 2, 2 suites, 2 entries, 4 writes, kills anywhere | is what can be read sound; is the store atomic to a process that is alone |
| `MCLadder` | 2 samples, 1 or 2 at once, 7 programs, 3 suites (one with no visible and one with no held-out test), 3 settings of the options, late children, failing provider, signals | does a report mean what the router takes it for; does every fan-out end |
| `MCCalibrate` | every collection of up to 5 records of 2 or 3 tiers labelled by execution, and up to 3 of every other kind; alpha 1/2, delta 3/10, a grid of 0, 1, 2 | does a valid certificate hold for the population, over all draws of the sample; do the exclusions, the floor, the baselines, the budgets and the absorption sweep agree with it |
| `MCCollect` | 7 commands, 2 problems, 2 tiers, 2 faults (signal, kill, failed call or write), 3 ways in which children of a harvest are late, any number of runs | is a row lost, doubled or mixed from two draws; is an exclusion earned; what does a judge get measured against; is a collection finished in the end |
| `MCProvider` | 2 processes, 2 goroutines in one, 2 models whose IDs fold to one profile name, an empty account or one with another program's profile, one kill | is spend billed to its model and under one row; does every call end |

Two more runs show that a comment or a document says something the code does not
do; each has a finding in `PROJECT.json`:

* `BadVetQuotesHidden`: `go vet` compiles the hidden tests; its diagnostic about
  them is sent to the model by the repair loop.
* `BadInterruptedRow`: when `SIGINT` arrives during the last verification of a
  problem, no error is returned: the row is appended and checkpointed with the verdict
  of the killed child, and `-resume` takes the problem for done.

Six findings of the same kind have no run of their own. The statement is in
the module, and TLC refutes it when it is given to a run as an invariant:

* `CertifiedMeansThresholdMet` (`Cascade`) on `MCSpeculative` with `Certificates <- Certs`:
  the speculative topology applies no threshold and still reports `Certified`.
* `RememberedFailuresAreWrong` (`Cascade`) on `MCSequential`: a candidate whose `go`
  child was killed by `SIGINT` is remembered as refuted.
* `FilesAreNeverTorn` (`CacheStore`) on `MCCacheStore`: `writeJSON` uses one temporary
  name for all processes, so that one may rename what another has just truncated.
* `TimeoutIsARefutation` (`Ladder`) on `MCLadder`: a benchmark that hangs or dies before
  it prints is recorded as skipped, and its program passes the allocation bound.
* `SkippingCostsNothing` (`Ladder`) on `MCLadder`: the gate of the race rung reads the
  candidate alone. A program with shared state that the goroutines of its tests race is
  never shown to the detector, though "skipping costs nothing against risk".
* `SeedsAreProvablyWrong` (`Collect`) on `MCCollect`: a test run that times out counts as a
  kill, so an edit that nothing refuted is judged as "provably wrong".

The other findings in `PROJECT.json` come from reading alone (section 6).

### Bounds

`MaxSolves` bounds the runs: two are enough for one solve to find what another
left, three for a stored answer to be met under another problem and another
oracle. Two tiers have a tier with a threshold and a last tier without; three
tiers have an order of completion with a middle. Two samples are the least
that can agree or disagree; one repair round the least that can fail or succeed.
`CacheAdmitAt = 26` admits a unanimous single sample (0.26) and refuses less.
The programs of an instance are those its properties can tell apart: `good`
passes both partitions, `weak` the visible one only, `racy` passes both and fails
the race detector, `bad` fails the visible tests, `misfit` does not compile
with the hidden tests, `broken` does not parse, and `shared` of `MCLadder` races although
it holds no sign of concurrency. The suite `Twisted` accepts
`weak` only, so that an answer good for one problem is wrong for the other.

`MCCacheStore`: a third process adds no new relation between two writers of one
file; three forms exceed a cap of two, and four writes let the list be filled, be
cut, and be written by the other process in between.

`MCLadder`: two samples are a candidate and a sibling that fails, or two users of
the lock; a limit of one makes the second wait for the first. The programs fail
in the process (`broken`, `untyped`), in a child before the tests (`misfit`), at the
race detector, at an optional bound, or nowhere.

`MCCalibrate`: five records are a population of which a sample of two is drawn in 25
ways; with delta 3/10, alpha 1/2 a sample of two without an error is the least that is
certified (`MinCalibrationSize` is 2), so that every collection has certificates
that hold and ones that do not. No sample of two is certified at delta/3, so of Bonferroni's
method `PromiseKept` only says here that it certifies nothing; and `NoWarmthNoGap` looks at a
cache that absorbs nothing, where every pattern of absorption is the same. `ShadowFloor` is 2 in place of 30, so that both sides of it are met.

`MCCollect`: two problems are one that is behind and one that is to come; two faults
are an interruption and one that meets the resumed run, and runs without a fault
follow by themselves. The five sites are one for each way a harvest may treat an
edit; two seeds at two levels are the least that can stop short in either. `LateRuns` are
the children of one harvest that run out of time together: none; the test run of the
edit that survives, alone or with that of one that is refuted; a build and a test run. In
the proofs they are any.

`MCProvider`: two goroutines of one process meet at its lock, two processes at the
account; two models that share a profile name are the case `wrapsModel` is for. One call
each is enough, since the table is shared; a kill empties it.

`CHECK_DEADLOCK FALSE`: after `MaxSolves` solves, `MaxOps` writes, the calls of a worker or
the last problem, nothing is left to do.

## 4. Fairness

`WF_vars(Work)`: the router is one goroutine waiting for calls that end. Child
processes end by `TestTimeout`, provider calls by the client's own limits, and
nothing else holds a lock for long. No fairness is assumed of signals, deadlines,
kills or of users starting solves, and none of a provider ever working: a call
may fail every time. `EverySolveEnds` needs no more because repair rounds, tiers
and goroutines are all finite in number. `FanOutEnds` has `WF_vars(Work)` of `Ladder` for the
same reasons: one step of some goroutine is always taken while there is one, which
is less than fairness to each of them.

`Collect!FairSpec` has `WF_vars(Run)`, the process is scheduled and its calls end by the
same timeouts, and `WF_vars(Start)`: the operator runs the command again until it got
through, which is what its message asks for. Faults are finitely many, and a problem
that was skipped for an error is tried again by the next run: `ResumeCompletes` would be
false for a model that always fails. `Provider!FairSpec` has weak fairness of each goroutine;
a waiter for the lock needs no strong fairness because the holders before it are
finitely many, and retries are bounded. Nothing is assumed of the control plane.

## 5. Proofs

All eight modules are checked by `tlapm` from nothing, for every value of the
constants that satisfies the named assumptions, which TLC evaluates on the runs:

| assumption | says | because |
|---|---|---|
| `TiersAssumption`, `CacheAssumption`, `RunAssumption`, `ProgramsAssumption` (`Router`) | the types of tiers, knobs and tables | `Config.Validate` refuses the rest |
| `StoreAssumption` (`CacheStore`) | the cap is positive | it is the constant 64 |
| `LadderAssumption` (`Ladder`) | the types of programs, suites and options | |
| `SuitesAssumption` (`FanOut`) | a partition without a test lets nothing pass | `ladder.go:232`, `314` |
| `CollectAssumption` (`Collect`) | types of the bounds, the sites and the late children; that none may be late | |
| `ProviderAssumption` (`Provider`) | the account has no profile name twice at the start | the control plane refuses a second one |
| `CalibrateAssumption` (`Calibrate`), `OfflineAssumption` (`Offline`), `RecordsAssumption` (`Certify`) | alpha and delta are positive and less than one; the types of records; a score is at most `Top` | `config.go:229`, `ltt.go:319` and the types of `calibrate.Record`; that delta is below one is not checked by the code and not used by a proof |
| `ConfigsAssumption` (`Evidence`) | the types of `config.Config`; no tier is wider than the fan-out may grow | whole percents in place of floats |

Nothing is assumed of the numbers of processes, goroutines, samples, problems, tiers,
runs or solves, except that they are numbers or sets.

`ClusterProofs`. The Wilson bound in whole percents is the number of percents that
clear a quadratic inequality. The cleared set grows with the successes
(`WilsonMonotone`) and shrinks with the samples (`WilsonAntitone`), and a class has no
more members than the fan-out, so `UnanimityBounds`: no fan-out of width n scores
above `UnanimousScore(n)`. Fewer samples in agreement are worth no more than more
of them (`UnanimityGrows`), and a repaired candidate, which is the lone survivor of its
fan-out, scores no more than that fan-out would in agreement (`LoneIsWithinReach`).
`SurvivorWins`, `WinnersSurvived` and `RepIsMember` (some class wins as soon as one
candidate survived, and what represents it did), `OneInMany` and `LoneSurvivor` (one
survivor of several scores below one half) are used below.

`EvidenceProofs`. Where the newcomer goes decides what it does to the classes (`Grown`):
it joins one of them or founds its own, and the others stay. A survivor that joins the
only leading class moves the score from k of n to k + 1 of n + 1, which clears
every percent that was cleared before (`WilsonDiagonal`); every other newcomer leaves
some class of the smaller fan-out as large as the winner, over fewer samples. That is
`ScoreFollowsEvidence`, for any candidates and any width. `UnanimityGrows` makes the
narrowest tier the least and the widest the greatest unanimous score, so `AdmissionIsReachable`: for every configuration
`Consistent` accepts, a derived admission score is reached by an agreeing fan-out of any
tier, and an explicit one is refused exactly when none could reach it.

What represents a class is the one member that comes before all others, being simpler or, of
equals, drawn first (`RepIsFirst`); a class of the grown fan-out has the members it had, and
the newcomer at most (`RepOfGrown`), and whoever is heavier than another member is not the one
(`SimplerThanRep`). So the newcomer takes the place of the representative exactly when it
behaves alike and is simpler: `RepresentativeStays`.

The vote on texts is two folds over sequences, recursive functions whose recursion has a
solution (`FoldsExist`), hence unfold one element at a time (`FoldsByPrefix`). The tally of
the first k samples has one class for each text seen, with all its members, represented by the
simplest and, among equals, the first (`TallyIs`; `TallySeen` and `TallyNew` are its
steps). The second fold ends with a class that none beats (`BestRight`). Two facts about
`Better` finish the argument: it orders classes of different texts totally
(`BeatsOrders`), and it looks at what the order of the samples cannot change. So one class at most
can be `Elected` (`ElectedOnce`), whatever order the samples come in: `VoteIsOrderFree`,
for any number of them.

`CascadeProofs`. `AcceptedPassedItsOracle` is not inductive: an accept step looks at
the held-out partition only, and the visible half is known from a report made
several steps earlier. `IInv` carries that knowledge across the steps:

* `ReportsEarned`: a report that says OK, in the fan-out or in any tier's
  outcome, was earned from this solve's oracle;
* `NoReportsBeforeTheOracle`: so it matters that no report exists while the
  oracle can still change;
* `FanOutInHand`, `TierInRange`: between routing and acceptance there is a
  fan-out of this tier and `chosen` is a survivor in it;
* `NoAnswerYet`, `AnswerIsWhole`, `SuitesAreWhole`: an answer appears once, with a
  source and an arm, and a stored suite is one the test model wrote.

`Invariance` is `Spec => []IInv`, one lemma per group of actions; `TypeCorrectness`
and `Soundness` follow. From `IInv` each step of the router is a step of
`VerifiedAnswer` or changes nothing the caller sees: `RouterImplementsPromise`.

The second part of the module has one invariant for each thing the router promises
beyond that, over `IInv` and over one step relation (`StepIs`) in which the ways a solve can fail are one:

* `HoldoutStaysHeldOut`: `HeldOutUnquoted` follows the quotes through the diagnostics in
  hand, the repair and the recorded failures, by which a later solve could get them;
* `NoShopping`, `CheapestWins`: the tiers from the current one on were not consulted
  (`TiersInTurn`), and the ones below had no survivor or were refused (`OffersRefused`);
* `CertifiedCoverage`: whoever is at acceptance has met its threshold (`ThresholdsMet`).
  The theorem has two conditions because the code needs them. The speculative
  topology looks at no threshold (a finding); and a certificate shorter than the tiers
  but one leaves a tier that has no threshold and is accepted at all the same, since
  thresholds are applied by position (section 6);
* `FlagIsTrue`, for a suite this run's test model wrote, and `NobodyGradesHimself`, for a
  cache that only ever saw one test model: a suite stored by another one comes back without
  its author, and the flag is wrong both ways (section 6). `AuthorsKnown` is the invariant;
* `RecordIsTrue`, the first half of `RecordTellsTheSolve`: an acceptance is the last step of a
  trace and names the tier of the answer (`AcceptEndsTrace`);
* `EmptyIsAccountedFor`: the trace climbs the tiers and leaves none out (`TraceClimbs`), also
  where a call that timed out ended it (`TimesOutIs`);
* `RepairsPayOnlyAtTheLastTier`: a repair starts from a fan-out without a survivor and adds
  at most one, so that it scores below one half (`LoneSurvivor`), the uncertified threshold,
  in a fan-out of any width;
* `OutOfReachEscalates`: a score in hand is at most what the tier's full fan-out scores in
  agreement (`WithinReach`). This is kept when a repaired candidate joins, since a fan-out in
  which it is the only survivor scores below what it would in agreement, so a tier whose
  threshold lies above that never gets past the comparison;
* `RecordIsAccounted`, all of it: `TriesCounted` follows the trace of a tier through its rounds. A
  sequential tier leaves one step, and one more for each repair round that failed, and the loop
  counts those (`TriesGrow`, `TriesGoOn`); `TraceClimbs` says that no tier is left out.

`CacheStoreProofs`. A file is typed and whole files are sound (`FilesTyped`) only
because of what writers hold: `SoundToWrite` says that the bytes of every writer
in progress would be a sound file. For a process that is alone, `UsersWrite` (only
users write, and a file is open exactly between the open and the write), `LoneWriterHasItsFile` (an open file is the temporary
one, since nobody renames it away) and `LoneWriterReadTheLatest` (its list was
derived from what can still be read) are what makes the rename one step of
`AtomicStore`. The conjunction is inductive; `ReadersAreSafe`, `OneWriterIsEnough` (a lone
writer never leaves a torn file under an entry's name) and `StoreIsAtomic` follow.

`LadderProofs`. `RefutationsAreEarned` speaks of returned fan-outs only, since before
that a killed sibling may well stand refuted. What is inductive: a cancelled group
has a failed member or a signal behind it (`CancelledForAReason`), so that while
neither is there every refutation no clock made is the program's own
(`RefutationsSoFar`), and a fan-out with a failed member is never returned
(`ReturnedWhole`). For `SurvivorsAreEarned`, `Past` records with each place what a
candidate that got there has passed. `RefutationsEarned` and `SurvivorsEarned` hold for
any number of samples and places, and for racy programs whatever their text: what
`SurvivorsEarned` says of the race detector has the gate of the rung as its condition, and
needs it (`SkippingCostsNothing`). `RouterReportsSuffice` adds to that what a report
owes to the clocks, the options and the text of `go vet` (`Conforms`): every
report of a returned fan-out is one that `Router` chooses from. So what the router's
theorems say of any choice of reports covers the fan-outs the ladder can really produce.

`CertifyProofs`. A total is a fold of the library, a recursive function over the subsets of
its positions. That the recursion has a solution (`SumsExist`), and that a table which is
nowhere greater has no greater total (`SumsGrow`), goes by a subset of least size that would
refute it, since the least member of a set of numbers (`Least`, `BySubsets`) needs no
theorem that takes an operator. From there:

* `ExcludedForGood` (action property): a record that is excluded changes neither `Used` nor
  the choice of the shadow stream, and a certificate looks at its stream only (`OnlyTheStream`);
* `SoundOracle`: with more than one tier the grid is finite and has a vector (`GridIsFinite`),
  both orders on it are total (`LexOrders`, `WalkOrders`), so `Cheapest` is a vector that
  passed (`CheapestIsOne`, `ValidPassed`) and its risk, which is the realized one when labels
  are execution truth (`SoundRisk`), lies under alpha. The condition is the code's: a grid
  without a vector is valid untested (section 6);
* `StricterCostsMore`: a stricter policy stops at no earlier tier (`StricterServesLater`), so
  pays for no shorter prefix of the tiers (`PrefixGrows`), and buys no fewer samples (`DivGrows`);
* `NothingAbsorbed`: nothing dropped leaves one residual and one stream, the whole sample;
* `FloorExact`: below `MinCalibrationSize` no stream, however flawless, certifies anything, and
  from it on a flawless stream does. Powers and factorials are recursions over the naturals
  whose tables exist and agree (`ProductsDefined`), from which the arithmetic of powers
  follows (`PowerSplits`, `PowerGrows`). The first bound asks for as much as it does of a
  stream without an error, or more (`HoeffdingNeedsEnough`); the tail of the second contains the
  term of no error (`BentkusNeedsEnough`); so whatever is rejected has a stream that is long
  `Enough`, and being so is upward closed (`EnoughGrows`). The walk starts at the strictest
  vector (`WalkStartsStrict`), which on a flawless stream passes. The theorem asks that
  the search for the floor is not cut off by the bound `SizeCap` of the model, which the
  instance satisfies, and for more than one tier, as `SoundOracle` does;
* `CertificatesFit`: a certificate has a threshold of the grid for each tier of its records
  but the last. So the second condition of `CertifiedCoverage` is met by any certificate in
  use, as long as as many tiers are configured as it was calibrated on, which the code does
  not check (section 6). No run states it, because it relates a certificate to the records it
  came from, and the router's runs choose their certificates freely.

`CollectProofs`. A file has no problem twice (`NoProblemTwice`) because the problem at work
has no row in memory (`AtWork`), and the file has no finished row that memory has not
(`MemoryHasTheFile`), through kills between the two files of a comparison;
`ComparisonIsPaired` because the judge's arm is part of the execution arm
(`JudgeArmIsPart`). What a row may say depends on where its profiler was when the
context ended: `WorkSound` ties the verdict and the killed children of the row at work
to the next call, from which `ExclusionsEarned` and `JudgedSoundly` follow; what a harvest
returns is `HarvestIsSound`, whichever of its children are lost. `WorkIsKept` is the
action property that no step of a command other than the sweep, which starts its file
anew, takes a finished row away.

`ProviderProofs`. A process's table leads to profiles that wrap the model and bear its
tag, in an account whose names differ (`TableIsRight`, `NamesDiffer`); that stays so because
whoever looks a model up holds the lock and finds no entry (`LookedUpAlone`), and because
a name once made keeps its model (`AccountGrows`). What a goroutine sends through all its
attempts is what its process settled on (`SendsSettled`). `BillingIsRight`, `NoSplitRows` and
`AttributionSettles` follow.

Only model-checked:

* `EverySolveEnds`, `FanOutEnds`, `ResumeCompletes`, `EveryCallEnds`: liveness under fairness;
* `PromiseKept`: it weighs all the draws of a sample against alpha, a counting argument over
  binomial tails that the provers have no facts about;
* `CertifiedMeansThresholdMet`, `ContaminationFlagged` and `AdmittedByAnother` without the
  conditions above: they hold on the instances of the runs that list them.

## 6. Seen while reading, not a run

* A failed repair round is a trace step that `record` turns into an observation of
  its own (`cascade.go:255`, `905`); `ltt.go:27` describes one per tier.
  `RecordTellsTheSolve` says how many there can be.
* `Solve` swallows every `DeadlineExceeded` (`cascade.go:200`), also that of one provider call
  that timed out in a solve without a deadline: the caller is told that no candidate
  survived the ladder, though no candidate came back and the dearer tiers were not tried.
* `Observe` is "called once per solved query" and not for an unsolved one
  (`cascade.go:209`), so its stream is a stream of successes.
* `recordFailure` of a candidate the holdout refused does nothing, since its
  visible report is OK (`cascade.go:442`, `949`).
* A tier planner's error ends the solve (`cascade.go:674`), against the comment at
  `658`; a cascade planner's error does not.
* `spec` returns a cached suite without its author, and `contaminated` then compares
  with this run's `TestModel`: after that changed, the flag is wrong both ways.
* Without a certificate a tier of two samples that is not the last escalates always:
  two of two score 0.42, below the prior of 0.5 that `cascade.go:131` calls a bare
  majority.
* A candidate over the complexity limit is refuted at `V0:parse` after its tests
  passed (`ladder.go:285`), so it is clustered with those that do not parse.
* `Calibrate` on an empty grid is valid with nothing tested (`ltt.go:391`), and a sound
  oracle then trips the warning of a nominal certificate, against `ltt.go:473-477`.
* A certificate is applied by position to whatever tiers are configured.
* `calibrate -resume` and `compare` drop the error of `loadRecords` (`main.go:466`,
  `1142`): a malformed records file counts as empty and is overwritten.
* `compare` killed between its two files leaves a problem in the execution arm that
  the judge's arm never gets (`main.go:1158-1163`), so the two printed risks are of
  different samples. What the two files hold of a problem is of one draw
  (`ArmsShareADraw`): the judge's arm is always part of the execution arm.
* `validateOracle` excludes a problem whose reference, or whose own stub, only ran out
  of time (`cascade.go:812`, `859`).
* The mutation score is measured on the representative, accepted or not
  (`estimator.go:138`).
* `ScarFreeRaceKilledMutants` may return nothing although a later site races
  (`mutation.go:850`), which is recorded as a fact about the program.
* `findProfile` returns an error where its comment says not-found (`costtag.go:202`).
* A query that ends while a model is being resolved leaves the model untagged for
  the rest of the process (`costtag.go:111-124`); `AttributionIsSettled` says that it at
  least stays so and was warned of.

## 7. Not modelled

* `internal/prompt`: text in, text out. What a prompt quotes is in the router's actions;
  the wording, the fences and headings a reply is searched for are not. A reply that
  cannot be parsed is a call that failed.
* `internal/verify/static.go` and the edits of `mutation.go`: functions of a Go syntax
  tree. Their verdicts are choices in `Ladder` and `Sites` in `Mutation`.
* `Mutate`'s score, costs in money, durations, seeds and nonces: recorded and printed,
  read by no decision that is modelled.
* The mock provider, `ListModels`, `inspect`-like subcommands (`models`, `cache`), the printed
  tables, the benchmarks and their results.
* The canonical form of a source (`cache/canonical.go`, `canonicalText`): a model value and
  the table `TextKey`.
* Floats: scores are whole percents or steps, p-values exact fractions.

## 8. Plan

1. Done: `Cluster`, `Router`, `Sequential`, `Speculative`, `Cascade`, `VerifiedAnswer`;
   `CacheStore`, `AtomicStore`; `Ladder`; their runs and proofs.
2. Done: `Calibrate`, `Offline`, `Mutation`, `Collect`, `Provider`, `Config`, `TextVote` and their
   runs. The runs are at the number this project keeps to.
3. Done: the theorems of section 5. Every safety and action property a run checks is the
   statement of a theorem, but for those listed there as only model-checked.
4. Left: `PromiseKept` for every sample size, which needs facts about binomial tails. Two
   hazards of the ladder have no property that holds: what the code does there is a finding.
