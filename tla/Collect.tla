------------------------------- MODULE Collect -------------------------------
(***************************************************************************)
(* Collecting records (cmd/go-cascade/main.go: calibrate with its modes,   *)
(* estimator, selfconsistency) with the profilers of internal/cascade.     *)
(*                                                                         *)
(* A command walks the problems of a benchmark in order.  For each one it  *)
(* makes a fixed sequence of calls - of a model, or of go on a candidate - *)
(* and appends a row, which it checkpoints to its records file, or, when   *)
(* two oracles are compared, to two files one after the other.  The        *)
(* process may be killed, and a signal may end its context; the operator   *)
(* then starts it again with -resume, until a run got through every        *)
(* problem.                                                                *)
(*                                                                         *)
(* What a call yields is abstracted to what the records depend on: whether *)
(* a tier has a survivor, the oracle gate's verdict, the seeds harvested,  *)
(* and spoiled, the calls whose children the end of the context killed and *)
(* whose verdict the row nevertheless holds.                               *)
(***************************************************************************)
EXTENDS Mutation, Sequences, Functions

CONSTANTS
  Modes,      \* the commands modelled
  Problems,   \* how many problems the benchmark has
  Generated,  \* for each problem, the kinds of suite it may be given
  Tiers,      \* how many tiers
  Levels,     \* strictness levels of the seeded sweep
  Sites,      \* the edits of a solution that the seeded sweep harvests
  LateRuns,   \* the sets of children of one harvest that may together run out of time
  MaxSeeds,   \* -judge-seed
  MaxFaults   \* bound on signals, kills, failed calls and failed writes

Suites == {"sound", "wrong", "malformed", "mismatch"}

\* Config.Validate wants a tier; the levels of strictness are three.
ASSUME CollectAssumption ==
  /\ Modes \subseteq {"calibrate", "judge", "compare", "sweep", "seeded", "estimator",
                      "selfconsistency"}
  /\ Problems \in Nat /\ Tiers \in Nat \ {0} /\ Levels \in Nat \ {0}
  /\ MaxSeeds \in Nat /\ MaxFaults \in Nat
  /\ Sites \in Seq([builds : BOOLEAN, plain : BOOLEAN, race : BOOLEAN, report : BOOLEAN])
  /\ LateRuns \subseteq SUBSET ((DOMAIN Sites) \X (1..2)) /\ {} \in LateRuns
  /\ Generated \in [1..Problems -> SUBSET Suites]

VARIABLES
  mode, kind,  \* the command, and the kind of its seeds
  suite,       \* what the generated suite of each problem is
  disk,        \* the records files: [main, judge], each a sequence of rows
  mem,         \* the records in memory, likewise
  cert,        \* the rows the saved certificate was computed from
  phase,       \* "off", "loop", "work", "write", "write judge"
  closing,     \* the problems are behind, the last checkpoint is being made
  at, pc, row, \* the problem, its next call and its row
  ctx,         \* the context has ended
  short,       \* this run was interrupted or skipped a problem
  settled,     \* the last run got through every problem
  runs, faults

vars == <<mode, kind, suite, disk, mem, cert, phase, closing, at, pc, row, ctx,
          short, settled, runs, faults>>

fixed == <<mode, kind, suite>>

None == [main |-> <<>>, judge |-> <<>>]

Ids(rows) == {r.id : r \in Range(rows)}

-----------------------------------------------------------------------------
(* The calls of each command, in order.                                    *)

\* What is called once for a problem, and what once for every tier (of the levels of
\* strictness of ProfileStrictnessReplay, one stands for all).
Profile == [once |-> <<"spec", "gate", "plan">>, round |-> <<"check", "sample", "accept">>]

ProfileJudge ==
  [once |-> <<"spec", "plan">>, round |-> <<"check", "sample", "judge", "accept">>]

\* Bug: the judge rules before the tests run.
JudgeRulesFirst ==
  [once |-> <<"spec", "gate", "plan">>, round |-> <<"check", "sample", "judge", "accept">>]

ProfilePaired ==
  [once |-> <<"spec", "gate", "plan">>, round |-> <<"check", "sample", "accept", "judge">>]

ProfileStrictnessReplay ==
  [once |-> <<"spec", "plan">>, round |-> <<"check", "sample", "accept", "judge">>]

EstimateOracleGap ==
  [once |-> <<"spec", "plan">>,
   round |-> <<"check", "sample", "accept", "canonical", "mutants">>]

\* A round is a seed at a level of strictness here.
ProfileSeeded == [once |-> <<"spec", "plan", "sample", "harvest">>, round |-> <<"judge">>]

SelfConsistency ==
  [once |-> <<"spec", "plan", "sample", "sample", "text", "accept">>, round |-> <<>>]

Calls ==
  CASE mode = "calibrate" -> Profile
    [] mode = "judge" -> ProfileJudge
    [] mode = "compare" -> ProfilePaired
    [] mode = "sweep" -> ProfileStrictnessReplay
    [] mode = "estimator" -> EstimateOracleGap
    [] mode = "seeded" -> ProfileSeeded
    [] mode = "selfconsistency" -> SelfConsistency

Rounds == IF mode = "seeded" THEN Cardinality(row.seeds) * Levels ELSE Tiers

LastCall == Len(Calls.once) + Rounds * Len(Calls.round)

Call ==
  IF pc <= Len(Calls.once) THEN Calls.once[pc]
  ELSE Calls.round[1 + ((pc - 1 - Len(Calls.once)) % Len(Calls.round))]

\* What is done to the representative is not done where there is none.
Skipped ==
  \/ Call \in {"accept", "canonical", "mutants", "harvest"} /\ ~row.won
  \/ Call = "judge" /\ mode # "seeded" /\ ~row.won

-----------------------------------------------------------------------------
(* The oracle gate (cascade.go).                                           *)

\* What becomes of the reference solution: where it was refuted, and whether the
\* suite is seen to compile against its own stub.  late: the clock, a resource bound
\* or a missing workspace decided it, and not the reference or the suite.
RefRuns(s) ==
  {run \in [failedAt : {"none", "workspace", "compile", "behaviour", "accept"},
            late : BOOLEAN, stub : BOOLEAN] :
     /\ run.failedAt = "none" => s = "sound" /\ ~run.late
     /\ s \in {"malformed", "mismatch"} => run.failedAt \in {"workspace", "compile"}
     /\ run.stub => s # "malformed"
     /\ ~run.late => /\ s = "sound" => run.failedAt \in {"none", "workspace"}
                     /\ s = "wrong" => run.failedAt # "compile"
                     /\ run.stub = (s # "malformed")}

\* A reference whose children are killed looks refuted at any rung.
AnyRefRun ==
  {[failedAt |-> f, late |-> FALSE, stub |-> b] :
     f \in {"none", "compile", "behaviour", "accept"}, b \in BOOLEAN}

\* Bug: a reference that does not compile is always an unsound suite.
MismatchIsUnsound(run) == IF run.failedAt = "none" THEN "sound" ELSE "unsound"

ValidateOracle(run) ==
  CASE run.failedAt = "none" -> "sound"
    [] run.failedAt \in {"behaviour", "accept"} -> "unsound"
    [] run.failedAt = "workspace" -> "inconclusive"
    [] run.failedAt = "compile" -> IF run.stub THEN "inconclusive" ELSE "unsound"

\* For the properties: a suite without a fault was found unsound.
Unlucky(s, run) ==
  run.late /\ s \in {"sound", "mismatch"} /\ ValidateOracle(run) = "unsound"

-----------------------------------------------------------------------------
(* One run of the command.                                                 *)

Blank ==
  [id |-> 0, draw |-> 0, won |-> FALSE, oracle |-> "sound", late |-> FALSE,
   seeds |-> {}, slow |-> {}, judged |-> 0, spoiled |-> {}]

NewRow == [Blank EXCEPT !.id = at, !.draw = runs]

\* Bug: a row counts as finished once every seed was taken up.
SeedsTakenUp(r) ==
  r.judged = Cardinality(r.seeds) * Levels \/ Cardinality(r.seeds) = 1 + r.judged \div Levels

\* Every seed was judged at every level.
SeededComplete(r) == r.judged = Cardinality(r.seeds) * Levels

\* Bug: the file is not read.
LoadsNothing(d) == None

\* The rows of a file whose judging is complete, in their order: SelectSeq, in a form
\* that can be reasoned about.
Nth(I, k) == CHOOSE i \in I : Cardinality({j \in I : j < i}) = k - 1

Complete(rows) ==
  LET I == {i \in DOMAIN rows : SeededComplete(rows[i])}
  IN [k \in 1..Cardinality(I) |-> rows[Nth(I, k)]]

\* What a resumed run starts from: the sweep over levels does not resume, and the
\* seeded sweep drops the rows whose judging stopped short.
Load(d) ==
  IF mode = "sweep" THEN None
  ELSE IF mode = "seeded" THEN [d EXCEPT !.main = Complete(d.main)]
  ELSE d

\* Bugs: the judge's file says what is done; nothing is.
DoneByJudge == IF mode = "compare" THEN Ids(mem.judge) ELSE Ids(mem.main)
NothingDone == {}

\* The problems a run skips.
Done == Ids(mem.main)

TwoArms == mode \in {"compare", "sweep"}

Start ==
  /\ phase = "off" /\ ~settled
  /\ phase' = "loop" /\ mem' = Load(disk) /\ runs' = runs + 1
  /\ UNCHANGED <<fixed, disk, cert, closing, at, pc, row, ctx, short, settled, faults>>

\* Nothing but the files outlives a run.
Off ==
  /\ phase' = "off" /\ closing' = FALSE /\ at' = 1 /\ ctx' = FALSE /\ short' = FALSE
  /\ mem' = None

\* The loop over the problems stops at the end of the context, but for the sweep
\* over levels, which does not look.
SkipDone ==
  /\ phase = "loop" /\ at <= Problems /\ at \in Done /\ at' = at + 1
  /\ UNCHANGED <<fixed, disk, mem, cert, phase, closing, pc, row, ctx, short, settled, runs, faults>>

StopLoop ==
  /\ phase = "loop"
  /\ IF at > Problems THEN short' = short
     ELSE at \notin Done /\ ctx /\ mode # "sweep" /\ short' = TRUE
  /\ phase' = "write" /\ closing' = TRUE
  /\ UNCHANGED <<fixed, disk, mem, cert, at, pc, row, ctx, settled, runs, faults>>

TakeProblem ==
  /\ phase = "loop" /\ at <= Problems /\ at \notin Done /\ (~ctx \/ mode = "sweep")
  /\ phase' = "work" /\ row' = NewRow
  /\ UNCHANGED <<fixed, disk, mem, cert, closing, at, pc, ctx, short, settled, runs, faults>>

AtCall(kinds) == phase = "work" /\ pc <= LastCall /\ ~Skipped /\ Call \in kinds

Passes(r, cancelled) ==
  /\ pc' = pc + 1 /\ row' = r /\ ctx' = cancelled
  /\ UNCHANGED <<fixed, disk, mem, cert, phase, closing, at, short, settled, runs>>

\* The profiler returns an error: the problem is skipped, or the loop stops.
Abandon ==
  /\ phase' = "loop" /\ at' = at + 1 /\ short' = TRUE
  /\ pc' = 1 /\ row' = Blank
  /\ UNCHANGED <<fixed, disk, mem, cert, closing, ctx, settled, runs>>

\* One sample, the probe, may be all that the budget of self-consistency buys.
BudgetSpent == mode = "selfconsistency" /\ pc = 4

SkipCall ==
  /\ phase = "work" /\ pc <= LastCall /\ (Skipped \/ BudgetSpent)
  /\ Passes(row, ctx) /\ UNCHANGED faults

\* A provider fails, or its call is made under an ended context.
CallFails ==
  \/ ctx /\ UNCHANGED faults
  \/ faults < MaxFaults /\ faults' = faults + 1

Check ==
  /\ AtCall({"check"})
  /\ IF ctx THEN Abandon ELSE Passes([row EXCEPT !.won = FALSE], ctx)
  /\ UNCHANGED faults

\* A planner's failure is not one.  A judge's leaves the seeded sweep's row as far
\* as it got, to be kept.
CallModel ==
  /\ AtCall({"spec", "plan", "judge"})
  /\ \/ /\ ~ctx /\ UNCHANGED faults
        /\ IF Call = "judge" THEN Passes([row EXCEPT !.judged = @ + 1], ctx)
                             ELSE Passes(row, ctx)
     \/ /\ CallFails
        /\ IF Call = "plan" THEN Passes(row, ctx)
           ELSE IF Call = "judge" /\ mode = "seeded"
             THEN /\ mem' = [mem EXCEPT !.main = Append(@, row)]
                  /\ phase' = "write" /\ short' = TRUE /\ pc' = 1 /\ row' = Blank
                  /\ UNCHANGED <<fixed, disk, cert, closing, at, ctx, settled, runs>>
             ELSE Abandon

\* A tier is sampled and its candidates verified: once for a tier, twice for one
\* vote of self-consistency.
CallSample ==
  /\ AtCall({"sample"})
  /\ \E survives \in BOOLEAN :
       LET won == survives \/ (mode = "selfconsistency" /\ row.won)
       IN \/ ~ctx /\ UNCHANGED faults /\ Passes([row EXCEPT !.won = won], ctx)
          \/ /\ ~ctx /\ faults < MaxFaults /\ faults' = faults + 1
             /\ Passes([row EXCEPT !.won = won, !.spoiled = @ \cup {"sample"}], TRUE)
          \/ CallFails /\ Abandon

\* A child of go runs to its end, or the end of the context kills it.
ChildEnds(whole, cut) ==
  \/ ~ctx /\ UNCHANGED faults /\ Passes(whole, ctx)
  \/ ~ctx /\ faults < MaxFaults /\ faults' = faults + 1 /\ Passes(cut, TRUE)
  \/ ctx /\ UNCHANGED faults /\ Passes(cut, ctx)

CallGate ==
  /\ AtCall({"gate"})
  /\ \E run \in RefRuns(suite[at]), cut \in AnyRefRun :
       ChildEnds([row EXCEPT !.oracle = ValidateOracle(run), !.late = Unlucky(suite[at], run)],
                 [row EXCEPT !.oracle = ValidateOracle(cut), !.spoiled = @ \cup {"gate"}])

CallVerify ==
  /\ AtCall({"accept", "text", "canonical", "mutants"})
  /\ ChildEnds(row, [row EXCEPT !.spoiled = @ \cup {Call}])

\* The row of a harvest.  For the properties: the seeds whose deciding run the clock
\* ended.
Harvested(late, lost, last) ==
  LET seeds == Harvest(Sites, MaxSeeds, kind, lost, last)
  IN [row EXCEPT !.seeds = seeds, !.slow = {i \in seeds : <<i, 2>> \in late}]

\* Children may run out of their time; the end of the context ends one and starts no more.
CallHarvest ==
  /\ AtCall({"harvest"})
  /\ \E late \in LateRuns,
        cut \in IF ctx THEN {<<1, 1>>} ELSE (DOMAIN Sites) \X (1..3) :
       ChildEnds(Harvested(late, late, Len(Sites)),
                 [Harvested(late, late \cup {cut}, cut[1]) EXCEPT
                    !.spoiled = @ \cup {"harvest"}])

\* The row is whole: both arms get it, and all but the sweep checkpoint.
Append1 ==
  /\ phase = "work" /\ pc > LastCall
  /\ mem' = [main |-> Append(mem.main, row),
             judge |-> IF TwoArms THEN Append(mem.judge, row) ELSE mem.judge]
  /\ IF mode = "sweep" THEN phase' = "loop" /\ at' = at + 1
                       ELSE phase' = "write" /\ at' = at
  /\ pc' = 1 /\ row' = Blank
  /\ UNCHANGED <<fixed, disk, cert, closing, ctx, short, settled, runs, faults>>

\* After the checkpoint: the next problem, or the certificate and the end.
Onward ==
  IF ~closing
    THEN /\ phase' = "loop" /\ at' = at + 1
         /\ UNCHANGED <<mem, cert, closing, ctx, short, settled>>
    ELSE /\ Off /\ settled' = ~short
         /\ cert' = IF /\ mode \in {"calibrate", "judge"}
                       /\ \E r \in Range(mem.main) : r.oracle # "unsound"
                      THEN Range(mem.main) ELSE cert

\* A checkpoint replaces a file whole, by a rename.
WriteMain ==
  /\ phase = "write"
  /\ disk' = [disk EXCEPT !.main = mem.main]
  /\ IF TwoArms THEN /\ phase' = "write judge"
                  /\ UNCHANGED <<mem, cert, closing, at, ctx, short, settled>>
     ELSE Onward
  /\ UNCHANGED <<fixed, pc, row, runs, faults>>

WriteJudge ==
  /\ phase = "write judge"
  /\ disk' = [disk EXCEPT !.judge = mem.judge]
  /\ Onward
  /\ UNCHANGED <<fixed, pc, row, runs, faults>>

-----------------------------------------------------------------------------
(* Faults.                                                                 *)

Signal ==
  /\ phase # "off" /\ ~ctx /\ faults < MaxFaults
  /\ ctx' = TRUE /\ faults' = faults + 1
  /\ UNCHANGED <<fixed, disk, mem, cert, phase, closing, at, pc, row, short, settled, runs>>

\* The process is killed, or ends on a failed write: memory is lost.
Kill ==
  /\ phase # "off" /\ faults < MaxFaults
  /\ Off /\ faults' = faults + 1 /\ pc' = 1 /\ row' = Blank
  /\ UNCHANGED <<fixed, disk, cert, settled, runs>>

Init ==
  /\ mode \in Modes
  /\ kind \in IF mode = "seeded" THEN {"logic", "race", "scar-free"} ELSE {"logic"}
  /\ suite \in
       IF mode \in {"calibrate", "compare"}
         THEN {s \in [1..Problems -> Suites] : \A p \in 1..Problems : s[p] \in Generated[p]}
         ELSE {[p \in 1..Problems |-> "sound"]}
  /\ disk = None /\ mem = None /\ cert = {}
  /\ phase = "off" /\ closing = FALSE /\ at = 1 /\ pc = 1
  /\ runs = 0 /\ faults = 0 /\ row = Blank
  /\ ctx = FALSE /\ short = FALSE /\ settled = FALSE

Run ==
  \/ SkipDone \/ StopLoop \/ TakeProblem \/ SkipCall \/ Check \/ CallModel
  \/ CallSample \/ CallGate \/ CallVerify \/ CallHarvest \/ Append1
  \/ WriteMain \/ WriteJudge

Next == Start \/ Run \/ Signal \/ Kill

Spec == Init /\ [][Next]_vars

\* The operator starts the command again until it got through, and the process is
\* scheduled.
FairSpec == Spec /\ WF_vars(Start) /\ WF_vars(Run)

-----------------------------------------------------------------------------

Rows == Range(disk.main) \cup Range(disk.judge) \cup Range(mem.main) \cup Range(mem.judge)

Finished(r) == mode = "seeded" => r.judged = Cardinality(r.seeds) * Levels

\* Paid work is kept (main.go:2194-2200, 775-779): a finished row that reached its
\* file stays there, whatever kills, signals and resumed runs follow.
CompletedWorkIsKept ==
  [][mode # "sweep" =>
       \A r \in Range(disk.main) : Finished(r) => r \in Range(disk'.main)]_vars

\* No problem is recorded twice in a file, so none counts twice in a rate.
OneRowPerProblem ==
  \A f \in {disk.main, disk.judge} : Len(f) = Cardinality(Ids(f))

\* The two arms of a comparison ruled on the same candidates (judge.go:150-168):
\* what the two files hold of one problem is of one draw, and the judge's arm has no
\* problem the execution arm has not.
ArmsShareADraw ==
  mode = "compare" =>
    /\ \A e \in Range(disk.main), j \in Range(disk.judge) : e.id = j.id => e.draw = j.draw
    /\ Ids(disk.judge) \subseteq Ids(disk.main)

\* A suite that the row says refuted its own reference did so or was malformed, or
\* the reference or the suite's own stub ran out of time or had no workspace
\* (cascade.go:764-798): no mismatch of names, no signal excludes a problem.
ExclusionsAreEarned ==
  \A r \in Rows : r.oracle = "unsound" =>
    suite[r.id] \in {"wrong", "malformed"} \/ r.late

\* Where a model is asked after the children, a finished row holds no verdict of a
\* killed child: the question fails, and takes the row with it.  So the execution
\* truth a judge is measured against is sound wherever it ruled in the last tier.  The
\* edits a judge was shown in a row that counts as done build, and were refuted or ran
\* out of their own time; the scar-free ones were refuted by a race, whatever was late.
JudgedRowsAreSound ==
  \A r \in Range(disk.main) \cup Range(disk.judge) :
    /\ mode \in {"compare", "sweep"} /\ r.won => r.spoiled = {}
    /\ mode = "seeded" /\ SeededComplete(r) =>
         \A i \in r.seeds : /\ Sites[i].builds
                            /\ Refuted(Sites[i], kind) \/ i \in r.slow
                            /\ kind = "scar-free" => Sites[i].race /\ Sites[i].report

\* With finitely many faults the file comes to hold a finished row of every
\* problem, and the certificate, which an interrupted run also saves, to be
\* computed from all of them.
ResumeCompletes ==
  <>[](/\ Ids(disk.main) = 1..Problems /\ \A r \in Range(disk.main) : Finished(r)
       /\ (mode \in {"calibrate", "judge"} /\ \E r \in Range(disk.main) : r.oracle # "unsound")
            => cert = Range(disk.main))

\* A record holds what the program did, not what a signal did to it: "a cancelled
\* context is an external stop ... keep the records collected so far and stop
\* cleanly" (main.go:493-494).
RowsAreUnspoiled == \A r \in Range(disk.main) : r.spoiled = {}

\* "killed => provably wrong" (mutation.go:157-166, 209), and so any PASS is a false
\* acceptance (judge.go:381-384, 622): the tests refuted every edit that a judge was
\* shown in a row that counts as done.
SeedsAreProvablyWrong ==
  \A r \in Range(disk.main) :
    mode = "seeded" /\ SeededComplete(r) => \A i \in r.seeds : Refuted(Sites[i], kind)
=============================================================================
