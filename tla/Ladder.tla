-------------------------------- MODULE Ladder --------------------------------
(***************************************************************************)
(* One fan-out, from inside (cascade.go sampleTierN and verifyOne,         *)
(* verify/ladder.go, verify/workspace.go): goroutines of one errgroup, at  *)
(* most limit at once, each of which draws a program and runs it up the    *)
(* verifier ladder.  The rungs up to the types run in the process, the     *)
(* others are children of the go command that a timeout, the deadline, a   *)
(* signal or the failure of a sibling may kill.                            *)
(*                                                                         *)
(* Router takes the whole fan-out for one step; MCLadder shows that the    *)
(* reports it assumes there are the ones this module returns.              *)
(***************************************************************************)
EXTENDS Integers, FiniteSets

CONSTANTS
  N,         \* samples of the tier
  Limits,    \* the values Router.limit may have: goroutines at once
  Programs, NoProgram,
  Facts,     \* Facts[p] = [stage, racy, concurrent, allocates, complex, tests, quotes]
  Suites,    \* generated suites: [vis, hid, visRuns, hidRuns, benches]
  OptionSets,\* the Options of a run: [skipRace, maxAllocs, maxComplexity]
  Faults     \* a subset of {"timeout", "provider", "signal"}

Slots == 1..N

\* The rungs a program can fail before any test runs, and the rung of the tests,
\* in the order of verify.Stage.
Rungs == <<"parse", "stdlib", "types", "build", "vet", "test">>

ASSUME LadderAssumption ==
  /\ N \in Nat /\ Limits \subseteq Nat \ {0} /\ NoProgram \notin Programs
  /\ Suites \subseteq [vis : SUBSET Programs, hid : SUBSET Programs, visRuns : BOOLEAN,
                       hidRuns : BOOLEAN, benches : BOOLEAN]
  /\ OptionSets \subseteq [skipRace : BOOLEAN, maxAllocs : BOOLEAN, maxComplexity : BOOLEAN]
  /\ \A p \in Programs : /\ Facts[p].stage \in 1..6
                         /\ Facts[p].racy \in BOOLEAN /\ Facts[p].concurrent \in BOOLEAN
                         /\ Facts[p].quotes \subseteq {"visible", "hidden"}

VARIABLES
  suite, opts, limit,  \* what this solve verifies against, and how many at once
  ctx,          \* the context of the solve: "live", "cancelled" or "expired"
  gctx,         \* the context of the group, which a failing member cancels too
  failed,       \* the group has an error
  at,           \* where each goroutine is
  src, rep,     \* its candidate: the program and the report
  acc,          \* what Accept reported of it
  owner,        \* the goroutine that holds Ladder.mu; 0 is nobody
  outcome,      \* "running", then what sampleTierN returned
  lateAt        \* history: the rungs whose child was late

given == <<suite, opts, limit>>
cand  == <<src, rep, acc, lateAt>>
vars  == <<given, ctx, gctx, failed, at, cand, owner, outcome>>

Fresh == [ok |-> TRUE, failedAt |-> "none", timedOut |-> FALSE, tests |-> "none", quotes |-> {}]

Init ==
  /\ suite \in Suites /\ opts \in OptionSets /\ limit \in Limits
  /\ ctx = "live" /\ gctx = "live" /\ failed = FALSE
  /\ at = [i \in Slots |-> "waiting"]
  /\ src = [i \in Slots |-> NoProgram] /\ rep = [i \in Slots |-> Fresh]
  /\ acc = [i \in Slots |-> FALSE] /\ lateAt = [i \in Slots |-> {}]
  /\ owner = 0 /\ outcome = "running"

-----------------------------------------------------------------------------
(* The goroutines. *)

Ended   == {"done", "aborted"}
Places  == {"waiting", "generate", "parse", "lock", "types", "build", "vet", "test",
            "race", "bench", "complexity", "accept"} \cup Ended
Running == {i \in Slots : at[i] \notin Ended \cup {"waiting"}}

\* errgroup.Go, called once per sample in order, waits for a free place.
Start(i) ==
  /\ at[i] = "waiting" /\ \A j \in 1..(i - 1) : at[j] # "waiting"
  /\ Cardinality(Running) < limit
  /\ at' = [at EXCEPT ![i] = "generate"]
  /\ UNCHANGED <<given, ctx, gctx, failed, cand, owner, outcome>>

GoTo(i, place) == at' = [at EXCEPT ![i] = place]

Refute(i, stage, late, quotes) ==
  /\ rep' = [rep EXCEPT ![i] = [@ EXCEPT !.ok = FALSE, !.failedAt = stage, !.timedOut = late,
                                         !.quotes = quotes]]
  /\ GoTo(i, "done")

\* The model answers with a program, or with no code in its text, which is a
\* refuted candidate and no error.
Generate(i) ==
  /\ at[i] = "generate"
  /\ \/ \E p \in Programs : src' = [src EXCEPT ![i] = p] /\ GoTo(i, "parse") /\ UNCHANGED rep
     \/ Refute(i, "parse", FALSE, {}) /\ UNCHANGED src
  /\ UNCHANGED <<given, ctx, gctx, failed, acc, lateAt, owner, outcome>>

\* The provider or the scratch directory fails: the goroutine returns the error and
\* the group's context is cancelled.
Abort(i) ==
  /\ at[i] = "generate"
  /\ "provider" \in Faults \/ gctx # "live"
  /\ failed' = TRUE
  /\ gctx' = IF gctx = "live" THEN "cancelled" ELSE gctx
  /\ GoTo(i, "aborted")
  /\ UNCHANGED <<given, ctx, cand, owner, outcome>>

\* Rungs of Run that a program gets over on its own merits.  A test run of a suite
\* without tests that match ends with status zero.
Passes(p, n) ==
  p \in suite.vis \/ Facts[p].stage > n \/ (n = 6 /\ ~suite.visRuns /\ Facts[p].stage = 6)

\* Analyse and the import filter.
Static(i) ==
  /\ at[i] = "parse"
  /\ IF \A n \in 1..2 : Passes(src[i], n) THEN GoTo(i, "lock") /\ UNCHANGED rep
     ELSE Refute(i, Rungs[Facts[src[i]].stage], FALSE, {})
  /\ UNCHANGED <<given, ctx, gctx, failed, src, acc, lateAt, owner, outcome>>

\* typecheck: the importer is shared, so its users take turns.
Lock(i) ==
  /\ at[i] = "lock" /\ owner = 0
  /\ owner' = i /\ GoTo(i, "types")
  /\ UNCHANGED <<given, ctx, gctx, failed, cand, outcome>>

\* Bug: an early return forgets the lock.
OwnerKept(ok) == IF ok THEN 0 ELSE owner

OwnerAfter(ok) == 0

Types(i) ==
  /\ at[i] = "types"
  /\ owner' = OwnerAfter(Passes(src[i], 3))
  /\ IF Passes(src[i], 3) THEN GoTo(i, "build") /\ UNCHANGED rep
     ELSE Refute(i, "types", FALSE, {})
  /\ UNCHANGED <<given, ctx, gctx, failed, src, acc, lateAt, outcome>>

-----------------------------------------------------------------------------
(* Child processes. *)

\* What Workspace.run can return of a child that would succeed or not: err is its
\* status, late that a deadline, its own or that of the solve, had passed when it
\* ended.  A child that ended in time may be late all the same when it is looked at,
\* and a cancelled one is killed and not late.  Left out: a machine on which a child
\* cannot be started or dies for lack of memory, which reads as a failure of its own.
Results(succeeds) ==
  {r \in [err : BOOLEAN, late : BOOLEAN] :
     /\ ~r.err => succeeds
     /\ r.err /\ ~r.late => ~succeeds \/ gctx = "cancelled"
     /\ r.late => "timeout" \in Faults \/ gctx = "expired"
     /\ gctx = "expired" => r.late}

\* stageFrom.
StageOK(r) == ~r.err /\ ~r.late

\* What vet complains of: it compiles the hidden tests too.
VetQuotes(p) == IF Passes(p, 5) THEN {} ELSE Facts[p].quotes

\* Bug: the test rung runs both partitions.
QuotesBoth(p, stage) == IF stage = "vet" THEN VetQuotes(p) ELSE {"visible", "hidden"}

\* What a diagnostic of the rung may quote.
Quotes(p, stage) == IF stage = "vet" THEN VetQuotes(p) ELSE {"visible"}

Note(i, stage, r) == lateAt' = [lateAt EXCEPT ![i] = IF r.late THEN @ \cup {stage} ELSE @]

Build(i) ==
  /\ at[i] = "build"
  /\ \E r \in Results(Passes(src[i], 4)) :
       /\ Note(i, "build", r)
       /\ IF StageOK(r) THEN GoTo(i, "vet") /\ UNCHANGED rep ELSE Refute(i, "build", r.late, {})
  /\ UNCHANGED <<given, ctx, gctx, failed, src, acc, owner, outcome>>

Vet(i) ==
  /\ at[i] = "vet"
  /\ \E r \in Results(Passes(src[i], 5)) :
       /\ Note(i, "vet", r)
       /\ IF StageOK(r) THEN GoTo(i, "test") /\ UNCHANGED rep
          ELSE Refute(i, "vet", r.late, Quotes(src[i], "vet"))
  /\ UNCHANGED <<given, ctx, gctx, failed, src, acc, owner, outcome>>

\* Bug: a partition without tests passes.
AnyTests(runs) == TRUE

\* A test stage that ran no test at all is a refutation.
SomeTests(runs) == runs

Test(i) ==
  /\ at[i] = "test"
  /\ \E r \in Results(Passes(src[i], 6)) :
       /\ Note(i, "test", r)
       /\ IF StageOK(r) /\ SomeTests(suite.visRuns)
          THEN /\ GoTo(i, "race")
               /\ rep' = [rep EXCEPT ![i].tests = Facts[src[i]].tests]
          ELSE Refute(i, "test", r.late, Quotes(src[i], "test"))
  /\ UNCHANGED <<given, ctx, gctx, failed, src, acc, owner, outcome>>

\* The race stage is skipped under a deadline, and for a source that uses no concurrency
\* of its own (static.go:41-50), whatever the goroutines of the tests do with it.
Race(i) ==
  /\ at[i] = "race"
  /\ IF opts.skipRace \/ ~Facts[src[i]].concurrent
     THEN GoTo(i, "bench") /\ UNCHANGED <<rep, lateAt>>
     ELSE \E r \in Results(~Facts[src[i]].racy) :
            /\ Note(i, "race", r)
            /\ IF StageOK(r) THEN GoTo(i, "bench") /\ UNCHANGED rep
               ELSE Refute(i, "race", r.late, Quotes(src[i], "race"))
  /\ UNCHANGED <<given, ctx, gctx, failed, src, acc, owner, outcome>>

\* The allocation bound is read off whatever the benchmark printed, however it ended;
\* if that is nothing, the stage is skipped.
Bench(i) ==
  /\ at[i] = "bench"
  /\ IF ~opts.maxAllocs THEN GoTo(i, "complexity") /\ UNCHANGED <<rep, lateAt>>
     ELSE \E r \in Results(TRUE), measured \in BOOLEAN :
            /\ measured => suite.benches
            /\ StageOK(r) => measured = suite.benches
            /\ Note(i, "bench", r)
            /\ IF measured /\ Facts[src[i]].allocates THEN Refute(i, "bench", FALSE, {})
               ELSE GoTo(i, "complexity") /\ UNCHANGED rep
  /\ UNCHANGED <<given, ctx, gctx, failed, src, acc, owner, outcome>>

Complexity(i) ==
  /\ at[i] = "complexity"
  /\ IF opts.maxComplexity /\ Facts[src[i]].complex THEN Refute(i, "parse", FALSE, {})
     ELSE GoTo(i, "accept") /\ UNCHANGED rep
  /\ UNCHANGED <<given, ctx, gctx, failed, src, acc, lateAt, owner, outcome>>

\* verifyOne runs the held-out partition on every survivor.
Accept(i) ==
  /\ at[i] = "accept"
  /\ \E r \in Results(src[i] \in suite.hid \/ ~suite.hidRuns) :
       acc' = [acc EXCEPT ![i] = StageOK(r) /\ SomeTests(suite.hidRuns)]
  /\ GoTo(i, "done")
  /\ UNCHANGED <<given, ctx, gctx, failed, src, rep, lateAt, owner, outcome>>

-----------------------------------------------------------------------------
\* Bug: the error of errgroup.Wait is dropped.
AfterWaitDropped == "returned"

AfterWait == IF failed THEN "error" ELSE "returned"

Return ==
  /\ outcome = "running" /\ \A i \in Slots : at[i] \in Ended
  /\ outcome' = AfterWait
  /\ UNCHANGED <<given, ctx, gctx, failed, at, cand, owner>>

\* SIGINT, or the deadline of a latency-bounded run.
Interrupt ==
  /\ outcome = "running" /\ ctx = "live"
  /\ \/ "signal" \in Faults /\ ctx' = "cancelled"
     \/ opts.skipRace /\ ctx' = "expired"
  /\ gctx' = IF gctx = "live" THEN ctx' ELSE gctx
  /\ UNCHANGED <<given, failed, at, cand, owner, outcome>>

Step(i) == \/ Start(i) \/ Generate(i) \/ Abort(i) \/ Static(i) \/ Lock(i) \/ Types(i)
           \/ Build(i) \/ Vet(i) \/ Test(i) \/ Race(i) \/ Bench(i) \/ Complexity(i) \/ Accept(i)

Work == Return \/ \E i \in Slots : Step(i)
Next == Work \/ Interrupt

\* Children end by their timeouts, calls to a provider by the client's own.
Spec == Init /\ [][Next]_vars /\ WF_vars(Work)

-----------------------------------------------------------------------------
Report == [ok : BOOLEAN, timedOut : BOOLEAN, quotes : SUBSET {"visible", "hidden"},
           failedAt : {"none", "parse", "stdlib", "types", "build", "vet", "test", "race", "bench"},
           tests : {"none"} \cup {Facts[p].tests : p \in Programs}]

\* Places, reports and the lock are what the code can have.
TypeOK ==
  /\ suite \in Suites /\ opts \in OptionSets /\ limit \in Limits
  /\ ctx \in {"live", "cancelled", "expired"} /\ gctx \in {"live", "cancelled", "expired"}
  /\ failed \in BOOLEAN /\ outcome \in {"running", "returned", "error"}
  /\ at \in [Slots -> Places]
  /\ src \in [Slots -> Programs \cup {NoProgram}]
  /\ \A i \in Slots : at[i] \notin Ended \cup {"waiting", "generate"} => src[i] \in Programs
  /\ rep \in [Slots -> Report]
  /\ \A i \in Slots : rep[i].ok <=> rep[i].failedAt = "none"
  /\ acc \in [Slots -> BOOLEAN] /\ owner \in Slots \cup {0} /\ DOMAIN lateAt = Slots

\* The program has the defect that its refutation names.
Guilty(p, stage) ==
  \/ p = NoProgram /\ stage = "parse"
  \/ p \in Programs /\ \/ p \notin suite.vis /\ stage = Rungs[Facts[p].stage]
                       \/ stage = "race" /\ Facts[p].racy
                       \/ stage = "bench" /\ Facts[p].allocates
                       \/ stage = "parse" /\ Facts[p].complex
                       \/ stage = "test" /\ ~suite.visRuns

\* "OK==false means the candidate is incorrect" (ladder.go:85), unless a clock or a
\* signal did it: a report that sampleTierN returns was not spoiled by a sibling
\* whose failure cancelled the group (cascade.go:684-727).
RefutationsAreEarned ==
  outcome = "returned" /\ ctx # "cancelled" =>
    \A i \in Slots : ~rep[i].ok /\ ~rep[i].timedOut => Guilty(src[i], rep[i].failedAt)

\* A survivor passed visible tests that ran, the complexity bound, and the race detector
\* if its source uses concurrency and no deadline dropped the rung; what Accept took
\* also passed held-out tests that ran (ladder.go:219-322).
SurvivorsAreEarned ==
  \A i \in Slots : at[i] = "done" =>
    LET p == src[i]
    IN /\ rep[i].ok =>
            /\ p \in Programs
            /\ p \in suite.vis /\ suite.visRuns
            /\ Facts[p].racy /\ Facts[p].concurrent => opts.skipRace
            /\ opts.maxComplexity => ~Facts[p].complex
       /\ acc[i] => rep[i].ok /\ p \in suite.hid /\ suite.hidRuns

\* "a timeout must not be scored as a pass" (ladder_test.go:959, ladder.go:66-79):
\* a candidate one of whose children was late is refuted, and marked.
TimeoutIsARefutation ==
  \A i \in Slots : lateAt[i] # {} => ~rep[i].ok /\ rep[i].timedOut

\* "The gate is deterministic, so skipping costs nothing against risk" (ladder.go:245-246,
\* README.md:72-73): where no deadline drops the rung, no survivor has a race that the
\* detector would report.
SkippingCostsNothing ==
  \A i \in Slots : at[i] = "done" /\ rep[i].ok /\ ~opts.skipRace => ~Facts[src[i]].racy

\* Whatever fails, the fan-out returns: the lock of the type checker is given back
\* and every place of the group comes free (cascade.go:684-728, ladder.go:365-388).
FanOutEnds == <>(outcome # "running")
=============================================================================
