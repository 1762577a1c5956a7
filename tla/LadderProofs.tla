----------------------------- MODULE LadderProofs -----------------------------
(***************************************************************************)
(* What the reports of a fan-out mean, for any number of samples, places   *)
(* in the group, programs, suites and faults.                              *)
(***************************************************************************)
EXTENDS FanOut, TLAPS

\* The group's context is cancelled only by a signal or by a failed member.
CancelledForAReason == gctx = "cancelled" => failed \/ ctx = "cancelled"

\* A refutation that no clock made, while nothing is cancelled, is the program's own.
RefutationsSoFar ==
  ~failed /\ ctx # "cancelled" =>
    \A i \in Slots : ~rep[i].ok /\ ~rep[i].timedOut => Guilty(src[i], rep[i].failedAt)

\* Until it is refuted, a candidate has passed every rung below the one it is at.
PassedSoFar(p, place) ==
  /\ place \in {"lock", "types"} => p \in suite.vis \/ Facts[p].stage >= 3
  /\ place = "build" => p \in suite.vis \/ Facts[p].stage >= 4
  /\ place = "vet" => p \in suite.vis \/ Facts[p].stage >= 5
  /\ place = "test" => p \in suite.vis \/ Facts[p].stage >= 6
  /\ place \in {"race", "bench", "complexity", "accept", "done"} => p \in suite.vis /\ suite.visRuns
  /\ place \in {"bench", "complexity", "accept", "done"} => (Facts[p].racy /\ Facts[p].concurrent => opts.skipRace)
  /\ place \in {"accept", "done"} => (opts.maxComplexity => ~Facts[p].complex)

Past == \A i \in Slots : rep[i].ok => PassedSoFar(src[i], at[i])

\* A report is final when it is refuted, and Accept speaks last.
FinalWhenRefuted ==
  \A i \in Slots : /\ ~rep[i].ok => at[i] = "done"
                   /\ at[i] = "done" /\ rep[i].ok => src[i] \in Programs
                   /\ acc[i] => /\ at[i] = "done" /\ rep[i].ok
                                /\ src[i] \in suite.hid /\ suite.hidRuns

\* A goroutine that waits has no candidate.
NothingDrawnYet ==
  \A i \in Slots : at[i] \in {"waiting", "generate", "aborted"} => src[i] = NoProgram

ReturnedWhole == outcome = "returned" => ~failed /\ \A i \in Slots : at[i] \in Ended

IInv == /\ TypeOK /\ CancelledForAReason /\ RefutationsSoFar /\ Past
        /\ FinalWhenRefuted /\ NothingDrawnYet /\ ReturnedWhole

-----------------------------------------------------------------------------
LEMMA InitHolds == Init => IInv
<1> SUFFICES ASSUME Init PROVE IInv
  OBVIOUS
<1> USE DEF Init
<1>1. Fresh \in Report /\ Fresh.ok /\ Fresh.failedAt = "none"
  BY DEF Fresh, Report
<1>2. TypeOK
  BY <1>1 DEF TypeOK, Places
<1>3. CancelledForAReason /\ ReturnedWhole
  BY DEF CancelledForAReason, ReturnedWhole
<1>4. RefutationsSoFar /\ Past /\ FinalWhenRefuted
  BY <1>1 DEF RefutationsSoFar, Past, PassedSoFar, FinalWhenRefuted
<1>5. NothingDrawnYet
  BY DEF NothingDrawnYet
<1> QED BY <1>2, <1>3, <1>4, <1>5 DEF IInv

\* What the end of a child tells: success that its program earned it, and failure in
\* time that it did not, unless something was cancelled.
LEMMA ResultsMean ==
  ASSUME IInv, NEW earned, NEW r \in Results(earned)
  PROVE  /\ r.late \in BOOLEAN
         /\ StageOK(r) => earned
         /\ ~StageOK(r) /\ ~r.late /\ ~failed /\ ctx # "cancelled" => ~earned
BY DEF Results, StageOK, IInv, CancelledForAReason

\* A goroutine that gets to its next place with a candidate not refuted.
LEMMA MoveKeeps ==
  ASSUME IInv, NEW i \in Slots, at[i] \notin Ended, NEW place \in Places \ Ended, GoTo(i, place),
         UNCHANGED <<suite, opts, limit, ctx, gctx, failed, acc, outcome>>,
         owner' \in Slots \cup {0}, DOMAIN lateAt' = Slots,
         rep' \in [Slots -> Report],
         \A j \in Slots : rep'[j].ok = rep[j].ok /\ rep'[j].failedAt = rep[j].failedAt
                          /\ rep'[j].timedOut = rep[j].timedOut,
         src' \in [Slots -> Programs \cup {NoProgram}],
         \A j \in Slots \ {i} : src'[j] = src[j],
         IF place \in {"waiting", "generate"} THEN src'[i] = NoProgram ELSE src'[i] \in Programs,
         PassedSoFar(src'[i], place)
  PROVE  IInv'
<1> USE DEF IInv, GoTo
<1>1. at' \in [Slots -> Places] /\ at'[i] = place /\ \A j \in Slots \ {i} : at'[j] = at[j]
  BY DEF TypeOK
<1>2. rep[i].ok /\ ~acc[i]
  BY DEF FinalWhenRefuted, Ended, TypeOK, Report
<1>3. TypeOK'
  BY <1>1, <1>2 DEF TypeOK
<1>4. CancelledForAReason' /\ ReturnedWhole'
  BY <1>1 DEF CancelledForAReason, ReturnedWhole
<1>5. RefutationsSoFar'
  BY <1>2 DEF RefutationsSoFar, Guilty
<1>6. Past'
  BY <1>1 DEF Past, PassedSoFar
<1>7. FinalWhenRefuted'
  BY <1>1, <1>2 DEF FinalWhenRefuted, Ended
<1>8. NothingDrawnYet'
  BY <1>1 DEF NothingDrawnYet, Ended
<1> QED BY <1>3, <1>4, <1>5, <1>6, <1>7, <1>8

\* A candidate is refuted.
LEMMA RefuteKeeps ==
  ASSUME IInv, NEW i \in Slots, at[i] \notin Ended,
         NEW stage \in {"parse", "stdlib", "types", "build", "vet", "test", "race", "bench"},
         NEW late \in BOOLEAN, NEW quotes \in SUBSET {"visible", "hidden"},
         Refute(i, stage, late, quotes),
         UNCHANGED <<suite, opts, limit, ctx, gctx, failed, src, acc, outcome>>,
         owner' \in Slots \cup {0}, DOMAIN lateAt' = Slots,
         ~late /\ ~failed /\ ctx # "cancelled" => Guilty(src[i], stage)
  PROVE  IInv'
<1> USE DEF IInv, Refute, GoTo
<1>1. /\ at' \in [Slots -> Places] /\ at'[i] = "done"
      /\ \A j \in Slots \ {i} : at'[j] = at[j]
  BY DEF TypeOK, Places, Ended
<1>2. ~acc[i]
  BY DEF FinalWhenRefuted, Ended
<1>3. /\ rep' \in [Slots -> Report] /\ \A j \in Slots \ {i} : rep'[j] = rep[j]
      /\ ~rep'[i].ok /\ rep'[i].failedAt = stage /\ rep'[i].timedOut = late
  <2> DEFINE new == [rep[i] EXCEPT !.ok = FALSE, !.failedAt = stage, !.timedOut = late,
                                   !.quotes = quotes]
  <2>1. rep[i] \in Report /\ rep \in [Slots -> Report]
    BY DEF TypeOK
  <2>2. new.ok = FALSE /\ new.failedAt = stage /\ new.timedOut = late
    BY <2>1 DEF Report
  <2>3. new \in Report
    BY <2>1 DEF Report
  <2>4. rep' = [rep EXCEPT ![i] = new]
    OBVIOUS
  <2> HIDE DEF new
  <2>5. rep'[i] = new /\ \A j \in Slots \ {i} : rep'[j] = rep[j]
    BY <2>1, <2>4
  <2>6. rep' \in [Slots -> Report]
    BY <2>1, <2>3, <2>4
  <2> QED BY <2>2, <2>5, <2>6
<1>4. TypeOK'
  BY <1>1, <1>3 DEF TypeOK, Ended
<1>5. CancelledForAReason' /\ ReturnedWhole'
  BY <1>1 DEF CancelledForAReason, ReturnedWhole
<1>6. RefutationsSoFar'
  BY <1>3 DEF RefutationsSoFar, Guilty
<1>7. Past'
  BY <1>1, <1>3 DEF Past, PassedSoFar
<1>8. FinalWhenRefuted'
  BY <1>1, <1>2, <1>3 DEF FinalWhenRefuted
<1>9. NothingDrawnYet'
  BY <1>1 DEF NothingDrawnYet
<1> QED BY <1>4, <1>5, <1>6, <1>7, <1>8, <1>9

LEMMA PassesMeans ==
  ASSUME IInv, NEW p \in Programs, NEW n \in 1..6, ~Passes(p, n)
  PROVE  p \notin suite.vis
BY DEF Passes

LEMMA StartKeeps ==
  ASSUME IInv, NEW i \in Slots, Start(i)
  PROVE  IInv'
<1>1. GoTo(i, "generate")
  BY DEF Start, GoTo
<1>2. src[i] = NoProgram
  BY DEF Start, IInv, NothingDrawnYet
<1> QED BY <1>1, <1>2, MoveKeeps DEF Start, given, cand, IInv, TypeOK, Places, Ended, PassedSoFar

LEMMA GenerateKeeps ==
  ASSUME IInv, NEW i \in Slots, Generate(i)
  PROVE  IInv'
<1> USE DEF Generate, given
<1>1. CASE Refute(i, "parse", FALSE, {}) /\ UNCHANGED src
  <2>1. src[i] = NoProgram
    BY DEF IInv, NothingDrawnYet
  <2> QED BY <1>1, <2>1, RefuteKeeps DEF IInv, TypeOK, Ended, Guilty
<1>2. CASE \E p \in Programs : src' = [src EXCEPT ![i] = p] /\ GoTo(i, "parse") /\ UNCHANGED rep
  BY <1>2, MoveKeeps DEF IInv, TypeOK, Places, Ended, PassedSoFar
<1> QED BY <1>1, <1>2

LEMMA AbortKeeps ==
  ASSUME IInv, NEW i \in Slots, Abort(i)
  PROVE  IInv'
<1> USE DEF Abort, given, cand, IInv, GoTo
<1>1. /\ at' \in [Slots -> Places] /\ at'[i] = "aborted"
      /\ \A j \in Slots \ {i} : at'[j] = at[j]
  BY DEF TypeOK, Places, Ended
<1>2. rep[i].ok /\ ~acc[i] /\ src[i] = NoProgram
  BY DEF FinalWhenRefuted, NothingDrawnYet, TypeOK, Report
<1>3. TypeOK'
  BY <1>1 DEF TypeOK, Ended
<1>4. CancelledForAReason' /\ ReturnedWhole' /\ RefutationsSoFar'
  BY <1>1 DEF CancelledForAReason, ReturnedWhole, RefutationsSoFar, Ended
<1>5. Past'
  BY <1>1 DEF Past, PassedSoFar
<1>6. FinalWhenRefuted' /\ NothingDrawnYet'
  BY <1>1, <1>2 DEF FinalWhenRefuted, NothingDrawnYet
<1> QED BY <1>3, <1>4, <1>5, <1>6

LEMMA StaticKeeps ==
  ASSUME IInv, NEW i \in Slots, Static(i)
  PROVE  IInv'
<1> USE DEF Static, given
<1> DEFINE p == src[i]
<1>0. p \in Programs /\ Facts[p].stage \in 1..6
  BY LadderAssumption DEF IInv, TypeOK, Ended
<1>1. CASE \A n \in 1..2 : Passes(p, n)
  <2>1. p \in suite.vis \/ Facts[p].stage >= 3
    BY <1>0, <1>1 DEF Passes
  <2> QED BY <1>0, <1>1, <2>1, MoveKeeps DEF IInv, TypeOK, Places, Ended, PassedSoFar
<1>2. CASE ~\A n \in 1..2 : Passes(p, n)
  <2>1. p \notin suite.vis /\ Facts[p].stage \in 1..2
    BY <1>0, <1>2 DEF Passes
  <2>2. Guilty(p, Rungs[Facts[p].stage]) /\ Rungs[Facts[p].stage] \in {"parse", "stdlib"}
    BY <1>0, <2>1 DEF Guilty, Rungs
  <2> QED BY <1>2, <2>2, RefuteKeeps DEF IInv, TypeOK, Ended
<1> QED BY <1>1, <1>2

LEMMA LockKeeps ==
  ASSUME IInv, NEW i \in Slots, Lock(i)
  PROVE  IInv'
<1>1. rep[i].ok /\ PassedSoFar(src[i], "lock") /\ src[i] \in Programs
  BY DEF Lock, IInv, Past, FinalWhenRefuted, TypeOK, Ended
<1> QED BY <1>1, MoveKeeps DEF Lock, given, cand, IInv, TypeOK, Places, Ended, PassedSoFar

\* What is known of the candidate of a goroutine that is at a rung.
LEMMA CandidateAt ==
  ASSUME IInv, NEW i \in Slots, at[i] \notin Ended \cup {"waiting", "generate"}
  PROVE  /\ src[i] \in Programs /\ Facts[src[i]].stage \in 1..6
         /\ rep[i].ok /\ PassedSoFar(src[i], at[i]) /\ at[i] \in Places
BY LadderAssumption DEF IInv, TypeOK, Past, FinalWhenRefuted, Ended

\* The quotes of a diagnostic.
LEMMA QuotesTyped ==
  ASSUME NEW p \in Programs, NEW stage
  PROVE  Quotes(p, stage) \in SUBSET {"visible", "hidden"}
BY LadderAssumption DEF Quotes, VetQuotes

\* A goroutine that gets over a rung with its report as it was.
LEMMA OverTheRung ==
  ASSUME IInv, NEW i \in Slots, at[i] \notin Ended \cup {"waiting", "generate"},
         NEW place \in Places \ (Ended \cup {"waiting", "generate"}), GoTo(i, place),
         UNCHANGED <<suite, opts, limit, ctx, gctx, failed, src, rep, acc, outcome>>,
         owner' \in Slots \cup {0}, DOMAIN lateAt' = Slots,
         PassedSoFar(src[i], place)
  PROVE  IInv'
<1>1. src[i] \in Programs
  BY CandidateAt
<1> QED BY <1>1, MoveKeeps DEF IInv, TypeOK

LEMMA TypesKeeps ==
  ASSUME IInv, NEW i \in Slots, Types(i)
  PROVE  IInv'
<1> USE DEF Types, OwnerAfter, given
<1>1. CASE Passes(src[i], 3)
  <2>1. PassedSoFar(src[i], "build")
    BY <1>1, CandidateAt DEF Passes, PassedSoFar, Ended
  <2> QED BY <1>1, <2>1, OverTheRung DEF IInv, TypeOK, Places, Ended
<1>2. CASE ~Passes(src[i], 3)
  <2>1. Guilty(src[i], "types")
    BY <1>2, CandidateAt DEF Passes, PassedSoFar, Ended, Guilty, Rungs
  <2> QED BY <1>2, <2>1, RefuteKeeps DEF IInv, TypeOK, Ended
<1> QED BY <1>1, <1>2

LEMMA BuildKeeps ==
  ASSUME IInv, NEW i \in Slots, Build(i)
  PROVE  IInv'
<1> USE DEF Build, Note, given
<1>1. PICK r \in Results(Passes(src[i], 4)) :
        /\ Note(i, "build", r)
        /\ IF StageOK(r) THEN GoTo(i, "vet") /\ UNCHANGED rep ELSE Refute(i, "build", r.late, {})
  OBVIOUS
<1>a. /\ src[i] \in Programs /\ Facts[src[i]].stage \in 1..6
      /\ src[i] \in suite.vis \/ Facts[src[i]].stage >= 4
  BY CandidateAt DEF PassedSoFar, Ended
<1>b. /\ r.late \in BOOLEAN
      /\ StageOK(r) => Passes(src[i], 4)
      /\ ~StageOK(r) /\ ~r.late /\ ~failed /\ ctx # "cancelled" => ~Passes(src[i], 4)
  BY ResultsMean
<1>2. DOMAIN lateAt' = Slots
  BY <1>1 DEF IInv, TypeOK
<1>3. CASE StageOK(r)
  <2>1. PassedSoFar(src[i], "vet")
    BY <1>3, <1>a, <1>b DEF Passes, PassedSoFar
  <2> QED BY <1>1, <1>2, <1>3, <2>1, OverTheRung DEF IInv, TypeOK, Places, Ended
<1>4. CASE ~StageOK(r)
  <2>1. ~r.late /\ ~failed /\ ctx # "cancelled" => Guilty(src[i], "build")
    BY <1>4, <1>a, <1>b DEF Passes, Guilty, Rungs
  <2>2. r.late \in BOOLEAN
    BY <1>b
  <2> QED BY <1>1, <1>2, <1>4, <2>1, <2>2, RefuteKeeps DEF IInv, TypeOK, Ended
<1> QED BY <1>3, <1>4

LEMMA VetKeeps ==
  ASSUME IInv, NEW i \in Slots, Vet(i)
  PROVE  IInv'
<1> USE DEF Vet, Note, given
<1>1. PICK r \in Results(Passes(src[i], 5)) :
        /\ Note(i, "vet", r)
        /\ IF StageOK(r) THEN GoTo(i, "test") /\ UNCHANGED rep
           ELSE Refute(i, "vet", r.late, Quotes(src[i], "vet"))
  OBVIOUS
<1>a. /\ src[i] \in Programs /\ Facts[src[i]].stage \in 1..6
      /\ src[i] \in suite.vis \/ Facts[src[i]].stage >= 5
  BY CandidateAt DEF PassedSoFar, Ended
<1>b. /\ r.late \in BOOLEAN
      /\ StageOK(r) => Passes(src[i], 5)
      /\ ~StageOK(r) /\ ~r.late /\ ~failed /\ ctx # "cancelled" => ~Passes(src[i], 5)
  BY ResultsMean
<1>2. DOMAIN lateAt' = Slots
  BY <1>1 DEF IInv, TypeOK
<1>3. CASE StageOK(r)
  <2>1. PassedSoFar(src[i], "test")
    BY <1>3, <1>a, <1>b DEF Passes, PassedSoFar
  <2> QED BY <1>1, <1>2, <1>3, <2>1, OverTheRung DEF IInv, TypeOK, Places, Ended
<1>4. CASE ~StageOK(r)
  <2>1. ~r.late /\ ~failed /\ ctx # "cancelled" => Guilty(src[i], "vet")
    BY <1>4, <1>a, <1>b DEF Passes, Guilty, Rungs
  <2>2. r.late \in BOOLEAN /\ Quotes(src[i], "vet") \in SUBSET {"visible", "hidden"}
    BY <1>a, <1>b, QuotesTyped
  <2> QED BY <1>1, <1>2, <1>4, <2>1, <2>2, RefuteKeeps DEF IInv, TypeOK, Ended
<1> QED BY <1>3, <1>4

LEMMA TestKeeps ==
  ASSUME IInv, NEW i \in Slots, Test(i)
  PROVE  IInv'
<1> USE DEF Test, Note, SomeTests, given
<1>1. PICK r \in Results(Passes(src[i], 6)) :
        /\ Note(i, "test", r)
        /\ IF StageOK(r) /\ suite.visRuns
           THEN GoTo(i, "race") /\ rep' = [rep EXCEPT ![i].tests = Facts[src[i]].tests]
           ELSE Refute(i, "test", r.late, Quotes(src[i], "test"))
  OBVIOUS
<1>a. /\ src[i] \in Programs /\ Facts[src[i]].stage \in 1..6
      /\ src[i] \in suite.vis \/ Facts[src[i]].stage >= 6
  BY CandidateAt DEF PassedSoFar, Ended
<1>b. /\ r.late \in BOOLEAN
      /\ StageOK(r) => Passes(src[i], 6)
      /\ ~StageOK(r) /\ ~r.late /\ ~failed /\ ctx # "cancelled" => ~Passes(src[i], 6)
  BY ResultsMean
<1>2. DOMAIN lateAt' = Slots
  BY <1>1 DEF IInv, TypeOK
<1>3. CASE StageOK(r) /\ suite.visRuns
  <2>1. PassedSoFar(src[i], "race")
    BY <1>3, <1>a, <1>b DEF Passes, PassedSoFar
  <2>2. rep[i] \in Report /\ rep \in [Slots -> Report] /\ src[i] \in Programs
    BY CandidateAt DEF IInv, TypeOK, Ended
  <2> DEFINE new == [rep[i] EXCEPT !.tests = Facts[src[i]].tests]
  <2>3. /\ new \in Report /\ new.ok = rep[i].ok /\ new.failedAt = rep[i].failedAt
        /\ new.timedOut = rep[i].timedOut
    BY <2>2 DEF Report
  <2>4. rep' = [rep EXCEPT ![i] = new]
    BY <1>1, <1>3
  <2> HIDE DEF new
  <2>5. /\ rep' \in [Slots -> Report]
        /\ \A j \in Slots : rep'[j].ok = rep[j].ok /\ rep'[j].failedAt = rep[j].failedAt
                            /\ rep'[j].timedOut = rep[j].timedOut
    BY <2>2, <2>3, <2>4
  <2> QED BY <1>1, <1>2, <1>3, <2>1, <2>2, <2>5, MoveKeeps DEF IInv, TypeOK, Places, Ended
<1>4. CASE ~(StageOK(r) /\ suite.visRuns)
  <2>1. ~r.late /\ ~failed /\ ctx # "cancelled" => Guilty(src[i], "test")
    BY <1>4, <1>a, <1>b DEF Passes, Guilty, Rungs
  <2>2. r.late \in BOOLEAN /\ Quotes(src[i], "test") \in SUBSET {"visible", "hidden"}
    BY <1>a, <1>b, QuotesTyped
  <2> QED BY <1>1, <1>2, <1>4, <2>1, <2>2, RefuteKeeps DEF IInv, TypeOK, Ended
<1> QED BY <1>3, <1>4

LEMMA RaceKeeps ==
  ASSUME IInv, NEW i \in Slots, Race(i)
  PROVE  IInv'
<1> USE DEF Race, Note, given
<1>1. /\ src[i] \in Programs /\ Facts[src[i]].stage \in 1..6
      /\ src[i] \in suite.vis /\ suite.visRuns
  BY CandidateAt, LadderAssumption DEF PassedSoFar, Ended
<1>2. CASE opts.skipRace \/ ~Facts[src[i]].concurrent
  <2>1. PassedSoFar(src[i], "bench")
    BY <1>1, <1>2 DEF PassedSoFar
  <2> QED BY <1>2, <2>1, OverTheRung DEF IInv, TypeOK, Places, Ended
<1>3. CASE ~(opts.skipRace \/ ~Facts[src[i]].concurrent)
  <2>1. PICK r \in Results(~Facts[src[i]].racy) :
          /\ Note(i, "race", r)
          /\ IF StageOK(r) THEN GoTo(i, "bench") /\ UNCHANGED rep
             ELSE Refute(i, "race", r.late, Quotes(src[i], "race"))
    BY <1>3
  <2>2. /\ r.late \in BOOLEAN
        /\ StageOK(r) => ~Facts[src[i]].racy
        /\ ~StageOK(r) /\ ~r.late /\ ~failed /\ ctx # "cancelled" => Facts[src[i]].racy
    BY ResultsMean
  <2>3. DOMAIN lateAt' = Slots
    BY <2>1 DEF IInv, TypeOK
  <2>4. CASE StageOK(r)
    <3>1. PassedSoFar(src[i], "bench")
      BY <1>1, <2>2, <2>4 DEF PassedSoFar
    <3> QED BY <2>1, <2>3, <2>4, <3>1, OverTheRung DEF IInv, TypeOK, Places, Ended
  <2>5. CASE ~StageOK(r)
    <3>1. ~r.late /\ ~failed /\ ctx # "cancelled" => Guilty(src[i], "race")
      BY <1>1, <2>2, <2>5 DEF Guilty
    <3>2. Quotes(src[i], "race") \in SUBSET {"visible", "hidden"}
      BY <1>1, QuotesTyped
    <3> QED BY <2>1, <2>2, <2>3, <2>5, <3>1, <3>2, RefuteKeeps DEF IInv, TypeOK, Ended
  <2> QED BY <2>4, <2>5
<1> QED BY <1>2, <1>3

LEMMA BenchKeeps ==
  ASSUME IInv, NEW i \in Slots, Bench(i)
  PROVE  IInv'
<1> USE DEF Bench, Note, given
<1>1. src[i] \in Programs /\ PassedSoFar(src[i], "complexity")
  BY CandidateAt DEF PassedSoFar, Ended
<1>2. DOMAIN lateAt' = Slots
  BY DEF IInv, TypeOK
<1>3. \/ GoTo(i, "complexity") /\ UNCHANGED rep
      \/ Refute(i, "bench", FALSE, {}) /\ Facts[src[i]].allocates
  OBVIOUS
<1>4. CASE GoTo(i, "complexity") /\ UNCHANGED rep
  BY <1>1, <1>2, <1>4, OverTheRung DEF IInv, TypeOK, Places, Ended
<1>5. CASE Refute(i, "bench", FALSE, {}) /\ Facts[src[i]].allocates
  <2>1. Guilty(src[i], "bench")
    BY <1>1, <1>5 DEF Guilty
  <2> QED BY <1>2, <1>5, <2>1, RefuteKeeps DEF IInv, TypeOK, Ended
<1> QED BY <1>3, <1>4, <1>5

LEMMA ComplexityKeeps ==
  ASSUME IInv, NEW i \in Slots, Complexity(i)
  PROVE  IInv'
<1> USE DEF Complexity, given
<1>1. src[i] \in Programs /\ PassedSoFar(src[i], "complexity")
  BY CandidateAt DEF Ended
<1>2. CASE opts.maxComplexity /\ Facts[src[i]].complex
  <2>1. Guilty(src[i], "parse")
    BY <1>1, <1>2 DEF Guilty
  <2> QED BY <1>2, <2>1, RefuteKeeps DEF IInv, TypeOK, Ended
<1>3. CASE ~(opts.maxComplexity /\ Facts[src[i]].complex)
  <2>1. PassedSoFar(src[i], "accept")
    BY <1>1, <1>3 DEF PassedSoFar
  <2> QED BY <1>3, <2>1, OverTheRung DEF IInv, TypeOK, Places, Ended
<1> QED BY <1>2, <1>3

LEMMA AcceptKeeps ==
  ASSUME IInv, NEW i \in Slots, Accept(i)
  PROVE  IInv'
<1> USE DEF Accept, SomeTests, given, IInv, GoTo
<1>1. src[i] \in Programs /\ rep[i].ok /\ PassedSoFar(src[i], "done")
  BY CandidateAt DEF PassedSoFar, Ended
<1>2. PICK r \in Results(src[i] \in suite.hid \/ ~suite.hidRuns) :
        acc' = [acc EXCEPT ![i] = StageOK(r) /\ suite.hidRuns]
  OBVIOUS
<1>3. StageOK(r) => src[i] \in suite.hid \/ ~suite.hidRuns
  BY ResultsMean
<1>4. /\ at' \in [Slots -> Places] /\ at'[i] = "done"
      /\ \A j \in Slots \ {i} : at'[j] = at[j]
  BY DEF TypeOK, Places, Ended
<1>5. (StageOK(r) /\ suite.hidRuns) \in BOOLEAN
  OBVIOUS
<1>6. /\ acc' \in [Slots -> BOOLEAN] /\ \A j \in Slots \ {i} : acc'[j] = acc[j]
      /\ acc'[i] => src[i] \in suite.hid /\ suite.hidRuns
  BY <1>2, <1>3, <1>5 DEF TypeOK
<1>7. TypeOK'
  BY <1>1, <1>4, <1>6 DEF TypeOK
<1>8. CancelledForAReason' /\ ReturnedWhole' /\ RefutationsSoFar'
  BY <1>4 DEF CancelledForAReason, ReturnedWhole, RefutationsSoFar, Guilty, Ended
<1>9. Past' /\ NothingDrawnYet'
  BY <1>1, <1>4 DEF Past, PassedSoFar, NothingDrawnYet
<1>10. FinalWhenRefuted'
  BY <1>1, <1>4, <1>6 DEF FinalWhenRefuted
<1> QED BY <1>7, <1>8, <1>9, <1>10

LEMMA ReturnKeeps ==
  ASSUME IInv, Return
  PROVE  IInv'
<1> USE DEF Return, AfterWait, given, cand, IInv
<1>1. TypeOK' /\ CancelledForAReason' /\ ReturnedWhole' /\ RefutationsSoFar'
  BY DEF TypeOK, CancelledForAReason, ReturnedWhole, RefutationsSoFar, Guilty
<1>2. Past' /\ NothingDrawnYet' /\ FinalWhenRefuted'
  BY DEF Past, PassedSoFar, NothingDrawnYet, FinalWhenRefuted
<1> QED BY <1>1, <1>2

LEMMA InterruptKeeps ==
  ASSUME IInv, Interrupt
  PROVE  IInv'
<1> USE DEF Interrupt, given, cand, IInv
<1>1. TypeOK' /\ CancelledForAReason' /\ ReturnedWhole' /\ RefutationsSoFar'
  BY DEF TypeOK, CancelledForAReason, ReturnedWhole, RefutationsSoFar, Guilty
<1>2. Past' /\ NothingDrawnYet' /\ FinalWhenRefuted'
  BY DEF Past, PassedSoFar, NothingDrawnYet, FinalWhenRefuted
<1> QED BY <1>1, <1>2

LEMMA NextKeeps == IInv /\ [Next]_vars => IInv'
<1> SUFFICES ASSUME IInv, [Next]_vars PROVE IInv'
  OBVIOUS
<1>1. CASE UNCHANGED vars
  BY <1>1 DEF vars, given, cand, IInv, TypeOK, CancelledForAReason, ReturnedWhole,
              RefutationsSoFar, Guilty, Past, PassedSoFar, NothingDrawnYet, FinalWhenRefuted
<1>2. CASE \E i \in Slots : Step(i)
  BY <1>2, StartKeeps, GenerateKeeps, AbortKeeps, StaticKeeps, LockKeeps, TypesKeeps, BuildKeeps,
     VetKeeps, TestKeeps, RaceKeeps, BenchKeeps, ComplexityKeeps, AcceptKeeps DEF Step
<1>3. CASE Return
  BY <1>3, ReturnKeeps
<1>4. CASE Interrupt
  BY <1>4, InterruptKeeps
<1> QED BY <1>1, <1>2, <1>3, <1>4 DEF Next, Work

LEMMA Invariance == Spec => []IInv
BY InitHolds, NextKeeps, PTL DEF Spec

-----------------------------------------------------------------------------
\* Places, reports and the lock are typed in every fan-out (ladder.go:161-322).
THEOREM TypeCorrectness == Spec => []TypeOK
<1>1. IInv => TypeOK
  BY DEF IInv
<1> QED BY <1>1, Invariance, PTL

\* A fan-out that is returned holds no refutation that a sibling's failure made: what
\* neither a clock nor a signal refuted is refuted for a defect of its own
\* (cascade.go:684-728, ladder.go:83-87).
THEOREM RefutationsEarned == Spec => []RefutationsAreEarned
<1>1. IInv => RefutationsAreEarned
  BY DEF IInv, ReturnedWhole, RefutationsSoFar, RefutationsAreEarned
<1> QED BY <1>1, Invariance, PTL

\* A survivor passed every rung there was to pass, whatever died on the way
\* (ladder.go:161-322).
THEOREM SurvivorsEarned == Spec => []SurvivorsAreEarned
<1>1. IInv => SurvivorsAreEarned
  BY DEF IInv, Past, PassedSoFar, FinalWhenRefuted, SurvivorsAreEarned
<1> QED BY <1>1, Invariance, PTL

-----------------------------------------------------------------------------
(* Ladder against Router. *)

\* The deadline of the group is the solve's.
DeadlineIsShared == gctx = "expired" => ctx = "expired"

\* Why a child may be late.
MayBeLate == "timeout" \in Faults \/ ctx = "expired"

\* The places of a candidate whose tests were read.
Tested == {"race", "bench", "complexity", "accept", "done"}

\* What a report owes to the rungs that ran and to the clocks and signals so far.
LateForAReason(i) == rep[i].timedOut => MayBeLate

OnlyRungsThatRan(i) ==
  /\ rep[i].failedAt = "race" => ~opts.skipRace /\ Facts[src[i]].concurrent
  /\ rep[i].failedAt = "bench" => opts.maxAllocs
  /\ rep[i].failedAt = "parse" /\ src[i] \in suite.vis => opts.maxComplexity

VetIsQuoted(p) ==
  p \in Programs /\ p \notin suite.vis /\ Facts[p].stage = 5 /\ "hidden" \in Facts[p].quotes

OnlyVetQuotesHidden(i) ==
  /\ rep[i].ok => rep[i].quotes = {}
  /\ "hidden" \in rep[i].quotes => VetIsQuoted(src[i])

TestsAreRead(i) == rep[i].ok /\ at[i] \in Tested => rep[i].tests = Facts[src[i]].tests

RefusedForAReason(i) ==
  at[i] = "done" /\ rep[i].ok /\ ~acc[i] /\ ~failed =>
    src[i] \notin suite.hid \/ ~suite.hidRuns \/ MayBeLate \/ ctx = "cancelled"

Conforms(i) == /\ LateForAReason(i) /\ OnlyRungsThatRan(i) /\ OnlyVetQuotesHidden(i)
               /\ TestsAreRead(i) /\ RefusedForAReason(i)

ConformInv == DeadlineIsShared /\ \A i \in Slots : Conforms(i)

LEMMA ConformInit == Init => ConformInv
BY DEF Init, ConformInv, DeadlineIsShared, Conforms, LateForAReason, OnlyRungsThatRan,
       OnlyVetQuotesHidden, TestsAreRead, RefusedForAReason, Fresh, Tested

\* A step leaves alone the candidates it does not touch.
LEMMA OthersConform ==
  ASSUME NEW j \in Slots, Conforms(j), UNCHANGED <<suite, opts>>, failed => failed',
         ctx = "live" \/ ctx' = ctx,
         at'[j] = at[j], src'[j] = src[j], rep'[j] = rep[j], acc'[j] = acc[j]
  PROVE  Conforms(j)'
BY DEF Conforms, LateForAReason, OnlyRungsThatRan, OnlyVetQuotesHidden, VetIsQuoted, TestsAreRead,
       RefusedForAReason, MayBeLate

\* A clock is the reason of every late child.
LEMMA LateResult ==
  ASSUME DeadlineIsShared, NEW earned, NEW r \in Results(earned), r.late
  PROVE  MayBeLate
BY DEF Results, DeadlineIsShared, MayBeLate

\* A goroutine gets to its next place.
LEMMA MoveConforms ==
  ASSUME IInv, ConformInv, NEW i \in Slots, NEW place \in Places \ Ended, GoTo(i, place),
         UNCHANGED <<suite, opts, ctx, gctx, failed, acc>>,
         \A j \in Slots \ {i} : src'[j] = src[j] /\ rep'[j] = rep[j],
         rep[i].ok, rep'[i].ok, rep'[i].failedAt = "none",
         rep'[i].timedOut = rep[i].timedOut, rep'[i].quotes = rep[i].quotes,
         place \in Tested => rep'[i].tests = Facts[src'[i]].tests
  PROVE  ConformInv'
<1>1. at'[i] = place /\ \A j \in Slots \ {i} : at'[j] = at[j]
  BY DEF GoTo, IInv, TypeOK
<1>2. DeadlineIsShared' /\ \A j \in Slots \ {i} : Conforms(j)'
  BY <1>1, OthersConform DEF ConformInv, DeadlineIsShared
<1>3. Conforms(i)'
  BY <1>1 DEF ConformInv, Conforms, LateForAReason, OnlyRungsThatRan, OnlyVetQuotesHidden,
     TestsAreRead, RefusedForAReason, MayBeLate, Ended
<1> QED BY <1>2, <1>3 DEF ConformInv

\* A candidate is refuted.
LEMMA RefuteConforms ==
  ASSUME IInv, ConformInv, NEW i \in Slots, NEW stage, NEW late \in BOOLEAN, NEW quotes,
         Refute(i, stage, late, quotes), UNCHANGED <<suite, opts, ctx, gctx, failed, src, acc>>,
         late => MayBeLate,
         stage = "race" => ~opts.skipRace /\ Facts[src[i]].concurrent, stage = "bench" => opts.maxAllocs,
         stage = "parse" /\ src[i] \in suite.vis => opts.maxComplexity,
         "hidden" \in quotes => VetIsQuoted(src[i])
  PROVE  ConformInv'
<1>1. /\ at'[i] = "done" /\ \A j \in Slots \ {i} : at'[j] = at[j] /\ rep'[j] = rep[j]
      /\ rep'[i] = [rep[i] EXCEPT !.ok = FALSE, !.failedAt = stage, !.timedOut = late,
                                  !.quotes = quotes]
  BY DEF Refute, GoTo, IInv, TypeOK
<1>2. /\ ~rep'[i].ok /\ rep'[i].failedAt = stage /\ rep'[i].timedOut = late
      /\ rep'[i].quotes = quotes
  <2>1. rep[i] \in Report
    BY DEF IInv, TypeOK
  <2> QED BY <1>1, <2>1 DEF Report
<1>3. DeadlineIsShared' /\ \A j \in Slots \ {i} : Conforms(j)'
  BY <1>1, OthersConform DEF ConformInv, DeadlineIsShared
<1>4. Conforms(i)'
  BY <1>1, <1>2 DEF Conforms, LateForAReason, OnlyRungsThatRan, OnlyVetQuotesHidden, VetIsQuoted,
     TestsAreRead, RefusedForAReason, MayBeLate
<1> QED BY <1>3, <1>4 DEF ConformInv

\* A goroutine that draws a program, or gets over a rung with its report as it was.
LEMMA RungConforms ==
  ASSUME IInv, ConformInv, NEW i \in Slots, rep[i].ok, NEW place \in Places \ Ended,
         GoTo(i, place), UNCHANGED <<suite, opts, ctx, gctx, failed, acc, rep>>,
         \A j \in Slots \ {i} : src'[j] = src[j],
         place \in Tested => at[i] \in Tested /\ src' = src
  PROVE  ConformInv'
<1>1. place \in Tested => rep'[i].tests = Facts[src'[i]].tests
  BY DEF ConformInv, Conforms, TestsAreRead
<1> QED BY <1>1, MoveConforms DEF IInv, TypeOK

LEMMA StartConforms ==
  ASSUME IInv, ConformInv, NEW i \in Slots, Start(i)
  PROVE  ConformInv'
<1>1. GoTo(i, "generate") /\ rep[i].ok
  BY DEF Start, GoTo, IInv, FinalWhenRefuted
<1> QED BY <1>1, RungConforms DEF Start, given, cand, Places, Ended, Tested

LEMMA GenerateConforms ==
  ASSUME IInv, ConformInv, NEW i \in Slots, Generate(i)
  PROVE  ConformInv'
<1> USE DEF Generate, given
<1>1. CASE Refute(i, "parse", FALSE, {}) /\ UNCHANGED src
  <2>1. src[i] \notin suite.vis
    BY LadderAssumption DEF IInv, NothingDrawnYet, TypeOK
  <2> QED BY <1>1, <2>1, RefuteConforms
<1>2. CASE \E p \in Programs : src' = [src EXCEPT ![i] = p] /\ GoTo(i, "parse") /\ UNCHANGED rep
  <2>1. rep[i].ok
    BY DEF IInv, FinalWhenRefuted
  <2>2. \A j \in Slots \ {i} : src'[j] = src[j]
    BY <1>2 DEF IInv, TypeOK
  <2> QED BY <1>2, <2>1, <2>2, RungConforms DEF Places, Ended, Tested
<1> QED BY <1>1, <1>2

LEMMA AbortConforms ==
  ASSUME IInv, ConformInv, NEW i \in Slots, Abort(i)
  PROVE  ConformInv'
<1> USE DEF Abort, given, cand, GoTo
<1>1. at'[i] = "aborted" /\ \A j \in Slots \ {i} : at'[j] = at[j]
  BY DEF IInv, TypeOK
<1>2. DeadlineIsShared'
  BY DEF ConformInv, DeadlineIsShared
<1>3. \A j \in Slots \ {i} : Conforms(j)'
  BY <1>1, OthersConform DEF ConformInv
<1>4. Conforms(i)'
  BY <1>1 DEF ConformInv, Conforms, LateForAReason, OnlyRungsThatRan, OnlyVetQuotesHidden,
     VetIsQuoted, TestsAreRead, RefusedForAReason, MayBeLate, Tested
<1> QED BY <1>2, <1>3, <1>4 DEF ConformInv

LEMMA StaticConforms ==
  ASSUME IInv, ConformInv, NEW i \in Slots, Static(i)
  PROVE  ConformInv'
<1> USE DEF Static, given
<1>1. rep[i].ok /\ src[i] \in Programs /\ Facts[src[i]].stage \in 1..6
  BY CandidateAt DEF Ended
<1>2. CASE \A n \in 1..2 : Passes(src[i], n)
  BY <1>1, <1>2, RungConforms DEF Places, Ended, Tested
<1>3. CASE ~\A n \in 1..2 : Passes(src[i], n)
  <2>1. src[i] \notin suite.vis /\ Facts[src[i]].stage \in 1..2
    BY <1>1, <1>3 DEF Passes
  <2>2. Rungs[Facts[src[i]].stage] \in {"parse", "stdlib"}
    BY <2>1 DEF Rungs
  <2> QED BY <1>3, <2>1, <2>2, RefuteConforms
<1> QED BY <1>2, <1>3

LEMMA LockConforms ==
  ASSUME IInv, ConformInv, NEW i \in Slots, Lock(i)
  PROVE  ConformInv'
<1>1. rep[i].ok
  BY CandidateAt DEF Lock, Ended
<1> QED BY <1>1, RungConforms DEF Lock, given, cand, Places, Ended, Tested

LEMMA TypesConforms ==
  ASSUME IInv, ConformInv, NEW i \in Slots, Types(i)
  PROVE  ConformInv'
<1> USE DEF Types, given
<1>1. rep[i].ok
  BY CandidateAt DEF Ended
<1>2. CASE GoTo(i, "build") /\ UNCHANGED rep
  BY <1>1, <1>2, RungConforms DEF Places, Ended, Tested
<1>3. CASE Refute(i, "types", FALSE, {})
  BY <1>3, RefuteConforms
<1> QED BY <1>2, <1>3

LEMMA BuildConforms ==
  ASSUME IInv, ConformInv, NEW i \in Slots, Build(i)
  PROVE  ConformInv'
<1> USE DEF Build, given
<1>1. rep[i].ok
  BY CandidateAt DEF Ended
<1>2. PICK r \in Results(Passes(src[i], 4)) :
        IF StageOK(r) THEN GoTo(i, "vet") /\ UNCHANGED rep ELSE Refute(i, "build", r.late, {})
  OBVIOUS
<1>3. CASE GoTo(i, "vet") /\ UNCHANGED rep
  BY <1>1, <1>3, RungConforms DEF Places, Ended, Tested
<1>4. CASE Refute(i, "build", r.late, {})
  <2>1. r.late \in BOOLEAN /\ (r.late => MayBeLate)
    BY ResultsMean, LateResult DEF ConformInv
  <2> QED BY <1>4, <2>1, RefuteConforms
<1> QED BY <1>2, <1>3, <1>4

LEMMA VetConforms ==
  ASSUME IInv, ConformInv, NEW i \in Slots, Vet(i)
  PROVE  ConformInv'
<1> USE DEF Vet, given
<1>1. /\ rep[i].ok /\ src[i] \in Programs /\ Facts[src[i]].stage \in 1..6
      /\ src[i] \in suite.vis \/ Facts[src[i]].stage >= 5
  BY CandidateAt DEF PassedSoFar, Ended
<1>2. PICK r \in Results(Passes(src[i], 5)) :
        IF StageOK(r) THEN GoTo(i, "test") /\ UNCHANGED rep
        ELSE Refute(i, "vet", r.late, Quotes(src[i], "vet"))
  OBVIOUS
<1>3. CASE GoTo(i, "test") /\ UNCHANGED rep
  BY <1>1, <1>3, RungConforms DEF Places, Ended, Tested
<1>4. CASE Refute(i, "vet", r.late, Quotes(src[i], "vet"))
  <2>1. r.late \in BOOLEAN /\ (r.late => MayBeLate)
    BY ResultsMean, LateResult DEF ConformInv
  <2>2. "hidden" \in Quotes(src[i], "vet") => VetIsQuoted(src[i])
    BY <1>1 DEF Quotes, VetQuotes, Passes, VetIsQuoted
  <2> QED BY <1>4, <2>1, <2>2, RefuteConforms
<1> QED BY <1>2, <1>3, <1>4

LEMMA TestConforms ==
  ASSUME IInv, ConformInv, NEW i \in Slots, Test(i)
  PROVE  ConformInv'
<1> USE DEF Test, given
<1>1. rep[i].ok /\ rep[i] \in Report /\ rep \in [Slots -> Report] /\ rep[i].failedAt = "none"
  BY CandidateAt DEF Ended, IInv, TypeOK
<1>2. PICK r \in Results(Passes(src[i], 6)) :
        IF StageOK(r) /\ SomeTests(suite.visRuns)
        THEN GoTo(i, "race") /\ rep' = [rep EXCEPT ![i].tests = Facts[src[i]].tests]
        ELSE Refute(i, "test", r.late, Quotes(src[i], "test"))
  OBVIOUS
<1>3. CASE GoTo(i, "race") /\ rep' = [rep EXCEPT ![i].tests = Facts[src[i]].tests]
  <2>1. /\ rep'[i] = [rep[i] EXCEPT !.tests = Facts[src[i]].tests]
        /\ \A j \in Slots \ {i} : rep'[j] = rep[j]
    BY <1>1, <1>3
  <2>2. /\ rep'[i].ok = rep[i].ok /\ rep'[i].failedAt = rep[i].failedAt
        /\ rep'[i].timedOut = rep[i].timedOut /\ rep'[i].quotes = rep[i].quotes
        /\ rep'[i].tests = Facts[src[i]].tests
    BY <1>1, <2>1 DEF Report
  <2> QED BY <1>1, <1>3, <2>1, <2>2, MoveConforms DEF Places, Ended
<1>4. CASE Refute(i, "test", r.late, Quotes(src[i], "test"))
  <2>1. r.late \in BOOLEAN /\ (r.late => MayBeLate)
    BY ResultsMean, LateResult DEF ConformInv
  <2> QED BY <1>4, <2>1, RefuteConforms DEF Quotes
<1> QED BY <1>2, <1>3, <1>4

LEMMA RaceConforms ==
  ASSUME IInv, ConformInv, NEW i \in Slots, Race(i)
  PROVE  ConformInv'
<1> USE DEF Race, given
<1>1. rep[i].ok
  BY CandidateAt DEF Ended
<1>2. CASE GoTo(i, "bench") /\ UNCHANGED rep
  BY <1>1, <1>2, RungConforms DEF Places, Ended, Tested
<1>3. CASE ~opts.skipRace /\ Facts[src[i]].concurrent
  <2>1. PICK r \in Results(~Facts[src[i]].racy) :
          IF StageOK(r) THEN GoTo(i, "bench") /\ UNCHANGED rep
          ELSE Refute(i, "race", r.late, Quotes(src[i], "race"))
    BY <1>3
  <2>2. CASE Refute(i, "race", r.late, Quotes(src[i], "race"))
    <3>1. r.late \in BOOLEAN /\ (r.late => MayBeLate)
      BY ResultsMean, LateResult DEF ConformInv
    <3> QED BY <1>3, <2>2, <3>1, RefuteConforms DEF Quotes
  <2> QED BY <1>2, <2>1, <2>2
<1> QED BY <1>2, <1>3

LEMMA BenchConforms ==
  ASSUME IInv, ConformInv, NEW i \in Slots, Bench(i)
  PROVE  ConformInv'
<1> USE DEF Bench, given
<1>1. rep[i].ok
  BY CandidateAt DEF Ended
<1>2. \/ GoTo(i, "complexity") /\ UNCHANGED rep
      \/ Refute(i, "bench", FALSE, {}) /\ opts.maxAllocs
  OBVIOUS
<1>3. CASE GoTo(i, "complexity") /\ UNCHANGED rep
  BY <1>1, <1>3, RungConforms DEF Places, Ended, Tested
<1>4. CASE Refute(i, "bench", FALSE, {}) /\ opts.maxAllocs
  BY <1>4, RefuteConforms
<1> QED BY <1>2, <1>3, <1>4

LEMMA ComplexityConforms ==
  ASSUME IInv, ConformInv, NEW i \in Slots, Complexity(i)
  PROVE  ConformInv'
<1> USE DEF Complexity, given
<1>1. rep[i].ok
  BY CandidateAt DEF Ended
<1>2. CASE GoTo(i, "accept") /\ UNCHANGED rep
  BY <1>1, <1>2, RungConforms DEF Places, Ended, Tested
<1>3. CASE Refute(i, "parse", FALSE, {}) /\ opts.maxComplexity
  BY <1>3, RefuteConforms
<1> QED BY <1>2, <1>3

LEMMA AcceptConforms ==
  ASSUME IInv, ConformInv, NEW i \in Slots, Accept(i)
  PROVE  ConformInv'
<1> USE DEF Accept, given, GoTo
<1>1. PICK r \in Results(src[i] \in suite.hid \/ ~suite.hidRuns) :
        acc' = [acc EXCEPT ![i] = StageOK(r) /\ SomeTests(suite.hidRuns)]
  OBVIOUS
<1>2. /\ at'[i] = "done" /\ \A j \in Slots \ {i} : at'[j] = at[j] /\ acc'[j] = acc[j]
      /\ acc'[i] = (StageOK(r) /\ SomeTests(suite.hidRuns))
  BY <1>1 DEF IInv, TypeOK
<1>3. DeadlineIsShared'
  BY DEF ConformInv, DeadlineIsShared
<1>4. \A j \in Slots \ {i} : Conforms(j)'
  BY <1>2, OthersConform DEF ConformInv
<1>5. RefusedForAReason(i)'
  <2>1. ~StageOK(r) /\ ~failed => MayBeLate \/ ctx = "cancelled" \/ src[i] \notin suite.hid
    BY ResultsMean, LateResult DEF ConformInv
  <2> QED BY <1>2, <2>1 DEF RefusedForAReason, MayBeLate, SomeTests
<1>6. Conforms(i)'
  BY <1>2, <1>5 DEF ConformInv, Conforms, LateForAReason, OnlyRungsThatRan, OnlyVetQuotesHidden,
     VetIsQuoted, TestsAreRead, MayBeLate, Tested
<1> QED BY <1>3, <1>4, <1>6 DEF ConformInv

LEMMA NextConforms ==
  ASSUME IInv, ConformInv, [Next]_vars
  PROVE  ConformInv'
<1>1. CASE Return \/ Interrupt \/ UNCHANGED vars
  <2>1. \A j \in Slots : Conforms(j)'
    BY <1>1, OthersConform DEF ConformInv, Return, Interrupt, vars, given, cand
  <2>2. DeadlineIsShared'
    BY <1>1 DEF ConformInv, DeadlineIsShared, Return, Interrupt, vars, given, cand
  <2> QED BY <2>1, <2>2 DEF ConformInv
<1>2. CASE \E i \in Slots : Step(i)
  BY <1>2, StartConforms, GenerateConforms, AbortConforms, StaticConforms, LockConforms,
     TypesConforms, BuildConforms, VetConforms, TestConforms, RaceConforms, BenchConforms,
     ComplexityConforms, AcceptConforms DEF Step
<1> QED BY <1>1, <1>2 DEF Next, Work

LEMMA Conformance == Spec => []ConformInv
<1>1. Init => ConformInv
  BY ConformInit
<1>2. IInv /\ ConformInv /\ [Next]_vars => ConformInv'
  BY NextConforms
<1> QED BY <1>1, <1>2, Invariance, PTL DEF Spec

\* Every report of a returned fan-out, run step by step in any order with any number
\* of goroutines, is one the router takes the fan-out to have (ladder.go:161-322).
THEOREM RouterReportsSuffice == Spec => []ReportsAsRouterAssumes
<1>1. ASSUME IInv, ConformInv, outcome = "returned", ~opts.maxAllocs, ~opts.maxComplexity,
             NEW i \in Slots, src[i] # NoProgram
      PROVE  /\ \E s \in R!Reports(src[i]) : Alike(rep[i], s)
             /\ rep[i].ok => acc[i] \in R!AcceptVerdicts(src[i])
  <2> DEFINE p == src[i]
  <2>1. /\ p \in Programs /\ Facts[p].stage \in 1..6 /\ ~failed /\ at[i] = "done"
        /\ acc[i] \in BOOLEAN /\ suite \in Suites /\ rep[i] \in Report
    BY <1>1, LadderAssumption DEF IInv, TypeOK, ReturnedWhole, Ended, NothingDrawnYet
  <2>2. Conforms(i)
    BY <1>1 DEF ConformInv
  <2>3. /\ RouterFacts[p].stage = Facts[p].stage - 1 /\ RouterFacts[p].racy = Facts[p].racy
        /\ RouterFacts[p].concurrent = Facts[p].concurrent
        /\ RouterFacts[p].tests = Facts[p].tests /\ RouterFacts[p].quotes = Facts[p].quotes
    BY <2>1 DEF RouterFacts
  <2>4. CASE rep[i].ok
    <3>1. /\ p \in suite.vis /\ (Facts[p].racy /\ Facts[p].concurrent => opts.skipRace)
          /\ rep[i].tests = Facts[p].tests /\ rep[i].quotes = {}
      BY <1>1, <2>1, <2>2, <2>4 DEF IInv, Past, PassedSoFar, Conforms, TestsAreRead, Tested,
         OnlyVetQuotesHidden
    <3>2. R!Verdict(p) = R!Survived(p)
      BY <2>3, <3>1 DEF R!Verdict, R!Races
    <3>3. Alike(rep[i], R!Survived(p))
      BY <2>3, <2>4, <3>1 DEF Alike, R!Survived
    <3>4. R!Survived(p) \in R!Reports(p)
      BY <3>2 DEF R!Reports
    <3>5. ~acc[i] => p \notin suite.hid \/ "timeout" \in Faults \/ ctx # "live"
      BY <2>1, <2>2, <2>4, SuitesAssumption DEF Conforms, RefusedForAReason, MayBeLate
    <3>6. acc[i] => p \in suite.hid
      BY <1>1 DEF IInv, FinalWhenRefuted
    <3>7. acc[i] \in R!AcceptVerdicts(p)
      <4>1. CASE acc[i] = TRUE
        BY <3>6, <4>1 DEF R!AcceptVerdicts
      <4>2. CASE acc[i] = FALSE
        BY <3>5, <4>2 DEF R!AcceptVerdicts
      <4> QED BY <2>1, <4>1, <4>2
    <3> QED BY <3>3, <3>4, <3>7
  <2>5. CASE ~rep[i].ok
    <3>1. /\ VetIsQuoted(p) \/ "hidden" \notin rep[i].quotes
      BY <2>2 DEF Conforms, OnlyVetQuotesHidden
    <3>2. CASE p \notin suite.vis
      <4>1. R!Verdict(p) = R!RefutedAt(p, Facts[p].stage - 1, FALSE)
        BY <2>3, <3>2 DEF R!Verdict
      <4>2. ~R!RefutedAt(p, Facts[p].stage - 1, FALSE).ok
        BY DEF R!RefutedAt
      <4>3. VetIsQuoted(p) => "hidden" \in R!RefutedAt(p, Facts[p].stage - 1, FALSE).quotes
        <5>1. R!RefutedAt(p, R!StageVet, FALSE).quotes = RouterFacts[p].quotes
          BY DEF R!RefutedAt, R!StageVet, R!StageTest, R!StageRace
        <5>2. VetIsQuoted(p) => Facts[p].stage - 1 = R!StageVet /\ "hidden" \in Facts[p].quotes
          BY DEF R!StageVet, VetIsQuoted
        <5> QED BY <2>3, <5>1, <5>2
      <4> DEFINE s == R!RefutedAt(p, Facts[p].stage - 1, FALSE)
      <4> HIDE DEF s
      <4>4. Alike(rep[i], s)
        <5>1. rep[i].ok = s.ok
          BY <2>1, <2>5, <4>2 DEF s, R!RefutedAt, Report
        <5> QED BY <2>5, <3>1, <4>3, <5>1 DEF Alike, s
      <4>5. s \in R!Reports(p)
        BY <4>1 DEF R!Reports, s
      <4> QED BY <2>5, <4>4, <4>5
    <3>3. CASE p \in suite.vis
      <4>1. "hidden" \notin rep[i].quotes
        BY <3>1, <3>3 DEF VetIsQuoted
      <4>2. \/ rep[i].timedOut \/ ctx = "cancelled"
            \/ rep[i].failedAt = "race" /\ Facts[p].racy
        <5>1. rep[i].timedOut \/ ctx = "cancelled" \/ Guilty(p, rep[i].failedAt)
          BY <1>1, <2>1, <2>5 DEF IInv, RefutationsSoFar
        <5>2. suite.visRuns
          BY <2>1, <3>3, SuitesAssumption
        <5>3. OnlyRungsThatRan(i)
          BY <2>2 DEF Conforms
        <5>4. Guilty(p, rep[i].failedAt) => rep[i].failedAt = "race" /\ Facts[p].racy
          BY <1>1, <3>3, <5>2, <5>3 DEF Guilty, OnlyRungsThatRan
        <5> QED BY <5>1, <5>4
      <4>3. "timeout" \in Faults \/ ctx # "live"
            \/ (Facts[p].racy /\ Facts[p].concurrent /\ ~opts.skipRace)
        <5>1. rep[i].timedOut => "timeout" \in Faults \/ ctx # "live"
          BY <2>2 DEF Conforms, LateForAReason, MayBeLate
        <5>2. rep[i].failedAt = "race" => ~opts.skipRace /\ Facts[p].concurrent
          BY <2>2 DEF Conforms, OnlyRungsThatRan
        <5> QED BY <4>2, <5>1, <5>2
      <4>4. \E s \in R!Reports(p) : s.ok = FALSE
        <5>1. CASE "timeout" \in Faults
          <6>1. R!RefutedAt(p, R!StageTest, TRUE) \in R!Reports(p)
            BY <3>3, <5>1 DEF R!Reports, R!ReachesRung
          <6> QED BY <6>1 DEF R!RefutedAt
        <5>2. CASE ctx # "live"
          <6>1. R!RefutedAt(p, R!StageBuild, ctx = "expired") \in R!Reports(p)
            BY <3>3, <5>2 DEF R!Reports, R!ReachesRung
          <6> QED BY <6>1 DEF R!RefutedAt
        <5>3. CASE Facts[p].racy /\ Facts[p].concurrent /\ ~opts.skipRace
          <6>1. R!RefutedAt(p, R!StageRace, FALSE) \in R!Reports(p)
            BY <2>3, <3>3, <5>3 DEF R!Reports, R!Verdict, R!Races
          <6> QED BY <6>1 DEF R!RefutedAt
        <5> QED BY <4>3, <5>1, <5>2, <5>3
      <4> QED BY <2>1, <2>5, <4>1, <4>4 DEF Alike, Report
    <3> QED BY <2>5, <3>2, <3>3
  <2> QED BY <2>4, <2>5
<1>2. IInv /\ ConformInv => ReportsAsRouterAssumes
  BY <1>1 DEF ReportsAsRouterAssumes
<1> QED BY <1>2, Invariance, Conformance, PTL
=============================================================================
