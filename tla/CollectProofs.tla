---------------------------- MODULE CollectProofs ----------------------------
(***************************************************************************)
(* What the record files hold, for any number of problems, tiers, levels   *)
(* and sites, and any signals, kills, failures and resumed runs.           *)
(***************************************************************************)
EXTENDS Collect, FiniteSetTheorems, NaturalsInduction, TLAPS

\* The calls that a signal spoils.
Children == {"sample", "gate", "accept", "text", "canonical", "mutants", "harvest"}

Row == [id : Nat, draw : Nat, won : BOOLEAN, oracle : {"sound", "unsound", "inconclusive"},
        late : BOOLEAN, seeds : SUBSET DOMAIN Sites,
        slow : SUBSET DOMAIN Sites, judged : Nat, spoiled : SUBSET Children]

File == [main : Seq(Row), judge : Seq(Row)]

Typed ==
  /\ mode \in Modes /\ suite \in [1..Problems -> Suites]
  /\ disk \in File /\ mem \in File /\ row \in Row
  /\ phase \in {"off", "loop", "work", "write", "write judge"}
  /\ at \in Nat \ {0} /\ pc \in Nat \ {0} /\ runs \in Nat /\ ctx \in BOOLEAN

-----------------------------------------------------------------------------
(* The files.                                                              *)

\* No two rows of a file are of one problem.
Distinct(rows) == \A i, j \in DOMAIN rows : rows[i].id = rows[j].id => i = j

FilesDistinct ==
  Distinct(disk.main) /\ Distinct(disk.judge) /\ Distinct(mem.main) /\ Distinct(mem.judge)

\* The judge's arm is part of the execution arm: in memory always, in the files of the
\* comparison that resumes; where there is one arm the other file is not there.
JudgeArmIsPart ==
  /\ Range(mem.judge) \subseteq Range(mem.main)
  /\ mode = "compare" => Range(disk.judge) \subseteq Range(disk.main)
  /\ ~TwoArms => disk.judge = <<>> /\ mem.judge = <<>>

\* Memory has every finished row of the file, and the file that a comparison wrote
\* first is what memory has.
MemoryHasTheFile ==
  /\ phase # "off" /\ mode # "sweep" =>
       \A r \in Range(disk.main) : Finished(r) => r \in Range(mem.main)
  /\ phase = "write judge" => TwoArms /\ disk.main = mem.main

\* The problem at work has no row yet.
AtWork ==
  phase = "work" => row.id = at /\ at <= Problems /\ at \notin Ids(mem.main)

FilesInv == FilesDistinct /\ JudgeArmIsPart /\ MemoryHasTheFile /\ AtWork

-----------------------------------------------------------------------------
(* The rows.                                                               *)

Earned(r) == r.oracle = "unsound" => suite[r.id] \in {"wrong", "malformed"} \/ r.late

SeedsSound(r) ==
  \A i \in r.seeds : /\ Sites[i].builds
                     /\ Refuted(Sites[i], kind) \/ i \in r.slow
                     /\ kind = "scar-free" => Sites[i].race /\ Sites[i].report

\* A finished row.
RowSound(r) ==
  /\ r.id \in 1..Problems /\ Earned(r)
  /\ mode \in {"compare", "sweep"} /\ r.won => r.spoiled = {}
  /\ mode = "seeded" => SeedsSound(r) \/ r.judged = 0

\* The row at work, with p its next call and c whether the context has ended.  What a
\* killed gate said is followed by the check of a tier, which abandons the row; after
\* the last call of a comparison there was an answer of the judge, which no ended
\* context gives; and nothing is judged of a harvest that was cut.
WorkSound(r, p, c) ==
  /\ Earned(r) \/ (c /\ mode \in {"calibrate", "compare"} /\ p <= 4)
  /\ r.spoiled # {} => c
  /\ mode \in {"compare", "sweep"} /\ p > LastCall /\ r.won => r.spoiled = {}
  /\ mode = "seeded" => /\ SeedsSound(r) \/ (c /\ r.judged = 0)
                        /\ p <= 4 => r.judged = 0

RowsInv ==
  /\ \A r \in Rows : RowSound(r)
  /\ phase = "work" => WorkSound(row, pc, ctx)

IInv == Typed /\ FilesInv /\ RowsInv

-----------------------------------------------------------------------------
(* Sequences: the complete rows of a file, and a row more.                  *)

\* Nth counts a finite set of numbers through, each once.
LEMMA NthEnumerates ==
  ASSUME NEW I \in SUBSET Nat, IsFiniteSet(I)
  PROVE  /\ \A k \in 1..Cardinality(I) : Nth(I, k) \in I
         /\ \A k, l \in 1..Cardinality(I) : Nth(I, k) = Nth(I, l) => k = l
         /\ \A i \in I : \E k \in 1..Cardinality(I) : Nth(I, k) = i
<1> DEFINE n == Cardinality(I)
           Below(i) == {j \in I : j < i}
           g == [i \in I |-> Cardinality(Below(i)) + 1]
<1>1. n \in Nat /\ IsFiniteSet(1..n) /\ Cardinality(1..n) = n
  <2>1. n \in Nat
    BY FS_CardinalityType
  <2> HIDE DEF n
  <2>2. 1 \in Int /\ n \in Int
    BY <2>1
  <2>3. /\ IsFiniteSet(1..n)
        /\ Cardinality(1..n) = IF 1 > n THEN 0 ELSE n - 1 + 1
    BY <2>2, FS_Interval, Zenon
  <2> QED BY <2>1, <2>3
<1>2. ASSUME NEW i \in I
      PROVE  IsFiniteSet(Below(i)) /\ Cardinality(Below(i)) \in Nat /\ Cardinality(Below(i)) < n
  <2>1. Below(i) \in SUBSET (I \ {i}) /\ i \in I
    OBVIOUS
  <2>2. IsFiniteSet(I \ {i}) /\ Cardinality(I \ {i}) = n - 1
    BY FS_RemoveElement
  <2> HIDE DEF Below, n
  <2> QED BY <1>1, <2>1, <2>2, FS_Subset, FS_CardinalityType
<1>3. ASSUME NEW i \in I, NEW j \in I, i < j
      PROVE  Cardinality(Below(i)) < Cardinality(Below(j))
  <2>1. Below(i) \cup {i} \in SUBSET Below(j) /\ i \notin Below(i)
    <3>1. i \in Int /\ j \in Int /\ \A x \in I : x \in Int
      OBVIOUS
    <3>2. \A x \in Below(i) : x \in I /\ x < j
      BY <1>3, <3>1
    <3>3. i \in Below(j) /\ i \notin Below(i)
      BY <1>3, <3>1
    <3> QED BY <3>2, <3>3
  <2>2. IsFiniteSet(Below(i)) /\ IsFiniteSet(Below(j))
    BY <1>2
  <2>3. Cardinality(Below(i)) \in Nat /\ Cardinality(Below(j)) \in Nat
    BY <1>2
  <2> HIDE DEF Below
  <2>4. Cardinality(Below(i) \cup {i}) = Cardinality(Below(i)) + 1
    BY <2>1, <2>2, FS_AddElement
  <2>5. Cardinality(Below(i) \cup {i}) <= Cardinality(Below(j))
    BY <2>1, <2>2, FS_Subset
  <2> QED BY <2>3, <2>4, <2>5
<1>4. g \in Injection(I, 1..n)
  <2>1. g \in [I -> 1..n]
    <3> HIDE DEF Below, n
    <3> QED BY <1>1, <1>2
  <2>2. ASSUME NEW i \in I, NEW j \in I, g[i] = g[j]
        PROVE  i = j
    <3>1. Cardinality(Below(i)) \in Nat /\ Cardinality(Below(j)) \in Nat
      BY <1>2
    <3>2. i \in Nat /\ j \in Nat
      OBVIOUS
    <3> HIDE DEF Below
    <3>3. Cardinality(Below(i)) = Cardinality(Below(j))
      BY <2>2, <3>1
    <3> QED BY <1>3, <3>1, <3>2, <3>3
  <2> HIDE DEF g
  <2> QED BY <2>1, <2>2 DEF Injection, IsInjective
<1>5. g \in Surjection(I, 1..n)
  <2> HIDE DEF g
  <2> QED BY <1>1, <1>4, FS_Injection
<1>6. \A k \in 1..n : \E i \in I : Cardinality(Below(i)) = k - 1
  <2> SUFFICES ASSUME NEW k \in 1..n
               PROVE  \E i \in I : Cardinality(Below(i)) = k - 1
    OBVIOUS
  <2>1. PICK i \in I : g[i] = k
    <3> HIDE DEF g
    <3> QED BY <1>5 DEF Surjection
  <2>2. Cardinality(Below(i)) \in Nat
    BY <1>2
  <2> HIDE DEF Below
  <2> QED BY <1>1, <2>1, <2>2
<1>7. \A k \in 1..n : Nth(I, k) \in I /\ Cardinality(Below(Nth(I, k))) = k - 1
  BY <1>6 DEF Nth
<1>8. ASSUME NEW k \in 1..n, NEW l \in 1..n, Nth(I, k) = Nth(I, l)
      PROVE  k = l
  <2>1. k - 1 = l - 1
    BY <1>7, <1>8
  <2> QED BY <1>1, <2>1
<1>9. ASSUME NEW i \in I
      PROVE  \E k \in 1..n : Nth(I, k) = i
  <2> DEFINE k == g[i]
  <2>1. k \in 1..n /\ Cardinality(Below(i)) = k - 1
    <3>1. Cardinality(Below(i)) \in Nat /\ Cardinality(Below(i)) < n
      BY <1>2
    <3> HIDE DEF Below, n
    <3> QED BY <1>1, <3>1
  <2> HIDE DEF k, g
  <2>2. Nth(I, k) \in I /\ Cardinality(Below(Nth(I, k))) = Cardinality(Below(i))
    BY <1>7, <2>1
  <2>3. Cardinality(Below(i)) \in Nat /\ Nth(I, k) \in Nat /\ i \in Nat
    BY <1>2, <2>2
  <2> HIDE DEF Below
  <2>4. Nth(I, k) = i
    BY <1>3, <2>2, <2>3
  <2> QED BY <2>1, <2>4
<1> QED BY <1>7, <1>8, <1>9

\* Dropping the rows whose judging stopped short drops no other and makes none.
LEMMA CompleteKeeps ==
  ASSUME NEW S, NEW rows \in Seq(S)
  PROVE  /\ Complete(rows) \in Seq(S)
         /\ Range(Complete(rows)) = {r \in Range(rows) : SeededComplete(r)}
         /\ Distinct(rows) => Distinct(Complete(rows))
<1> DEFINE I == {i \in DOMAIN rows : SeededComplete(rows[i])}
           n == Cardinality(I)
           c == [k \in 1..n |-> rows[Nth(I, k)]]
<1>1. I \in SUBSET Nat /\ IsFiniteSet(I) /\ n \in Nat
  <2>1. DOMAIN rows = 1..Len(rows) /\ Len(rows) \in Nat
    OBVIOUS
  <2>2. IsFiniteSet(1..Len(rows))
    BY <2>1, FS_Interval
  <2> QED BY <2>1, <2>2, FS_Subset, FS_CardinalityType
<1>2. Complete(rows) = c
  BY DEF Complete
<1>3. /\ \A k \in 1..n : Nth(I, k) \in I
      /\ \A k, l \in 1..n : Nth(I, k) = Nth(I, l) => k = l
      /\ \A i \in I : \E k \in 1..n : Nth(I, k) = i
  <2> HIDE DEF I
  <2> QED BY <1>1, NthEnumerates
<1>4. \A k \in 1..n : /\ Nth(I, k) \in DOMAIN rows /\ SeededComplete(rows[Nth(I, k)])
                      /\ c[k] = rows[Nth(I, k)]
  BY <1>3
<1>5. c \in Seq(S) /\ DOMAIN c = 1..n
  <2>1. \A k \in 1..n : rows[Nth(I, k)] \in S
    BY <1>4
  <2> HIDE DEF n
  <2>2. c \in [1..n -> S]
    BY <2>1
  <2> QED BY <1>1, <2>2
<1>6. Range(c) = {r \in Range(rows) : SeededComplete(r)}
  <2>1. ASSUME NEW r \in Range(c)
        PROVE  r \in Range(rows) /\ SeededComplete(r)
    BY <1>4, <1>5 DEF Range
  <2>2. ASSUME NEW r \in Range(rows), SeededComplete(r)
        PROVE  r \in Range(c)
    <3>1. PICK i \in I : r = rows[i]
      BY <2>2 DEF Range
    <3>2. PICK k \in 1..n : Nth(I, k) = i
      BY <1>3
    <3>3. r = c[k]
      BY <1>4, <3>1, <3>2
    <3> HIDE DEF c
    <3> QED BY <1>5, <3>3 DEF Range
  <2> QED BY <2>1, <2>2
<1>7. Distinct(rows) => Distinct(c)
  <2> HIDE DEF c, n, I
  <2> QED BY <1>3, <1>4, <1>5 DEF Distinct
<1> HIDE DEF c
<1> QED BY <1>2, <1>5, <1>6, <1>7

\* What a file holds once a row was appended.
LEMMA RowMore ==
  ASSUME NEW S, NEW rows \in Seq(S), NEW r \in S
  PROVE  /\ Append(rows, r) \in Seq(S)
         /\ Range(Append(rows, r)) = Range(rows) \cup {r}
         /\ Distinct(rows) /\ r.id \notin Ids(rows) => Distinct(Append(rows, r))
<1> DEFINE s == Append(rows, r)
           n == Len(rows)
<1>1. s \in Seq(S) /\ n \in Nat /\ DOMAIN rows = 1..n /\ DOMAIN s = 1..(n + 1)
  OBVIOUS
<1>2. (\A i \in 1..n : s[i] = rows[i]) /\ s[n + 1] = r
  OBVIOUS
<1> HIDE DEF s, n
<1>3. Range(s) = Range(rows) \cup {r}
  <2>1. \A i \in DOMAIN s : i \in 1..n \/ i = n + 1
    BY <1>1
  <2>2. 1..n \subseteq DOMAIN s /\ n + 1 \in DOMAIN s
    BY <1>1
  <2> QED BY <1>1, <1>2, <2>1, <2>2 DEF Range
<1>4. ASSUME Distinct(rows), r.id \notin Ids(rows)
      PROVE  Distinct(s)
  <2>1. \A i \in 1..n : rows[i].id # r.id
    BY <1>1, <1>4 DEF Ids, Range
  <2> QED BY <1>1, <1>2, <1>4, <2>1 DEF Distinct
<1> QED BY <1>1, <1>3, <1>4 DEF s

\* Where no problem has two rows, there are as many problems as rows.
LEMMA DistinctCount ==
  ASSUME NEW S, NEW rows \in Seq(S), Distinct(rows)
  PROVE  Cardinality(Ids(rows)) = Len(rows)
<1> DEFINE f == [i \in 1..Len(rows) |-> rows[i].id]
<1>1. DOMAIN rows = 1..Len(rows) /\ Len(rows) \in Nat
  OBVIOUS
<1>2. f \in Bijection(1..Len(rows), Ids(rows))
  <2>1. Ids(rows) = {rows[i].id : i \in 1..Len(rows)}
    BY <1>1 DEF Ids, Range
  <2>2. f \in [1..Len(rows) -> Ids(rows)]
    BY <2>1
  <2>3. \A i, j \in 1..Len(rows) : f[i] = f[j] => i = j
    BY <1>1 DEF Distinct
  <2>4. \A x \in Ids(rows) : \E i \in 1..Len(rows) : f[i] = x
    BY <2>1
  <2> HIDE DEF f
  <2> QED BY <2>2, <2>3, <2>4 DEF Bijection, Injection, Surjection, IsInjective
<1>3. IsFiniteSet(1..Len(rows)) /\ Cardinality(1..Len(rows)) = Len(rows)
  <2>1. 1 \in Int /\ Len(rows) \in Int
    BY <1>1
  <2>2. /\ IsFiniteSet(1..Len(rows))
        /\ Cardinality(1..Len(rows)) = IF 1 > Len(rows) THEN 0 ELSE Len(rows) - 1 + 1
    BY <2>1, FS_Interval, Zenon
  <2> QED BY <1>1, <2>2
<1> HIDE DEF f
<1> QED BY <1>2, <1>3, FS_Bijection DEF ExistsBijection

-----------------------------------------------------------------------------
(* The calls.                                                              *)

LEMMA CallsAre ==
  ASSUME Typed
  PROVE  /\ mode = "calibrate" => Calls = Profile
         /\ mode = "judge" => Calls = ProfileJudge
         /\ mode = "compare" => Calls = ProfilePaired
         /\ mode = "sweep" => Calls = ProfileStrictnessReplay
         /\ mode = "estimator" => Calls = EstimateOracleGap
         /\ mode = "seeded" => Calls = ProfileSeeded
         /\ mode = "selfconsistency" => Calls = SelfConsistency
BY DEF Calls

\* How many calls a problem takes where two arms are compared.
LEMMA CallsOfTwoArms ==
  ASSUME Typed, TwoArms
  PROVE  /\ LastCall = (IF mode = "compare" THEN 3 ELSE 2) + Tiers * 4
         /\ Tiers * 4 \in Nat
<1>1. Rounds = Tiers
  BY DEF Rounds, TwoArms
<1>2. CASE mode = "compare"
  <2>1. Len(Calls.once) = 3 /\ Len(Calls.round) = 4
    BY <1>2, CallsAre DEF ProfilePaired
  <2> QED BY <1>1, <1>2, <2>1, CollectAssumption DEF LastCall
<1>3. CASE mode = "sweep"
  <2>1. Len(Calls.once) = 2 /\ Len(Calls.round) = 4
    BY <1>3, CallsAre DEF ProfileStrictnessReplay
  <2> QED BY <1>1, <1>3, <2>1, CollectAssumption DEF LastCall
<1> QED BY <1>2, <1>3 DEF TwoArms

\* Where the calls are that the rows depend on.
LEMMA CallPlaces ==
  ASSUME Typed, pc <= LastCall
  PROVE  /\ Call = "gate" => pc <= 3 /\ mode \in {"calibrate", "compare"}
         /\ mode \in {"calibrate", "compare"} /\ pc = 4 => Call = "check"
         /\ TwoArms /\ pc = LastCall => Call = "judge"
         /\ mode = "seeded" /\ Call = "harvest" => pc = 4
         /\ mode = "seeded" /\ Call = "judge" => pc > 4
<1> USE DEF TwoArms
<1>1. pc \in Nat \ {0}
  BY DEF Typed
<1>2. CASE mode = "calibrate"
  <2>1. /\ pc <= 3 => Call = <<"spec", "gate", "plan">>[pc]
        /\ pc > 3 => /\ Call = <<"check", "sample", "accept">>[1 + ((pc - 1 - 3) % 3)]
                     /\ (pc - 1 - 3) % 3 \in 0..2
    <3>1. Calls = Profile
      BY <1>2, CallsAre
    <3> QED BY <1>1, <3>1 DEF Call, Profile
  <2>2. pc > 3 => Call \in {"check", "sample", "accept"}
    BY <2>1
  <2>3. pc = 4 => Call = "check"
    BY <2>1
  <2> QED BY <1>1, <1>2, <2>2, <2>3
<1>3. CASE mode = "judge"
  <2>1. /\ pc <= 2 => Call = <<"spec", "plan">>[pc]
        /\ pc > 2 => /\ Call = <<"check", "sample", "judge", "accept">>[1 + ((pc - 1 - 2) % 4)]
                     /\ (pc - 1 - 2) % 4 \in 0..3
    <3>1. Calls = ProfileJudge
      BY <1>3, CallsAre
    <3> QED BY <1>1, <3>1 DEF Call, ProfileJudge
  <2>2. pc > 2 => Call # "gate"
    BY <2>1
  <2>3. pc <= 2 => Call # "gate"
    BY <1>1, <2>1
  <2> QED BY <1>1, <1>3, <2>2, <2>3
<1>4. CASE mode = "compare"
  <2>1. /\ pc <= 3 => Call = <<"spec", "gate", "plan">>[pc]
        /\ pc > 3 => /\ Call = <<"check", "sample", "accept", "judge">>[1 + ((pc - 1 - 3) % 4)]
                     /\ (pc - 1 - 3) % 4 \in 0..3
    <3>1. Calls = ProfilePaired
      BY <1>4, CallsAre
    <3> QED BY <1>1, <3>1 DEF Call, ProfilePaired
  <2>2. pc > 3 => Call \in {"check", "sample", "accept", "judge"}
    BY <2>1
  <2>3. pc = 4 => Call = "check"
    BY <2>1
  <2>4. ASSUME pc = LastCall PROVE Call = "judge"
    <3>1. pc = 3 + Tiers * 4 /\ pc > 3
      BY <1>4, <2>4, CallsOfTwoArms, CollectAssumption
    <3>2. (pc - 1 - 3) % 4 = 3
      BY <3>1, CollectAssumption
    <3> QED BY <2>1, <3>1, <3>2
  <2> QED BY <1>1, <1>4, <2>2, <2>3, <2>4
<1>5. CASE mode = "sweep"
  <2>1. /\ pc <= 2 => Call = <<"spec", "plan">>[pc]
        /\ pc > 2 => /\ Call = <<"check", "sample", "accept", "judge">>[1 + ((pc - 1 - 2) % 4)]
                     /\ (pc - 1 - 2) % 4 \in 0..3
    <3>1. Calls = ProfileStrictnessReplay
      BY <1>5, CallsAre
    <3> QED BY <1>1, <3>1 DEF Call, ProfileStrictnessReplay
  <2>2. pc > 2 => Call # "gate"
    BY <2>1
  <2>3. pc <= 2 => Call # "gate"
    BY <1>1, <2>1
  <2>4. ASSUME pc = LastCall PROVE Call = "judge"
    <3>1. pc = 2 + Tiers * 4 /\ pc > 2
      BY <1>5, <2>4, CallsOfTwoArms, CollectAssumption
    <3>2. (pc - 1 - 2) % 4 = 3
      BY <3>1, CollectAssumption
    <3> QED BY <2>1, <3>1, <3>2
  <2> QED BY <1>1, <1>5, <2>2, <2>3, <2>4
<1>6. CASE mode = "estimator"
  <2>1. /\ pc <= 2 => Call = <<"spec", "plan">>[pc]
        /\ pc > 2 =>
             /\ Call = <<"check", "sample", "accept", "canonical", "mutants">>[1 + ((pc - 1 - 2) % 5)]
             /\ (pc - 1 - 2) % 5 \in 0..4
    <3>1. Calls = EstimateOracleGap
      BY <1>6, CallsAre
    <3> QED BY <1>1, <3>1 DEF Call, EstimateOracleGap
  <2>2. pc > 2 => Call # "gate"
    BY <2>1
  <2>3. pc <= 2 => Call # "gate"
    BY <1>1, <2>1
  <2> QED BY <1>1, <1>6, <2>2, <2>3
<1>7. CASE mode = "seeded"
  <2>1. /\ pc <= 4 => Call = <<"spec", "plan", "sample", "harvest">>[pc]
        /\ pc > 4 => /\ Call = <<"judge">>[1 + ((pc - 1 - 4) % 1)]
                     /\ (pc - 1 - 4) % 1 \in 0..0
    <3>1. Calls = ProfileSeeded
      BY <1>7, CallsAre
    <3> QED BY <1>1, <3>1 DEF Call, ProfileSeeded
  <2>2. pc > 4 => Call = "judge"
    BY <2>1
  <2>3. pc <= 4 => Call \in {"spec", "plan", "sample", "harvest"} /\ (Call = "harvest" => pc = 4)
    BY <1>1, <2>1
  <2> QED BY <1>1, <1>7, <2>2, <2>3
<1>8. CASE mode = "selfconsistency"
  <2>1. Calls.once = <<"spec", "plan", "sample", "sample", "text", "accept">> /\ Calls.round = <<>>
    BY <1>8, CallsAre DEF SelfConsistency
  <2>2. Rounds = Tiers
    BY <1>8 DEF Rounds
  <2>3. LastCall = 6
    BY <2>1, <2>2, CollectAssumption DEF LastCall
  <2>4. Call # "gate"
    BY <1>1, <2>1, <2>3 DEF Call
  <2> QED BY <1>8, <2>4
<1> QED BY <1>2, <1>3, <1>4, <1>5, <1>6, <1>7, <1>8, CollectAssumption DEF Typed

-----------------------------------------------------------------------------
(* What the parts of a step do to the invariant.                            *)

\* Where neither the files nor memory changes.
LEMMA FilesStay ==
  ASSUME IInv, UNCHANGED <<fixed, disk, mem>>, phase # "off",
         phase' = "write judge" => phase = "write judge"
  PROVE  /\ FilesDistinct' /\ JudgeArmIsPart' /\ MemoryHasTheFile'
         /\ \A r \in Rows' : RowSound(r)'
<1> USE DEF IInv, FilesInv, RowsInv, fixed
<1>1. FilesDistinct'
  BY DEF FilesDistinct, Distinct
<1>2. JudgeArmIsPart'
  BY DEF JudgeArmIsPart, TwoArms
<1>3. MemoryHasTheFile'
  BY DEF MemoryHasTheFile, TwoArms, Finished
<1>4. ASSUME NEW r \in Rows'
      PROVE  RowSound(r)'
  <2>1. RowSound(r)
    BY <1>4 DEF Rows
  <2> QED BY <2>1 DEF RowSound, Earned, SeedsSound
<1> QED BY <1>1, <1>2, <1>3, <1>4

\* The rest of the invariant of a row at work that went through a call.
LEMMA WorkMoves ==
  ASSUME IInv, phase = "work", pc <= LastCall, NEW r \in Row, NEW c \in BOOLEAN,
         ctx => c, Call = "check" => ~ctx,
         r.id = row.id,
         (r.oracle = row.oracle /\ r.late = row.late) \/ (Call = "gate" /\ (Earned(r) \/ c)),
         r.spoiled = row.spoiled \/ c,
         TwoArms /\ Call = "judge" /\ r.won => ~c,
         \/ /\ r.seeds = row.seeds /\ r.slow = row.slow
            /\ r.judged = row.judged \/ (Call = "judge" /\ ~ctx)
         \/ /\ Call = "harvest" /\ r.judged = row.judged
            /\ SeedsSound(r) \/ c
  PROVE  WorkSound(r, pc + 1, c)
<1> USE DEF IInv, RowsInv
<1>1. WorkSound(row, pc, ctx)
  OBVIOUS
<1>2. pc \in Nat \ {0}
  BY DEF Typed
<1>3. Earned(r) \/ (c /\ mode \in {"calibrate", "compare"} /\ pc + 1 <= 4)
  <2>1. CASE Earned(r)
    BY <2>1
  <2>2. CASE Call = "gate" /\ c
    BY <1>2, <2>2, CallPlaces
  <2>3. CASE ~Earned(r) /\ r.oracle = row.oracle /\ r.late = row.late
    <3>1. ~Earned(row)
      BY <2>3 DEF Earned
    <3>2. ctx /\ mode \in {"calibrate", "compare"} /\ pc <= 4
      BY <1>1, <3>1 DEF WorkSound
    <3>3. pc # 4
      BY <3>2, CallPlaces
    <3> QED BY <1>2, <3>2, <3>3
  <2> QED BY <2>1, <2>2, <2>3
<1>4. r.spoiled # {} => c
  BY <1>1 DEF WorkSound
<1>5. mode \in {"compare", "sweep"} /\ pc + 1 > LastCall /\ r.won => r.spoiled = {}
  <2> SUFFICES ASSUME mode \in {"compare", "sweep"}, pc + 1 > LastCall, r.won
               PROVE  ~c
    BY <1>4
  <2>1. TwoArms
    BY DEF TwoArms
  <2>2. LastCall \in Int
    BY <2>1, CallsOfTwoArms
  <2>3. pc = LastCall
    BY <1>2, <2>2
  <2> QED BY <2>1, <2>3, CallPlaces
<1>6. ASSUME mode = "seeded"
      PROVE  /\ SeedsSound(r) \/ (c /\ r.judged = 0)
             /\ pc + 1 <= 4 => r.judged = 0
  <2>1. /\ SeedsSound(row) \/ (ctx /\ row.judged = 0)
        /\ pc <= 4 => row.judged = 0
    BY <1>1, <1>6 DEF WorkSound
  <2>2. SeedsSound(r) \/ (c /\ r.judged = 0)
    <3>1. CASE r.seeds = row.seeds /\ r.slow = row.slow /\ (r.judged = row.judged \/ (Call = "judge" /\ ~ctx))
      BY <2>1, <3>1 DEF SeedsSound
    <3>2. CASE Call = "harvest" /\ r.judged = row.judged /\ (SeedsSound(r) \/ c)
      BY <1>2, <1>6, <2>1, <3>2, CallPlaces
    <3> QED BY <3>1, <3>2
  <2>3. pc + 1 <= 4 => r.judged = 0
    <3>1. Call = "judge" => pc > 4
      BY <1>6, CallPlaces
    <3> QED BY <1>2, <2>1, <3>1
  <2> QED BY <2>2, <2>3
<1> QED BY <1>3, <1>4, <1>5, <1>6 DEF WorkSound

\* A call that the row goes through.
LEMMA PassKeeps ==
  ASSUME IInv, phase = "work", pc <= LastCall, NEW r \in Row, NEW c \in BOOLEAN,
         Passes(r, c), r.id = row.id,
         ctx => c, Call = "check" => ~ctx,
         (r.oracle = row.oracle /\ r.late = row.late) \/ (Call = "gate" /\ (Earned(r) \/ c)),
         r.spoiled = row.spoiled \/ c,
         TwoArms /\ Call = "judge" /\ r.won => ~c,
         \/ /\ r.seeds = row.seeds /\ r.slow = row.slow
            /\ r.judged = row.judged \/ (Call = "judge" /\ ~ctx)
         \/ /\ Call = "harvest" /\ r.judged = row.judged
            /\ SeedsSound(r) \/ c
  PROVE  IInv'
<1>1. WorkSound(r, pc + 1, c)
  BY WorkMoves
<1> USE DEF Passes, IInv
<1>2. Typed'
  BY DEF Typed, fixed, File
<1>3. phase = phase' /\ phase # "off" /\ UNCHANGED <<fixed, disk, mem>>
  OBVIOUS
<1>4. /\ FilesDistinct' /\ JudgeArmIsPart' /\ MemoryHasTheFile'
      /\ \A s \in Rows' : RowSound(s)'
  BY <1>3, FilesStay
<1>5. AtWork'
  BY DEF FilesInv, AtWork
<1>6. WorkSound(row, pc, ctx)'
  <2>1. mode' = mode /\ (mode \in {"compare", "sweep"} => Rounds' = Rounds)
    BY DEF fixed, Rounds
  <2>2. Calls' = Calls
    BY <2>1 DEF Calls
  <2>3. mode \in {"compare", "sweep"} => LastCall' = LastCall
    BY <2>1, <2>2 DEF LastCall
  <2>4. row' = r /\ pc' = pc + 1 /\ ctx' = c /\ mode' = mode /\ kind' = kind /\ suite' = suite
    BY DEF fixed
  <2> QED BY <1>1, <2>3, <2>4 DEF WorkSound, Earned, SeedsSound
<1> QED BY <1>2, <1>4, <1>5, <1>6 DEF FilesInv, RowsInv

LEMMA BlankTyped == Blank \in Row
BY DEF Blank, Row

LEMMA NewRowTyped ==
  ASSUME at \in Nat, runs \in Nat
  PROVE  NewRow \in Row
BY DEF NewRow, Blank, Row

\* The problem is given up, or passed over, or there is none left.
LEMMA LoopKeeps ==
  ASSUME IInv, UNCHANGED <<fixed, disk, mem>>, phase # "off",
         phase' \in {"loop", "write"}, at' \in Nat \ {0}, pc' \in Nat \ {0},
         row' \in Row, runs' \in Nat, ctx' \in BOOLEAN
  PROVE  IInv'
<1> USE DEF IInv
<1>1. Typed'
  BY DEF Typed, fixed
<1>2. /\ FilesDistinct' /\ JudgeArmIsPart' /\ MemoryHasTheFile'
      /\ \A r \in Rows' : RowSound(r)'
  BY FilesStay
<1> QED BY <1>1, <1>2 DEF FilesInv, RowsInv, AtWork

LEMMA AbandonKeeps ==
  ASSUME IInv, phase = "work", Abandon
  PROVE  IInv'
<1>2. Blank \in Row
  BY BlankTyped
<1>3. at + 1 \in Nat \ {0} /\ runs \in Nat /\ ctx \in BOOLEAN
  BY DEF IInv, Typed
<1> QED BY <1>2, <1>3, LoopKeeps DEF Abandon

LEMMA SkipDoneKeeps ==
  ASSUME IInv, SkipDone
  PROVE  IInv'
<1>1. at \in Nat \ {0} /\ pc \in Nat \ {0} /\ row \in Row /\ runs \in Nat /\ ctx \in BOOLEAN
  BY DEF IInv, Typed
<1>2. at + 1 \in Nat \ {0}
  BY <1>1
<1> QED BY <1>1, <1>2, LoopKeeps DEF SkipDone

LEMMA StopLoopKeeps ==
  ASSUME IInv, StopLoop
  PROVE  IInv'
<1>1. /\ at \in Nat \ {0} /\ pc \in Nat \ {0} /\ row \in Row /\ runs \in Nat
      /\ ctx \in BOOLEAN
  BY DEF IInv, Typed
<1> QED BY <1>1, LoopKeeps DEF StopLoop

LEMMA TakeProblemKeeps ==
  ASSUME IInv, TakeProblem
  PROVE  IInv'
<1> USE DEF IInv, TakeProblem
<1>1. at \in Nat \ {0} /\ runs \in Nat
  BY DEF Typed
<1>2. NewRow \in Row
  BY <1>1, NewRowTyped
<1>3. Typed'
  BY <1>2 DEF Typed, fixed
<1>4. /\ FilesDistinct' /\ JudgeArmIsPart' /\ MemoryHasTheFile'
      /\ \A r \in Rows' : RowSound(r)'
  BY FilesStay
<1>5. /\ NewRow.id = at /\ NewRow.oracle = "sound" /\ NewRow.spoiled = {}
      /\ NewRow.seeds = {} /\ NewRow.judged = 0
  BY DEF NewRow, Blank
<1>6. AtWork'
  BY <1>5 DEF AtWork, Done
<1>7. WorkSound(row, pc, ctx)'
  BY <1>5 DEF WorkSound, Earned, SeedsSound
<1> QED BY <1>3, <1>4, <1>6, <1>7 DEF FilesInv, RowsInv

LEMMA SignalKeeps ==
  ASSUME IInv, Signal
  PROVE  IInv'
<1> USE DEF IInv, Signal
<1>1. Typed'
  BY DEF Typed, fixed
<1>2. /\ FilesDistinct' /\ JudgeArmIsPart' /\ MemoryHasTheFile'
      /\ \A r \in Rows' : RowSound(r)'
  BY FilesStay
<1>3. AtWork'
  BY DEF FilesInv, AtWork
<1>4. ASSUME phase = "work"
      PROVE  WorkSound(row, pc, ctx)'
  <2>1. WorkSound(row, pc, ctx) /\ ~ctx /\ ctx'
    BY <1>4 DEF RowsInv
  <2>2. mode' = mode /\ LastCall' = LastCall
    <3>1. mode' = mode /\ row' = row
      BY DEF fixed
    <3>2. Calls' = Calls /\ Rounds' = Rounds
      BY <3>1 DEF Calls, Rounds
    <3> QED BY <3>1, <3>2 DEF LastCall
  <2>3. Earned(row) /\ row.spoiled = {} /\ (mode = "seeded" => SeedsSound(row))
    BY <2>1 DEF WorkSound
  <2>4. Earned(row)' /\ (mode = "seeded" => SeedsSound(row)')
    BY <2>3 DEF Earned, SeedsSound, fixed
  <2> QED BY <2>1, <2>2, <2>3, <2>4 DEF WorkSound
<1> QED BY <1>1, <1>2, <1>3, <1>4 DEF FilesInv, RowsInv

-----------------------------------------------------------------------------
(* The calls keep the invariant.                                            *)

LEMMA SkipCallKeeps ==
  ASSUME IInv, SkipCall
  PROVE  IInv'
<1>1. row \in Row /\ ctx \in BOOLEAN
  BY DEF IInv, Typed
<1>2. Call \in {"accept", "canonical", "mutants", "harvest", "judge"} \/ BudgetSpent
  BY DEF SkipCall, Skipped
<1>3. TwoArms => Call # "judge" \/ ~row.won
  BY DEF SkipCall, Skipped, BudgetSpent, TwoArms
<1>4. Call # "check"
  <2>1. CASE BudgetSpent
    <3>1. Calls = SelfConsistency /\ pc = 4
      BY <2>1, CallsAre DEF BudgetSpent, IInv
    <3> QED BY <3>1 DEF Call, SelfConsistency
  <2> QED BY <1>2, <2>1
<1>5. SkipCall => phase = "work" /\ pc <= LastCall /\ Passes(row, ctx)
  BY DEF SkipCall
<1> QED BY <1>1, <1>3, <1>4, <1>5, PassKeeps

LEMMA CheckKeeps ==
  ASSUME IInv, Check
  PROVE  IInv'
<1>1. phase = "work" /\ pc <= LastCall /\ Call = "check"
  BY DEF Check, AtCall
<1>2. CASE ctx
  BY <1>1, <1>2, AbandonKeeps DEF Check
<1>3. CASE ~ctx
  <2> DEFINE r == [row EXCEPT !.won = FALSE]
  <2>1. /\ r \in Row /\ r.id = row.id /\ r.oracle = row.oracle /\ r.late = row.late
        /\ r.spoiled = row.spoiled /\ r.seeds = row.seeds /\ r.slow = row.slow /\ r.judged = row.judged
    BY DEF IInv, Typed, Row
  <2>2. Passes(r, ctx) /\ ctx \in BOOLEAN
    BY <1>3 DEF Check, IInv, Typed
  <2> HIDE DEF r
  <2> QED BY <1>1, <1>3, <2>1, <2>2, PassKeeps
<1> QED BY <1>2, <1>3

LEMMA SpoiledTyped ==
  ASSUME NEW r \in Row, NEW x \in Children
  PROVE  r.spoiled \cup {x} \in SUBSET Children
<1>1. \A y \in r.spoiled : y \in Children
  BY DEF Row
<1> QED BY <1>1

\* A sample ends, or the context ends during it.
LEMMA CallSampleKeeps ==
  ASSUME IInv, CallSample
  PROVE  IInv'
<1>1. phase = "work" /\ pc <= LastCall /\ Call = "sample"
  BY DEF CallSample, AtCall
<1>2. row \in Row /\ ctx \in BOOLEAN
  BY DEF IInv, Typed
<1>3. PICK survives \in BOOLEAN :
        LET won == survives \/ (mode = "selfconsistency" /\ row.won)
        IN \/ ~ctx /\ Passes([row EXCEPT !.won = won], ctx)
           \/ ~ctx /\ Passes([row EXCEPT !.won = won, !.spoiled = @ \cup {"sample"}], TRUE)
           \/ Abandon
  BY DEF CallSample
<1> DEFINE won == survives \/ (mode = "selfconsistency" /\ row.won)
           r == [row EXCEPT !.won = won]
           sp == row.spoiled \cup {"sample"}
           s == [row EXCEPT !.won = won, !.spoiled = sp]
<1>4. won \in BOOLEAN /\ sp \in SUBSET Children
  BY <1>2, SpoiledTyped, Zenon DEF Children
<1>5. (~ctx /\ Passes(r, ctx)) \/ (~ctx /\ Passes(s, TRUE)) \/ Abandon
  BY <1>3
<1> HIDE DEF won, sp
<1>6. /\ r \in Row /\ r.id = row.id /\ r.oracle = row.oracle /\ r.late = row.late
      /\ r.spoiled = row.spoiled /\ r.seeds = row.seeds /\ r.slow = row.slow /\ r.judged = row.judged
  BY <1>2, <1>4 DEF Row
<1>7. /\ s \in Row /\ s.id = row.id /\ s.oracle = row.oracle /\ s.late = row.late
      /\ s.seeds = row.seeds /\ s.slow = row.slow /\ s.judged = row.judged
  BY <1>2, <1>4 DEF Row
<1> HIDE DEF r, s
<1>8. CASE Abandon
  BY <1>1, <1>8, AbandonKeeps
<1>9. CASE ~ctx /\ Passes(r, ctx)
  BY <1>1, <1>2, <1>6, <1>9, PassKeeps
<1>10. CASE ~ctx /\ Passes(s, TRUE)
  BY <1>1, <1>2, <1>7, <1>10, PassKeeps
<1> QED BY <1>5, <1>8, <1>9, <1>10

\* A child ends or is killed: the row is as it says, or it was spoiled as the context
\* ended.
LEMMA ChildEndsIs ==
  ASSUME NEW whole, NEW cut, ChildEnds(whole, cut)
  PROVE  (~ctx /\ Passes(whole, ctx)) \/ Passes(cut, TRUE) \/ (ctx /\ Passes(cut, ctx))
BY DEF ChildEnds

LEMMA CallVerifyKeeps ==
  ASSUME IInv, CallVerify
  PROVE  IInv'
<1>1. /\ phase = "work" /\ pc <= LastCall
      /\ Call \in {"accept", "text", "canonical", "mutants"}
  BY DEF CallVerify, AtCall
<1>2. row \in Row /\ ctx \in BOOLEAN
  BY DEF IInv, Typed
<1> DEFINE sp == row.spoiled \cup {Call}
           s == [row EXCEPT !.spoiled = sp]
<1>4. (~ctx /\ Passes(row, ctx)) \/ Passes(s, TRUE) \/ (ctx /\ Passes(s, ctx))
  BY ChildEndsIs DEF CallVerify
<1>8. sp \in SUBSET Children
  BY <1>1, <1>2, SpoiledTyped DEF Children
<1> HIDE DEF sp
<1>3. /\ s \in Row /\ s.id = row.id /\ s.oracle = row.oracle /\ s.late = row.late
      /\ s.seeds = row.seeds /\ s.slow = row.slow /\ s.judged = row.judged
  BY <1>2, <1>8 DEF Row
<1> HIDE DEF s
<1>5. CASE ~ctx /\ Passes(row, ctx)
  BY <1>1, <1>2, <1>5, PassKeeps
<1>6. CASE Passes(s, TRUE)
  BY <1>1, <1>2, <1>3, <1>6, PassKeeps
<1>7. CASE ctx /\ Passes(s, ctx)
  BY <1>1, <1>2, <1>3, <1>7, PassKeeps
<1> QED BY <1>4, <1>5, <1>6, <1>7

\* What the gate says of a suite where nothing cut its run.
LEMMA GateIsEarned ==
  ASSUME NEW s \in Suites, NEW run \in RefRuns(s), ValidateOracle(run) = "unsound"
  PROVE  s \in {"wrong", "malformed"} \/ Unlucky(s, run)
BY DEF Suites, RefRuns, ValidateOracle, Unlucky

LEMMA CallGateKeeps ==
  ASSUME IInv, CallGate
  PROVE  IInv'
<1>1. phase = "work" /\ pc <= LastCall /\ Call = "gate"
  BY DEF CallGate, AtCall
<1>2. row \in Row /\ ctx \in BOOLEAN /\ suite \in [1..Problems -> Suites]
  BY DEF IInv, Typed
<1>3. row.id = at /\ suite[at] \in Suites
  BY <1>1, <1>2 DEF IInv, FilesInv, AtWork, Typed
<1>4. PICK run \in RefRuns(suite[at]), cut \in AnyRefRun :
        ChildEnds([row EXCEPT !.oracle = ValidateOracle(run), !.late = Unlucky(suite[at], run)],
                  [row EXCEPT !.oracle = ValidateOracle(cut), !.spoiled = @ \cup {"gate"}])
  BY DEF CallGate
<1> DEFINE r == [row EXCEPT !.oracle = ValidateOracle(run), !.late = Unlucky(suite[at], run)]
           sp == row.spoiled \cup {"gate"}
           s == [row EXCEPT !.oracle = ValidateOracle(cut), !.spoiled = sp]
<1>5. (~ctx /\ Passes(r, ctx)) \/ Passes(s, TRUE) \/ (ctx /\ Passes(s, ctx))
  BY <1>4, ChildEndsIs
<1>6. /\ ValidateOracle(run) \in {"sound", "unsound", "inconclusive"}
      /\ ValidateOracle(cut) \in {"sound", "unsound", "inconclusive"}
      /\ Unlucky(suite[at], run) \in BOOLEAN
  BY DEF RefRuns, AnyRefRun, ValidateOracle, Unlucky
<1>7. /\ r \in Row /\ r.id = row.id /\ r.spoiled = row.spoiled
      /\ r.seeds = row.seeds /\ r.slow = row.slow /\ r.judged = row.judged
      /\ r.oracle = ValidateOracle(run) /\ r.late = Unlucky(suite[at], run)
  BY <1>2, <1>6 DEF Row
<1>13. sp \in SUBSET Children
  BY <1>2, SpoiledTyped, Zenon DEF Children
<1> HIDE DEF sp
<1>8. /\ s \in Row /\ s.id = row.id /\ s.seeds = row.seeds /\ s.slow = row.slow /\ s.judged = row.judged
  BY <1>2, <1>6, <1>13 DEF Row
<1> HIDE DEF r, s
<1>9. Earned(r)
  BY <1>3, <1>7, GateIsEarned DEF Earned
<1>10. CASE ~ctx /\ Passes(r, ctx)
  BY <1>1, <1>2, <1>7, <1>9, <1>10, PassKeeps
<1>11. CASE Passes(s, TRUE)
  BY <1>1, <1>2, <1>8, <1>11, PassKeeps
<1>12. CASE ctx /\ Passes(s, ctx)
  BY <1>1, <1>2, <1>8, <1>12, PassKeeps
<1> QED BY <1>5, <1>10, <1>11, <1>12

\* What is harvested are edits that build, each refuted but for those whose run was
\* lost; the scar-free ones are refuted whatever was lost.
LEMMA HarvestIsSound ==
  ASSUME NEW lost, NEW last
  PROVE  LET H == Harvest(Sites, MaxSeeds, kind, lost, last)
         IN /\ H \subseteq DOMAIN Sites
            /\ \A i \in H :
                 /\ Sites[i].builds
                 /\ Refuted(Sites[i], kind) \/ <<i, 2>> \in lost
                 /\ kind = "scar-free" => Sites[i].race /\ Sites[i].report
<1>1. \A i \in Harvest(Sites, MaxSeeds, kind, lost, last) :
        /\ i \in Killed(Sites, kind, lost, last)
        /\ kind = "scar-free" => ReportsRace(Sites, i, lost)
  BY DEF Harvest, FirstOf
<1>2. \A i \in Killed(Sites, kind, lost, last) :
        /\ i \in DOMAIN Sites /\ Sites[i].builds
        /\ Refuted(Sites[i], kind) \/ <<i, 2>> \in lost
  BY DEF Killed, Built
<1> QED BY <1>1, <1>2 DEF ReportsRace, Refuted

LEMMA CallHarvestKeeps ==
  ASSUME IInv, CallHarvest
  PROVE  IInv'
<1>1. phase = "work" /\ pc <= LastCall /\ Call = "harvest"
  BY DEF CallHarvest, AtCall
<1>2. row \in Row /\ ctx \in BOOLEAN
  BY DEF IInv, Typed
<1>3. PICK late, cut : ChildEnds(Harvested(late, late, Len(Sites)),
                                 [Harvested(late, late \cup {cut}, cut[1]) EXCEPT
                                    !.spoiled = @ \cup {"harvest"}])
  BY DEF CallHarvest
<1> DEFINE all == Harvest(Sites, MaxSeeds, kind, late, Len(Sites))
           some == Harvest(Sites, MaxSeeds, kind, late \cup {cut}, cut[1])
           slow(H) == {i \in H : <<i, 2>> \in late}
           r == [row EXCEPT !.seeds = all, !.slow = slow(all)]
           sp == row.spoiled \cup {"harvest"}
           s == [row EXCEPT !.seeds = some, !.slow = slow(some), !.spoiled = sp]
<1>4. (~ctx /\ Passes(r, ctx)) \/ Passes(s, TRUE) \/ (ctx /\ Passes(s, ctx))
  <2>1. r = Harvested(late, late, Len(Sites))
    BY DEF Harvested
  <2>2. s = [Harvested(late, late \cup {cut}, cut[1]) EXCEPT !.spoiled = @ \cup {"harvest"}]
    BY <1>2 DEF Harvested, Row
  <2> HIDE DEF r, s
  <2> QED BY <1>3, <2>1, <2>2, ChildEndsIs
<1>5. /\ all \subseteq DOMAIN Sites /\ some \subseteq DOMAIN Sites
      /\ \A i \in all : /\ Sites[i].builds
                        /\ Refuted(Sites[i], kind) \/ i \in slow(all)
                        /\ kind = "scar-free" => Sites[i].race /\ Sites[i].report
  BY HarvestIsSound
<1>13. slow(all) \subseteq DOMAIN Sites /\ slow(some) \subseteq DOMAIN Sites
  BY <1>5
<1> HIDE DEF all, some, slow
<1>6. /\ r \in Row /\ r.id = row.id /\ r.oracle = row.oracle /\ r.late = row.late
      /\ r.spoiled = row.spoiled /\ r.judged = row.judged
      /\ r.seeds = all /\ r.slow = slow(all)
  BY <1>2, <1>5, <1>13 DEF Row
<1>12. sp \in SUBSET Children
  BY <1>2, SpoiledTyped, Zenon DEF Children
<1> HIDE DEF sp
<1>7. /\ s \in Row /\ s.id = row.id /\ s.oracle = row.oracle /\ s.late = row.late
      /\ s.judged = row.judged
  BY <1>2, <1>5, <1>12, <1>13 DEF Row
<1> HIDE DEF r, s
<1>8. SeedsSound(r)
  BY <1>5, <1>6 DEF SeedsSound
<1>9. CASE ~ctx /\ Passes(r, ctx)
  BY <1>1, <1>2, <1>6, <1>8, <1>9, PassKeeps
<1>10. CASE Passes(s, TRUE)
  BY <1>1, <1>2, <1>7, <1>10, PassKeeps
<1>11. CASE ctx /\ Passes(s, ctx)
  BY <1>1, <1>2, <1>7, <1>11, PassKeeps
<1> QED BY <1>4, <1>9, <1>10, <1>11

-----------------------------------------------------------------------------
(* The steps that change memory or a file keep the invariant.               *)

LEMMA RowSoundStays ==
  ASSUME UNCHANGED fixed, NEW r, RowSound(r)
  PROVE  RowSound(r)'
BY DEF fixed, RowSound, Earned, SeedsSound

\* The row at work joins the rows of memory.
LEMMA RowJoins ==
  ASSUME IInv, phase = "work", RowSound(row), UNCHANGED <<fixed, disk>>,
         mem' = [main |-> Append(mem.main, row),
                 judge |-> IF TwoArms THEN Append(mem.judge, row) ELSE mem.judge],
         phase' \in {"loop", "write"}, at' \in Nat \ {0}, pc' \in Nat \ {0},
         row' \in Row, runs' \in Nat, ctx' \in BOOLEAN
  PROVE  IInv'
<1> USE DEF IInv, FilesInv
<1>1. mem.main \in Seq(Row) /\ mem.judge \in Seq(Row) /\ row \in Row
  BY DEF Typed, File
<1>2. row.id = at /\ at \notin Ids(mem.main) /\ Range(mem.judge) \subseteq Range(mem.main)
  BY DEF AtWork, JudgeArmIsPart
<1>3. row.id \notin Ids(mem.judge)
  BY <1>2 DEF Ids
<1>4. /\ mem'.main \in Seq(Row) /\ Range(mem'.main) = Range(mem.main) \cup {row}
      /\ Distinct(mem'.main)
  <2>1. mem'.main = Append(mem.main, row)
    OBVIOUS
  <2>2. Distinct(mem.main) /\ row.id \notin Ids(mem.main)
    BY <1>2 DEF FilesDistinct
  <2> QED BY <1>1, <2>1, <2>2, RowMore
<1>5. /\ mem'.judge \in Seq(Row) /\ Distinct(mem'.judge)
      /\ Range(mem'.judge) \subseteq Range(mem.judge) \cup {row}
      /\ ~TwoArms => mem'.judge = mem.judge
  <2>1. Distinct(mem.judge)
    BY DEF FilesDistinct
  <2>2. CASE TwoArms
    <3>1. mem'.judge = Append(mem.judge, row)
      BY <2>2
    <3> QED BY <1>1, <1>3, <2>1, <2>2, <3>1, RowMore
  <2>3. CASE ~TwoArms
    <3>1. mem'.judge = mem.judge
      BY <2>3
    <3> QED BY <1>1, <2>1, <3>1
  <2> QED BY <2>2, <2>3
<1>6. Typed'
  <2>1. mem' \in File
    BY <1>4, <1>5 DEF File
  <2> QED BY <2>1 DEF Typed, fixed
<1>7. FilesDistinct'
  BY <1>4, <1>5 DEF FilesDistinct, Distinct
<1>8. JudgeArmIsPart'
  BY <1>2, <1>4, <1>5 DEF JudgeArmIsPart, TwoArms, fixed
<1>9. MemoryHasTheFile'
  BY <1>4 DEF MemoryHasTheFile, Finished, fixed
<1>10. ASSUME NEW r \in Rows'
       PROVE  RowSound(r)'
  <2>1. r \in Rows \/ r = row
    BY <1>4, <1>5, <1>10 DEF Rows
  <2>2. RowSound(r)
    BY <2>1 DEF RowsInv
  <2> QED BY <2>2, RowSoundStays
<1> QED BY <1>6, <1>7, <1>8, <1>9, <1>10 DEF AtWork, RowsInv

LEMMA Append1Keeps ==
  ASSUME IInv, Append1
  PROVE  IInv'
<1>1. phase = "work" /\ pc > LastCall
  BY DEF Append1
<1>2. at \in Nat \ {0} /\ runs \in Nat /\ ctx \in BOOLEAN /\ pc \in Nat \ {0}
  BY DEF IInv, Typed
<1>3. at + 1 \in Nat \ {0} /\ 1 \in Nat \ {0} /\ Blank \in Row
  BY <1>2, BlankTyped
<1>4. RowSound(row)
  <2>1. WorkSound(row, pc, ctx) /\ row.id = at /\ at <= Problems
    BY <1>1 DEF IInv, RowsInv, FilesInv, AtWork
  <2>2. row.id \in 1..Problems
    BY <1>2, <2>1, CollectAssumption
  <2>3. mode \in {"calibrate", "compare"} => pc > 4
    <3>1. CASE mode = "calibrate"
      <4>1. Calls = Profile /\ Rounds = Tiers
        BY <3>1, CallsAre DEF IInv, Rounds
      <4>2. LastCall = 3 + Tiers * 3
        BY <4>1, CollectAssumption DEF LastCall, Profile
      <4> QED BY <1>1, <1>2, <4>2, CollectAssumption
    <3>2. CASE mode = "compare"
      BY <1>1, <1>2, <3>2, CallsOfTwoArms, CollectAssumption DEF TwoArms, IInv
    <3> QED BY <3>1, <3>2
  <2>4. Earned(row)
    BY <1>2, <2>1, <2>3 DEF WorkSound
  <2> QED BY <1>1, <2>1, <2>2, <2>4 DEF RowSound, WorkSound
<1> QED BY <1>1, <1>2, <1>3, <1>4, RowJoins DEF Append1

\* Where the judge of the seeded sweep fails, the row is kept as far as it got.
LEMMA JudgeFailsKeeps ==
  ASSUME IInv, phase = "work", mode = "seeded",
         mem' = [mem EXCEPT !.main = Append(@, row)],
         phase' = "write", pc' = 1, row' = Blank,
         UNCHANGED <<fixed, disk, at, ctx, runs>>
  PROVE  IInv'
<1>1. at \in Nat \ {0} /\ runs \in Nat /\ ctx \in BOOLEAN /\ mem \in File
  BY DEF IInv, Typed
<1>2. RowSound(row)
  <2>1. WorkSound(row, pc, ctx) /\ row.id = at /\ at <= Problems
    BY DEF IInv, RowsInv, FilesInv, AtWork
  <2>2. row.id \in 1..Problems
    BY <1>1, <2>1, CollectAssumption
  <2> QED BY <2>1, <2>2 DEF RowSound, WorkSound
<1>3. mem' = [main |-> Append(mem.main, row),
              judge |-> IF TwoArms THEN Append(mem.judge, row) ELSE mem.judge]
  BY <1>1 DEF File, TwoArms
<1>4. 1 \in Nat \ {0} /\ Blank \in Row
  BY BlankTyped
<1> QED BY <1>1, <1>2, <1>3, <1>4, RowJoins

LEMMA CallModelKeeps ==
  ASSUME IInv, CallModel
  PROVE  IInv'
<1>1. phase = "work" /\ pc <= LastCall /\ Call \in {"spec", "plan", "judge"}
  BY DEF CallModel, AtCall
<1>2. row \in Row /\ ctx \in BOOLEAN
  BY DEF IInv, Typed
<1>3. CASE Abandon
  BY <1>1, <1>3, AbandonKeeps
<1>4. CASE Call # "judge" /\ Passes(row, ctx)
  BY <1>1, <1>2, <1>4, PassKeeps
<1>5. CASE ~ctx /\ Call = "judge" /\ Passes([row EXCEPT !.judged = @ + 1], ctx)
  <2> DEFINE r == [row EXCEPT !.judged = @ + 1]
  <2>1. /\ r \in Row /\ r.id = row.id /\ r.oracle = row.oracle /\ r.late = row.late
        /\ r.spoiled = row.spoiled /\ r.seeds = row.seeds /\ r.slow = row.slow
    BY <1>2 DEF Row
  <2>2. Passes(r, ctx)
    BY <1>5
  <2> HIDE DEF r
  <2> QED BY <1>1, <1>2, <1>5, <2>1, <2>2, PassKeeps
<1>6. CASE /\ mode = "seeded" /\ mem' = [mem EXCEPT !.main = Append(@, row)]
           /\ phase' = "write" /\ pc' = 1 /\ row' = Blank
           /\ UNCHANGED <<fixed, disk, at, ctx, runs>>
  BY <1>1, <1>6, JudgeFailsKeeps
<1> QED BY <1>3, <1>4, <1>5, <1>6 DEF CallModel

\* A run starts from its files.
LEMMA StartKeeps ==
  ASSUME IInv, Start
  PROVE  IInv'
<1> USE DEF IInv, FilesInv, Start
<1>1. disk \in File /\ disk.main \in Seq(Row) /\ disk.judge \in Seq(Row)
  BY DEF Typed, File
<1>2. CASE mode = "sweep"
  <2>1. mem' = None /\ Range(mem'.main) = {} /\ Range(mem'.judge) = {}
    BY <1>2 DEF Load, None, Range
  <2>2. mem' \in File /\ Distinct(mem'.main) /\ Distinct(mem'.judge)
    BY <2>1 DEF None, File, Distinct
  <2>3. Typed'
    BY <2>2 DEF Typed, fixed
  <2>4. FilesDistinct'
    BY <2>2 DEF FilesDistinct, Distinct
  <2>5. JudgeArmIsPart' /\ MemoryHasTheFile' /\ AtWork'
    BY <1>2, <2>1 DEF JudgeArmIsPart, MemoryHasTheFile, AtWork, TwoArms, fixed
  <2>6. ASSUME NEW r \in Rows'
        PROVE  RowSound(r)'
    <3>1. r \in Rows
      BY <2>1, <2>6 DEF Rows
    <3> QED BY <3>1, RowSoundStays DEF RowsInv
  <2> QED BY <2>3, <2>4, <2>5, <2>6 DEF RowsInv
<1>3. CASE mode # "sweep"
  <2>1. /\ mem'.main \in Seq(Row) /\ mem'.judge = disk.judge /\ mem' \in File
        /\ Range(mem'.main) \subseteq Range(disk.main)
        /\ \A r \in Range(disk.main) : Finished(r) => r \in Range(mem'.main)
        /\ Distinct(mem'.main)
    <3>1. Distinct(disk.main)
      BY DEF FilesDistinct
    <3>2. CASE mode = "seeded"
      <4>1. mem' = [disk EXCEPT !.main = Complete(disk.main)]
        BY <3>2 DEF Load
      <4>2. mem'.main = Complete(disk.main) /\ mem'.judge = disk.judge
            /\ mem' = [main |-> Complete(disk.main), judge |-> disk.judge]
        BY <1>1, <4>1 DEF File
      <4>3. /\ Complete(disk.main) \in Seq(Row) /\ Distinct(Complete(disk.main))
            /\ Range(Complete(disk.main)) = {r \in Range(disk.main) : SeededComplete(r)}
        BY <1>1, <3>1, CompleteKeeps
      <4>4. \A r \in Range(disk.main) : Finished(r) => r \in Range(mem'.main)
        BY <3>2, <4>2, <4>3 DEF Finished, SeededComplete
      <4>5. mem' \in File
        BY <1>1, <4>2, <4>3 DEF File
      <4> QED BY <4>2, <4>3, <4>4, <4>5
    <3>3. CASE mode # "seeded"
      <4>1. mem' = disk
        BY <1>3, <3>3 DEF Load
      <4> QED BY <1>1, <3>1, <4>1
    <3> QED BY <3>2, <3>3
  <2>2. Typed'
    BY <2>1 DEF Typed, fixed
  <2>3. FilesDistinct'
    BY <2>1 DEF FilesDistinct, Distinct
  <2>4. JudgeArmIsPart'
    <3>1. mode = "seeded" \/ mem' = disk
      BY <1>3 DEF Load
    <3>2. Range(disk.judge) \subseteq Range(mem'.main)
      <4>1. CASE mode = "compare"
        BY <3>1, <4>1 DEF JudgeArmIsPart
      <4>2. CASE mode # "compare"
        <5>1. disk.judge = <<>>
          BY <1>3, <4>2 DEF JudgeArmIsPart, TwoArms
        <5> QED BY <5>1 DEF Range
      <4> QED BY <4>1, <4>2
    <3> QED BY <2>1, <3>2 DEF JudgeArmIsPart, TwoArms, fixed
  <2>5. MemoryHasTheFile' /\ AtWork'
    BY <2>1 DEF MemoryHasTheFile, AtWork, Finished, fixed
  <2>6. ASSUME NEW r \in Rows'
        PROVE  RowSound(r)'
    <3>1. r \in Rows
      BY <2>1, <2>6 DEF Rows
    <3> QED BY <3>1, RowSoundStays DEF RowsInv
  <2> QED BY <2>2, <2>3, <2>4, <2>5, <2>6 DEF RowsInv
<1> QED BY <1>2, <1>3

\* Memory is lost, or a run ends; the files are what they were, or hold more.
LEMMA EndsKeep ==
  ASSUME IInv, Off, UNCHANGED fixed, disk' \in File,
         Distinct(disk'.main), Distinct(disk'.judge),
         mode = "compare" => Range(disk'.judge) \subseteq Range(disk'.main),
         ~TwoArms => disk'.judge = <<>>,
         Range(disk'.main) \cup Range(disk'.judge) \subseteq Rows,
         pc' \in Nat \ {0}, row' \in Row, runs' \in Nat
  PROVE  IInv'
<1> USE DEF IInv, Off
<1>1. mem' = None /\ Range(mem'.main) = {} /\ Range(mem'.judge) = {}
  BY DEF None, Range
<1>2. mem' \in File /\ Distinct(mem'.main) /\ Distinct(mem'.judge)
  BY <1>1 DEF None, File, Distinct
<1>3. Typed'
  <2>1. at' \in Nat \ {0}
    OBVIOUS
  <2>3. ctx' \in BOOLEAN /\ phase' = "off"
    OBVIOUS
  <2>2. mode' = mode /\ suite' = suite
    BY DEF fixed
  <2> HIDE DEF Off
  <2> QED BY <1>2, <2>1, <2>2, <2>3 DEF Typed
<1>4. FilesDistinct'
  BY <1>2 DEF FilesDistinct, Distinct
<1>5. JudgeArmIsPart'
  BY <1>1 DEF JudgeArmIsPart, TwoArms, fixed, None
<1>6. MemoryHasTheFile' /\ AtWork'
  BY DEF MemoryHasTheFile, AtWork
<1>7. ASSUME NEW r \in Rows'
      PROVE  RowSound(r)'
  <2>1. r \in Rows
    BY <1>1, <1>7 DEF Rows
  <2> QED BY <2>1, RowSoundStays DEF RowsInv
<1> QED BY <1>3, <1>4, <1>5, <1>6, <1>7 DEF FilesInv, RowsInv

LEMMA KillKeeps ==
  ASSUME IInv, Kill
  PROVE  IInv'
<1> USE DEF IInv, Kill
<1>1. disk' = disk /\ Off /\ UNCHANGED fixed /\ row' \in Row
  BY BlankTyped
<1>4. pc' \in Nat \ {0} /\ runs' \in Nat
  <2>1. runs \in Nat
    BY DEF Typed
  <2>2. pc' = 1 /\ runs' = runs
    OBVIOUS
  <2> QED BY <2>1, <2>2
<1>2. /\ disk \in File /\ Distinct(disk.main) /\ Distinct(disk.judge)
      /\ mode = "compare" => Range(disk.judge) \subseteq Range(disk.main)
      /\ ~TwoArms => disk.judge = <<>>
  BY DEF Typed, FilesInv, FilesDistinct, JudgeArmIsPart
<1>3. Range(disk.main) \cup Range(disk.judge) \subseteq Rows
  BY DEF Rows
<1> HIDE DEF IInv, Kill
<1> QED BY <1>1, <1>2, <1>3, <1>4, EndsKeep

LEMMA NextProblem ==
  ASSUME at \in Nat \ {0}
  PROVE  at + 1 \in Nat \ {0}
OBVIOUS

\* What follows a checkpoint, whichever file it was.
LEMMA OnwardKeeps ==
  ASSUME IInv, phase \in {"write", "write judge"}, Onward, UNCHANGED <<fixed, pc, row, runs>>,
         disk' \in File, Distinct(disk'.main), Distinct(disk'.judge),
         disk'.main = mem.main,
         mode = "compare" => Range(disk'.judge) \subseteq Range(disk'.main),
         ~TwoArms => disk'.judge = <<>>,
         Range(disk'.main) \cup Range(disk'.judge) \subseteq Rows
  PROVE  IInv'
<1>1. pc \in Nat \ {0} /\ row \in Row /\ runs \in Nat /\ at \in Nat \ {0}
  BY DEF IInv, Typed
<1>2. CASE closing
  <2>1. Off
    BY <1>2 DEF Onward
  <2> QED BY <1>1, <2>1, EndsKeep
<1>3. CASE ~closing
  <2>1. phase' = "loop" /\ at' = at + 1 /\ mem' = mem /\ ctx' = ctx
    BY <1>3 DEF Onward
  <2>2. at' \in Nat \ {0}
    <3>1. at + 1 \in Nat \ {0}
      BY <1>1, NextProblem
    <3> QED BY <2>1, <3>1
  <2> USE DEF IInv, FilesInv
  <2>3. Typed'
    BY <2>1, <2>2 DEF Typed, fixed
  <2>4. FilesDistinct'
    BY <2>1 DEF FilesDistinct, Distinct
  <2>5. JudgeArmIsPart'
    BY <2>1 DEF JudgeArmIsPart, TwoArms, fixed
  <2>6. MemoryHasTheFile' /\ AtWork'
    BY <2>1 DEF MemoryHasTheFile, AtWork
  <2>7. ASSUME NEW r \in Rows'
        PROVE  RowSound(r)'
    <3>1. r \in Rows
      BY <2>1, <2>7 DEF Rows
    <3> QED BY <3>1, RowSoundStays DEF RowsInv
  <2> QED BY <2>1, <2>3, <2>4, <2>5, <2>6, <2>7 DEF RowsInv
<1> QED BY <1>2, <1>3

LEMMA WriteMainKeeps ==
  ASSUME IInv, WriteMain
  PROVE  IInv'
<1> USE DEF IInv, FilesInv
<1>1. disk \in File /\ mem \in File
  BY DEF Typed
<1>2. phase = "write" /\ UNCHANGED <<fixed, pc, row, runs>>
  BY DEF WriteMain
<1>3. /\ disk' \in File /\ disk'.main = mem.main /\ disk'.judge = disk.judge
  BY <1>1 DEF WriteMain, File
<1>4. Distinct(disk'.main) /\ Distinct(disk'.judge)
  BY <1>3 DEF FilesDistinct
<1>5. mode = "compare" => Range(disk'.judge) \subseteq Range(disk'.main)
  <2> SUFFICES ASSUME mode = "compare"
               PROVE  Range(disk.judge) \subseteq Range(mem.main)
    BY <1>3
  <2>1. Range(disk.judge) \subseteq Range(disk.main)
    BY DEF JudgeArmIsPart
  <2>2. Range(disk.main) \subseteq Range(mem.main)
    BY <1>2 DEF MemoryHasTheFile, Finished
  <2> QED BY <2>1, <2>2
<1>6. ~TwoArms => disk'.judge = <<>>
  BY <1>3 DEF JudgeArmIsPart
<1>7. Range(disk'.main) \cup Range(disk'.judge) \subseteq Rows
  BY <1>3 DEF Rows
<1>8. CASE ~TwoArms
  <2>1. Onward
    BY <1>8 DEF WriteMain
  <2> HIDE DEF IInv, FilesInv
  <2> QED BY <1>2, <1>3, <1>4, <1>5, <1>6, <1>7, <2>1, OnwardKeeps
<1>9. CASE TwoArms
  <2>1. phase' = "write judge" /\ UNCHANGED <<mem, at, ctx>>
    BY <1>9 DEF WriteMain
  <2>2. Typed'
    BY <1>2, <1>3, <2>1 DEF Typed, fixed
  <2>3. FilesDistinct'
    BY <1>4, <2>1 DEF FilesDistinct, Distinct
  <2>4. JudgeArmIsPart'
    BY <1>2, <1>5, <1>6, <2>1 DEF JudgeArmIsPart, TwoArms, fixed
  <2>5. MemoryHasTheFile' /\ AtWork'
    BY <1>2, <1>3, <1>9, <2>1 DEF MemoryHasTheFile, AtWork, TwoArms, fixed
  <2>6. ASSUME NEW r \in Rows'
        PROVE  RowSound(r)'
    <3>1. r \in Rows
      BY <1>7, <2>1, <2>6 DEF Rows
    <3> QED BY <1>2, <3>1, RowSoundStays DEF RowsInv
  <2> QED BY <2>1, <2>2, <2>3, <2>4, <2>5, <2>6 DEF RowsInv
<1> QED BY <1>8, <1>9

LEMMA WriteJudgeKeeps ==
  ASSUME IInv, WriteJudge
  PROVE  IInv'
<1> USE DEF IInv, FilesInv
<1>1. disk \in File /\ mem \in File
  BY DEF Typed
<1>2. phase = "write judge" /\ Onward /\ UNCHANGED <<fixed, pc, row, runs>>
  BY DEF WriteJudge
<1>3. TwoArms /\ disk.main = mem.main
  BY <1>2 DEF MemoryHasTheFile
<1>4. disk' \in File /\ disk'.main = mem.main /\ disk'.judge = mem.judge
  BY <1>1, <1>3 DEF WriteJudge, File
<1>5. Distinct(disk'.main) /\ Distinct(disk'.judge)
  BY <1>4 DEF FilesDistinct
<1>6. Range(disk'.judge) \subseteq Range(disk'.main)
  BY <1>4 DEF JudgeArmIsPart
<1>7. Range(disk'.main) \cup Range(disk'.judge) \subseteq Rows
  BY <1>4 DEF Rows
<1> HIDE DEF IInv, FilesInv
<1> QED BY <1>2, <1>3, <1>4, <1>5, <1>6, <1>7, OnwardKeeps

-----------------------------------------------------------------------------
(* The invariant holds, and what it says of the files.                      *)

LEMMA InitHolds ==
  ASSUME Init
  PROVE  IInv
<1> USE DEF Init
<1>1. disk = None /\ mem = None
  OBVIOUS
<1>2. None \in File /\ Distinct(None.main) /\ Distinct(None.judge)
  BY DEF None, File, Distinct
<1>3. Range(None.main) = {} /\ Range(None.judge) = {}
  BY DEF None, Range
<1>4. suite \in [1..Problems -> Suites]
  BY DEF Suites
<1>5. Typed
  <2>1. at \in Nat \ {0} /\ pc \in Nat \ {0} /\ runs \in Nat
    OBVIOUS
  <2>2. mode \in Modes /\ row \in Row /\ phase = "off" /\ ctx \in BOOLEAN
    BY BlankTyped
  <2> HIDE DEF Init
  <2> QED BY <1>1, <1>2, <1>4, <2>1, <2>2 DEF Typed
<1>6. FilesInv
  BY <1>1, <1>2, <1>3
  DEF FilesInv, FilesDistinct, JudgeArmIsPart, MemoryHasTheFile, AtWork, None
<1>7. RowsInv
  BY <1>1, <1>3 DEF RowsInv, Rows
<1> QED BY <1>5, <1>6, <1>7 DEF IInv

LEMMA StutterKeeps ==
  ASSUME IInv, UNCHANGED vars
  PROVE  IInv'
<1> USE DEF IInv
<1>4. /\ UNCHANGED <<fixed, disk, mem, phase, at, pc, row, runs>>
      /\ ctx' = ctx
  BY DEF vars, fixed
<1>1. Typed'
  BY <1>4 DEF Typed, fixed
<1>2. FilesInv'
  <2> USE DEF FilesInv, fixed
  <2>1. FilesDistinct'
    BY <1>4 DEF FilesDistinct, Distinct
  <2>2. JudgeArmIsPart'
    BY <1>4 DEF JudgeArmIsPart, TwoArms
  <2>3. MemoryHasTheFile'
    BY <1>4 DEF MemoryHasTheFile, TwoArms, Finished
  <2>4. AtWork'
    BY <1>4 DEF AtWork
  <2> QED BY <2>1, <2>2, <2>3, <2>4
<1>3. RowsInv'
  <2>1. ASSUME NEW r \in Rows'
        PROVE  RowSound(r)'
    <3>1. r \in Rows
      BY <1>4, <2>1 DEF Rows
    <3> QED BY <1>4, <3>1, RowSoundStays DEF RowsInv
  <2>2. ASSUME phase = "work"
        PROVE  WorkSound(row, pc, ctx)'
    <3>1. WorkSound(row, pc, ctx)
      BY <2>2 DEF RowsInv
    <3>2. mode' = mode /\ row' = row /\ pc' = pc /\ ctx' = ctx /\ kind' = kind /\ suite' = suite
      BY <1>4 DEF fixed
    <3>3. Calls' = Calls /\ Rounds' = Rounds
      BY <3>2 DEF Calls, Rounds
    <3>4. LastCall' = LastCall
      BY <3>3 DEF LastCall
    <3> QED BY <3>1, <3>2, <3>4 DEF WorkSound, Earned, SeedsSound
  <2> QED BY <1>4, <2>1, <2>2 DEF RowsInv
<1> QED BY <1>1, <1>2, <1>3

LEMMA NextKeeps ==
  ASSUME IInv, [Next]_vars
  PROVE  IInv'
BY StartKeeps, SkipDoneKeeps, StopLoopKeeps, TakeProblemKeeps, SkipCallKeeps, CheckKeeps,
   CallModelKeeps, CallSampleKeeps, CallGateKeeps, CallVerifyKeeps, CallHarvestKeeps,
   Append1Keeps, WriteMainKeeps, WriteJudgeKeeps, SignalKeeps, KillKeeps, StutterKeeps
DEF Next, Run

\* The files, the memory and the row at work are as IInv says in every reachable
\* state, whatever signals, kills, failures and resumed runs came before.
THEOREM CollectInvariance == Spec => []IInv
<1>1. Init => IInv
  BY InitHolds
<1>2. IInv /\ [Next]_vars => IInv'
  BY NextKeeps
<1> QED BY <1>1, <1>2, PTL DEF Spec

\* No problem is recorded twice in a file.
THEOREM NoProblemTwice == Spec => []OneRowPerProblem
<1>1. IInv => OneRowPerProblem
  <2> SUFFICES ASSUME IInv, NEW f \in {disk.main, disk.judge}
               PROVE  Len(f) = Cardinality(Ids(f))
    BY DEF OneRowPerProblem
  <2>1. f \in Seq(Row) /\ Distinct(f)
    BY DEF IInv, Typed, File, FilesInv, FilesDistinct
  <2> QED BY <2>1, DistinctCount
<1> QED BY <1>1, CollectInvariance, PTL

\* The two arms of a comparison hold the same draw of a problem, and the judge's arm
\* has no problem of its own.
THEOREM ComparisonIsPaired == Spec => []ArmsShareADraw
<1>1. IInv => ArmsShareADraw
  <2> SUFFICES ASSUME IInv, mode = "compare"
               PROVE  /\ \A e \in Range(disk.main), j \in Range(disk.judge) :
                           e.id = j.id => e.draw = j.draw
                      /\ Ids(disk.judge) \subseteq Ids(disk.main)
    BY DEF ArmsShareADraw
  <2>1. Range(disk.judge) \subseteq Range(disk.main) /\ Distinct(disk.main)
    BY DEF IInv, FilesInv, FilesDistinct, JudgeArmIsPart
  <2>2. \A e, j \in Range(disk.main) : e.id = j.id => e = j
    BY <2>1 DEF Distinct, Range
  <2> QED BY <2>1, <2>2 DEF Ids
<1> QED BY <1>1, CollectInvariance, PTL

\* No problem is excluded for a suite without a fault, but where time or room ran out.
THEOREM ExclusionsEarned == Spec => []ExclusionsAreEarned
<1>1. IInv => ExclusionsAreEarned
  BY DEF IInv, RowsInv, RowSound, Earned, ExclusionsAreEarned
<1> QED BY <1>1, CollectInvariance, PTL

\* No finished row with an answer of the judge holds a verdict of a killed child, and
\* what a judge was shown of a solution's edits are wrong ones, but for those whose own
\* clock ended their test run: the scar-free ones have no such exception.
THEOREM JudgedSoundly == Spec => []JudgedRowsAreSound
<1>1. IInv => JudgedRowsAreSound
  <2> SUFFICES ASSUME IInv, NEW r \in Range(disk.main) \cup Range(disk.judge)
               PROVE  /\ mode \in {"compare", "sweep"} /\ r.won => r.spoiled = {}
                      /\ mode = "seeded" /\ SeededComplete(r) => SeedsSound(r)
    BY DEF JudgedRowsAreSound, SeedsSound
  <2>1. RowSound(r)
    BY DEF IInv, RowsInv, Rows
  <2>2. r \in Row
    <3>1. disk.main \in Seq(Row) /\ disk.judge \in Seq(Row)
      BY DEF IInv, Typed, File
    <3> QED BY <3>1 DEF Range
  <2>3. ASSUME SeededComplete(r), r.judged = 0
        PROVE  SeedsSound(r)
    <3>1. IsFiniteSet(DOMAIN Sites)
      <4>1. DOMAIN Sites = 1..Len(Sites) /\ Len(Sites) \in Nat
        BY CollectAssumption
      <4> QED BY <4>1, FS_Interval
    <3>2. IsFiniteSet(r.seeds) /\ Cardinality(r.seeds) \in Nat
      <4>1. r.seeds \in SUBSET DOMAIN Sites
        BY <2>2 DEF Row
      <4> QED BY <3>1, <4>1, FS_Subset, FS_CardinalityType
    <3>3. Cardinality(r.seeds) * Levels = 0
      BY <2>3 DEF SeededComplete
    <3>4. Cardinality(r.seeds) = 0
      BY <3>2, <3>3, CollectAssumption
    <3>5. r.seeds = {}
      BY <3>2, <3>4, FS_EmptySet
    <3> QED BY <3>5 DEF SeedsSound
  <2> QED BY <2>1, <2>3 DEF RowSound
<1> QED BY <1>1, CollectInvariance, PTL

\* A finished row that reached its file is never lost.
THEOREM WorkIsKept == Spec => CompletedWorkIsKept
<1> DEFINE Kept == mode # "sweep" =>
                     \A r \in Range(disk.main) : Finished(r) => r \in Range(disk'.main)
<1>1. IInv /\ [Next]_vars => [Kept]_vars
  <2> SUFFICES ASSUME IInv, Next
               PROVE  Kept
    OBVIOUS
  <2>1. CASE WriteMain
    <3>1. disk'.main = mem.main /\ phase = "write"
      BY <2>1 DEF WriteMain, IInv, Typed, File
    <3> QED BY <3>1 DEF IInv, FilesInv, MemoryHasTheFile
  <2>2. CASE WriteJudge
    <3>1. disk'.main = disk.main
      BY <2>2 DEF WriteJudge, IInv, Typed, File
    <3> QED BY <3>1
  <2>3. CASE ~WriteMain /\ ~WriteJudge
    <3>1. disk' = disk
      BY <2>3 DEF Next, Run, Start, SkipDone, StopLoop, TakeProblem, SkipCall, Check,
                  CallModel, CallSample, CallGate, CallVerify, CallHarvest, Append1,
                  Signal, Kill, Passes, Abandon, ChildEnds
    <3> QED BY <3>1
  <2> QED BY <2>1, <2>2, <2>3
<1> QED BY <1>1, CollectInvariance, PTL DEF Spec, CompletedWorkIsKept
=============================================================================
