----------------------------- MODULE CertifyProofs -----------------------------
(***************************************************************************)
(* What a certificate and the baselines say of the records they are        *)
(* computed from, for any records, costs, tiers and parameters of the test.*)
(***************************************************************************)
EXTENDS Certify, FiniteSetTheorems, WellFoundedInduction, TLAPS

\* A non-empty set of naturals has a least member.
LEMMA Least ==
  ASSUME NEW T \in SUBSET Nat, T # {}
  PROVE  \E m \in T : \A n \in T : m <= n
<1>1. PICK m \in T : \A n \in T : ~(<<n, m>> \in OpToRel(<, Nat))
  BY WFMin, NatLessThanWellFounded
<1>2. \A n \in T : ~(n < m)
  BY <1>1 DEF OpToRel
<1>3. \A n \in T : n \in Int /\ m \in Int
  OBVIOUS
<1> QED BY <1>2, <1>3

\* Induction over the subsets of a finite set, for a set of them.
LEMMA BySubsets ==
  ASSUME NEW D, IsFiniteSet(D), NEW P,
         \A s \in SUBSET D : (\A r \in SUBSET s : r # s => r \in P) => s \in P
  PROVE  \A s \in SUBSET D : s \in P
<1> SUFFICES ASSUME NEW z \in SUBSET D, z \notin P
             PROVE  FALSE
  OBVIOUS
<1> DEFINE Bad == {Cardinality(s) : s \in (SUBSET D) \ P}
<1>1. \A s \in SUBSET D : IsFiniteSet(s) /\ Cardinality(s) \in Nat
  BY FS_Subset, FS_CardinalityType
<1>2. Bad \in SUBSET Nat /\ Bad # {}
  <2>1. Bad \in SUBSET Nat
    BY <1>1
  <2>3. Cardinality(z) \in Bad
    OBVIOUS
  <2> QED BY <2>1, <2>3
<1>3. PICK k \in Bad : \A n \in Bad : k <= n
  <2> HIDE DEF Bad
  <2> QED BY <1>2, Least
<1>4. PICK s \in (SUBSET D) \ P : k = Cardinality(s)
  BY <1>3
<1>5. PICK r \in SUBSET s : r # s /\ r \notin P
  <2> HIDE DEF Bad
  <2>1. s \in SUBSET D /\ s \notin P
    BY <1>4
  <2> QED BY <2>1, Zenon
<1>6. r \in (SUBSET D) \ P /\ Cardinality(r) \in Bad
  BY <1>4, <1>5
<1>7. Cardinality(r) <= Cardinality(s) /\ Cardinality(r) # Cardinality(s)
  <2>1. IsFiniteSet(s)
    BY <1>1, <1>4
  <2> QED BY <2>1, <1>5, FS_Subset
<1>8. k <= Cardinality(r)
  BY <1>3, <1>6
<1>9. k \in Nat /\ Cardinality(r) \in Nat
  BY <1>1, <1>4, <1>6
<1> QED BY <1>4, <1>7, <1>8, <1>9

\* The recursion by which a table is summed up, and the partial sums it defines.
SumBody(f, g, s) ==
  IF s = {} THEN 0 ELSE LET x == CHOOSE x \in s : TRUE IN f[x] + g[s \ {x}]

Sums(f) == CHOOSE g : g = [s \in SUBSET DOMAIN f |-> SumBody(f, g, s)]

\* The total of a table is its partial sum over all positions.
LEMMA TotalIsSum ==
  ASSUME NEW f
  PROVE  Total(f) = Sums(f)[DOMAIN f]
BY DEF Total, Sums, SumBody, MapThenSumSet, MapThenFoldSet

\* The recursion has a solution: a solution for the sets of less than k positions gives
\* one for those of k.
LEMMA SumsExist ==
  ASSUME NEW f, IsFiniteSet(DOMAIN f)
  PROVE  Sums(f) = [s \in SUBSET DOMAIN f |-> SumBody(f, Sums(f), s)]
<1> DEFINE D == DOMAIN f
           Small(k) == {s \in SUBSET D : Cardinality(s) <= k}
           Bad == {k \in Nat : ~\E g : g = [s \in Small(k) |-> SumBody(f, g, s)]}
<1>1. \A s \in SUBSET D : IsFiniteSet(s) /\ Cardinality(s) \in Nat
  BY FS_Subset, FS_CardinalityType
<1>2. Bad = {}
  <2> SUFFICES ASSUME Bad # {}
               PROVE  FALSE
    OBVIOUS
  <2>1. PICK k \in Bad : \A n \in Bad : k <= n
    <3>1. Bad \in SUBSET Nat
      OBVIOUS
    <3> HIDE DEF Bad
    <3> QED BY <3>1, Least
  <2>2. CASE k = 0
    <3> DEFINE g == [s \in Small(0) |-> 0]
    <3>1. \A s \in Small(0) : s = {}
      BY <1>1, FS_EmptySet
    <3>2. \A s \in Small(0) : SumBody(f, g, s) = 0
      <4>1. SumBody(f, g, {}) = 0
        BY Zenon DEF SumBody
      <4> HIDE DEF g, Small
      <4> QED BY <3>1, <4>1
    <3>3. g = [s \in Small(0) |-> SumBody(f, g, s)]
      BY <3>2
    <3> QED BY <2>1, <2>2, <3>3
  <2>3. CASE k # 0
    <3>1. k - 1 \in Nat /\ k - 1 \notin Bad
      <4>1. k \in Nat
        BY <2>1
      <4> HIDE DEF Bad
      <4> QED BY <2>1, <2>3, <4>1
    <3>2. PICK g : g = [s \in Small(k - 1) |-> SumBody(f, g, s)]
      BY <3>1
    <3> DEFINE h == [s \in Small(k) |-> SumBody(f, g, s)]
    <3>3. ASSUME NEW s \in Small(k)
          PROVE  SumBody(f, g, s) = SumBody(f, h, s)
      <4>1. CASE s = {}
        BY <4>1 DEF SumBody
      <4>2. CASE s # {}
        <5> DEFINE x == CHOOSE x \in s : TRUE
                   r == s \ {x}
        <5>1. x \in s
          BY <4>2
        <5>2. r \in SUBSET D /\ Cardinality(r) = Cardinality(s) - 1
          BY <1>1, <5>1, FS_RemoveElement
        <5>3. r \in Small(k) /\ r \in Small(k - 1)
          BY <1>1, <2>1, <5>2
        <5>4. h[r] = SumBody(f, g, r) /\ g[r] = SumBody(f, g, r)
          <6> HIDE DEF r, Small
          <6> QED BY <3>2, <5>3
        <5> QED BY <4>2, <5>4 DEF SumBody
      <4> QED BY <4>1, <4>2
    <3>4. h = [s \in Small(k) |-> SumBody(f, h, s)]
      <4> HIDE DEF Small
      <4> QED BY <3>3
    <3> QED BY <2>1, <3>4
  <2> QED BY <2>2, <2>3
<1>3. Cardinality(D) \in Nat /\ Small(Cardinality(D)) = SUBSET D
  <2>1. \A s \in SUBSET D : Cardinality(s) <= Cardinality(D)
    BY FS_Subset
  <2> QED BY <1>1, <2>1
<1>4. \E g : g = [s \in SUBSET D |-> SumBody(f, g, s)]
  <2> DEFINE n == Cardinality(D)
  <2>1. \E g : g = [s \in Small(n) |-> SumBody(f, g, s)]
    <3> HIDE DEF Small
    <3> QED BY <1>2, <1>3
  <2>2. Small(n) = SUBSET D
    BY <1>3
  <2> HIDE DEF Small, n
  <2> QED BY <2>1, <2>2
<1> QED BY <1>4, Zenon DEF Sums

\* What is known of the partial sums of a table of naturals.
LEMMA SumsUnfold ==
  ASSUME NEW f, IsFiniteSet(DOMAIN f), \A i \in DOMAIN f : f[i] \in Nat
  PROVE  /\ Sums(f)[{}] = 0
         /\ \A s \in SUBSET DOMAIN f : s # {} =>
              LET x == CHOOSE x \in s : TRUE
              IN x \in s /\ Sums(f)[s] = f[x] + Sums(f)[s \ {x}]
         /\ \A s \in SUBSET DOMAIN f : Sums(f)[s] \in Nat
<1> DEFINE D == DOMAIN f
           S == Sums(f)
           P == {s \in SUBSET D : S[s] \in Nat}
<1>1. \A s \in SUBSET D : S[s] = SumBody(f, S, s)
  <2>1. S = [s \in SUBSET D |-> SumBody(f, S, s)]
    BY SumsExist
  <2> HIDE DEF S, D
  <2> QED BY <2>1
<1> HIDE DEF S
<1>2. S[{}] = 0
  BY <1>1, Zenon DEF SumBody
<1>3. ASSUME NEW s \in SUBSET D, s # {}
      PROVE  LET x == CHOOSE x \in s : TRUE IN x \in s /\ S[s] = f[x] + S[s \ {x}]
  BY <1>1, <1>3, Zenon DEF SumBody
<1>4. ASSUME NEW s \in SUBSET D, \A r \in SUBSET s : r # s => r \in P
      PROVE  s \in P
  <2>1. CASE s = {}
    BY <1>2, <2>1
  <2>2. CASE s # {}
    <3>1. PICK x \in s : S[s] = f[x] + S[s \ {x}]
      BY <1>3, <2>2
    <3>2. s \ {x} \in P
      <4>1. s \ {x} \in SUBSET s /\ s \ {x} # s
        OBVIOUS
      <4> QED BY <1>4, <4>1, Zenon
    <3>3. f[x] \in Nat /\ S[s \ {x}] \in Nat
      BY <3>2
    <3> QED BY <3>1, <3>3
  <2> QED BY <2>1, <2>2
<1>5. \A s \in SUBSET D : s \in P
  <2> HIDE DEF P, D
  <2>1. IsFiniteSet(D)
    BY DEF D
  <2> QED BY <1>4, <2>1, BySubsets
<1> QED BY <1>2, <1>3, <1>5 DEF S

\* Any member may be taken out first.
LEMMA SumsPick ==
  ASSUME NEW f, IsFiniteSet(DOMAIN f), \A i \in DOMAIN f : f[i] \in Nat
  PROVE  \A s \in SUBSET DOMAIN f : \A x \in s : Sums(f)[s] = f[x] + Sums(f)[s \ {x}]
<1> DEFINE D == DOMAIN f
           S == Sums(f)
           P == {s \in SUBSET D : \A x \in s : S[s] = f[x] + S[s \ {x}]}
<1>1. /\ \A s \in SUBSET D : S[s] \in Nat
      /\ \A s \in SUBSET D : s # {} => \E c \in s : S[s] = f[c] + S[s \ {c}]
  BY SumsUnfold
<1> HIDE DEF S
<1>2. ASSUME NEW s \in SUBSET D, \A r \in SUBSET s : r # s => r \in P
      PROVE  s \in P
  <2> SUFFICES ASSUME NEW x \in s
               PROVE  S[s] = f[x] + S[s \ {x}]
    OBVIOUS
  <2>1. PICK c \in s : S[s] = f[c] + S[s \ {c}]
    BY <1>1
  <2>2. CASE x = c
    BY <2>1, <2>2
  <2>3. CASE x # c
    <3> DEFINE r == (s \ {c}) \ {x}
    <3>1. s \ {c} \in P /\ s \ {x} \in P
      <4>1. /\ s \ {c} \in SUBSET s /\ s \ {c} # s
            /\ s \ {x} \in SUBSET s /\ s \ {x} # s
        OBVIOUS
      <4> QED BY <1>2, <4>1, Zenon
    <3>2. S[s \ {c}] = f[x] + S[(s \ {c}) \ {x}]
      <4>1. x \in s \ {c}
        BY <2>3
      <4> QED BY <3>1, <4>1, Zenon
    <3>3. S[s \ {x}] = f[c] + S[(s \ {x}) \ {c}]
      <4>1. c \in s \ {x}
        BY <2>3
      <4> QED BY <3>1, <4>1, Zenon
    <3>4. (s \ {x}) \ {c} = r
      OBVIOUS
    <3>5. S[r] \in Nat /\ f[x] \in Nat /\ f[c] \in Nat
      BY <1>1
    <3>6. S[s] = f[c] + (f[x] + S[r]) /\ S[s \ {x}] = f[c] + S[r]
      BY <2>1, <3>2, <3>3, <3>4
    <3> HIDE DEF r, P
    <3> QED BY <3>5, <3>6
  <2> QED BY <2>2, <2>3
<1>3. \A s \in SUBSET D : s \in P
  <2> HIDE DEF P, D
  <2>1. IsFiniteSet(D)
    BY DEF D
  <2> QED BY <1>2, <2>1, BySubsets
<1> QED BY <1>3 DEF S

\* A table that is nowhere greater, on part of the positions, has no greater total.
LEMMA SumsGrow ==
  ASSUME NEW f, IsFiniteSet(DOMAIN f), \A i \in DOMAIN f : f[i] \in Nat,
         NEW g, DOMAIN g \subseteq DOMAIN f,
         \A i \in DOMAIN g : g[i] \in Nat /\ g[i] <= f[i]
  PROVE  Total(g) \in Nat /\ Total(f) \in Nat /\ Total(g) <= Total(f)
<1> DEFINE D == DOMAIN g
           E == DOMAIN f
           S == Sums(g)
           T == Sums(f)
           P == {s \in SUBSET D : S[s] <= T[s]}
           Q == {s \in SUBSET E : T[s \cap D] <= T[s]}
<1>1. IsFiniteSet(D) /\ D \subseteq E /\ IsFiniteSet(E)
  BY FS_Subset
<1>2. /\ S[{}] = 0 /\ \A s \in SUBSET D : S[s] \in Nat
      /\ \A s \in SUBSET D : \A x \in s : S[s] = g[x] + S[s \ {x}]
  BY <1>1, SumsUnfold, SumsPick
<1>3. /\ T[{}] = 0 /\ \A s \in SUBSET E : T[s] \in Nat
      /\ \A s \in SUBSET E : \A x \in s : T[s] = f[x] + T[s \ {x}]
  BY <1>1, SumsUnfold, SumsPick
<1>4. Total(g) = S[D] /\ Total(f) = T[E]
  BY TotalIsSum
<1>5. /\ \A i \in E : f[i] \in Nat
      /\ \A i \in D : g[i] \in Nat /\ g[i] <= f[i]
  OBVIOUS
<1> HIDE DEF S, T, D, E
<1>6. ASSUME NEW s \in SUBSET D, \A r \in SUBSET s : r # s => r \in P
      PROVE  s \in P
  <2>1. CASE s = {}
    BY <1>2, <1>3, <2>1
  <2>2. CASE s # {}
    <3>1. PICK x \in s : TRUE
      BY <2>2
    <3>2. s \ {x} \in P
      <4>1. s \ {x} \in SUBSET s /\ s \ {x} # s
        OBVIOUS
      <4> QED BY <1>6, <4>1, Zenon
    <3>3. S[s] = g[x] + S[s \ {x}] /\ T[s] = f[x] + T[s \ {x}]
      BY <1>1, <1>2, <1>3
    <3>4. /\ g[x] \in Nat /\ f[x] \in Nat /\ g[x] <= f[x]
          /\ S[s \ {x}] \in Nat /\ T[s \ {x}] \in Nat /\ S[s \ {x}] <= T[s \ {x}]
      BY <1>1, <1>2, <1>3, <1>5, <3>2
    <3>5. S[s] <= T[s]
      BY <3>3, <3>4
    <3> QED BY <3>5
  <2> QED BY <2>1, <2>2
<1>7. ASSUME NEW s \in SUBSET E, \A r \in SUBSET s : r # s => r \in Q
      PROVE  s \in Q
  <2>1. CASE s \subseteq D
    <3>1. s \cap D = s
      BY <2>1
    <3>2. T[s] \in Nat
      BY <1>3
    <3>3. T[s \cap D] <= T[s]
      BY <3>1, <3>2
    <3> QED BY <3>3
  <2>2. CASE ~(s \subseteq D)
    <3>1. PICK x \in s : x \notin D
      BY <2>2
    <3>2. s \ {x} \in Q
      <4>1. s \ {x} \in SUBSET s /\ s \ {x} # s
        OBVIOUS
      <4> QED BY <1>7, <4>1, Zenon
    <3>3. s \cap D = (s \ {x}) \cap D
      BY <3>1
    <3>4. T[s] = f[x] + T[s \ {x}] /\ T[s \ {x}] \in Nat /\ f[x] \in Nat
      BY <1>3, <1>5
    <3>5. T[s \cap D] \in Nat /\ T[s \cap D] <= T[s \ {x}]
      BY <1>3, <3>2, <3>3
    <3>6. T[s \cap D] <= T[s]
      BY <3>4, <3>5
    <3> QED BY <3>6
  <2> QED BY <2>1, <2>2
<1>8. D \in P
  <2> HIDE DEF P
  <2>1. \A s \in SUBSET D : s \in P
    BY <1>1, <1>6, BySubsets
  <2> QED BY <2>1
<1>9. E \in Q
  <2> HIDE DEF Q
  <2>1. \A s \in SUBSET E : s \in Q
    BY <1>1, <1>7, BySubsets
  <2> QED BY <2>1
<1>10. E \cap D = D
  BY <1>1
<1>11. S[D] \in Nat /\ T[D] \in Nat /\ T[E] \in Nat /\ S[D] <= T[D] /\ T[D] <= T[E]
  BY <1>1, <1>2, <1>3, <1>8, <1>9, <1>10
<1> QED BY <1>4, <1>11

-----------------------------------------------------------------------------
(* Records that do not vote.                                               *)

\* A certificate looks at the records of its stream only.
LEMMA OnlyTheStream ==
  ASSUME NEW a, NEW b, NEW S, \A i \in S : a[i] = b[i], NEW k, NEW m
  PROVE  CalibrateOn(a, S, k, m) = CalibrateOn(b, S, k, m)
<1>1. \A t : Risk(a, S, t) = Risk(b, S, t)
  <2> SUFFICES ASSUME NEW t
               PROVE  Risk(a, S, t) = Risk(b, S, t)
    OBVIOUS
  <2>1. {i \in S : ~Replay(a[i], t).correct} = {i \in S : ~Replay(b[i], t).correct}
    OBVIOUS
  <2> QED BY <2>1, Zenon DEF Risk
<1>2. \A t : RealizedRisk(a, S, t) = RealizedRisk(b, S, t)
  <2> SUFFICES ASSUME NEW t
               PROVE  RealizedRisk(a, S, t) = RealizedRisk(b, S, t)
    OBVIOUS
  <2>1. {i \in S : ~ReplayTruth(a[i], t)} = {i \in S : ~ReplayTruth(b[i], t)}
    OBVIOUS
  <2> QED BY <2>1, Zenon DEF RealizedRisk
<1>3. \A t : Cost(a, S, t) = Cost(b, S, t)
  <2> SUFFICES ASSUME NEW t
               PROVE  Cost(a, S, t) = Cost(b, S, t)
    OBVIOUS
  <2>1. [i \in S |-> Replay(a[i], t).cost] = [i \in S |-> Replay(b[i], t).cost]
    OBVIOUS
  <2> QED BY <2>1, Zenon DEF Cost
<1> DEFINE grid == Grid(k - 1)
<1>4. /\ [t \in grid |-> Risk(a, S, t)] = [t \in grid |-> Risk(b, S, t)]
      /\ [t \in grid |-> Cost(a, S, t)] = [t \in grid |-> Cost(b, S, t)]
  BY <1>1, <1>3
<1>5. \A t, v : Report(a, S, t, v) = Report(b, S, t, v)
  BY <1>1, <1>2, <1>3, Zenon DEF Report
<1> QED BY <1>4, <1>5, Zenon DEF CalibrateOn

\* A record that is contaminated, or whose suite refuted its own reference, changes
\* nothing in any certificate, whatever it says and whatever was collected before.
THEOREM ExcludedForGood == Spec => ExclusionsDoNotVote
<1> DEFINE T == recs \in Seq(Records)
           A == LET r == recs'[Len(recs')]
                IN r.contaminated \/ r.unsound =>
                     \A m \in Methods :
                       CalibrateRecords(recs', tiers, m) = CalibrateRecords(recs, tiers, m)
<1>1. Init => T
  BY DEF Init
<1>2. T /\ [Next]_vars => T'
  BY DEF Next, RecordComes, vars
<1>3. T /\ [Next]_vars => [A]_vars
  <2> SUFFICES ASSUME T, Next
               PROVE  A
    OBVIOUS
  <2>1. PICK r \in Records : recs' = Append(recs, r)
    BY DEF Next, RecordComes
  <2> DEFINE n == Len(recs) + 1
  <2>2. /\ n \in Nat /\ Len(recs') = n /\ recs'[n] = r /\ n \notin DOMAIN recs
        /\ DOMAIN recs' = DOMAIN recs \cup {n}
        /\ \A i \in DOMAIN recs : recs'[i] = recs[i]
    BY <2>1
  <2> HIDE DEF n
  <2> SUFFICES ASSUME r.contaminated \/ r.unsound, NEW m \in Methods
               PROVE  CalibrateRecords(recs', tiers, m) = CalibrateRecords(recs, tiers, m)
    BY <2>2
  <2>3. Used(recs') = Used(recs)
    BY <2>2 DEF Used
  <2>4. Stream(recs') = Stream(recs)
    <3>1. Shadow(recs') = Shadow(recs)
      BY <2>2, <2>3 DEF Shadow, Used
    <3> QED BY <2>3, <3>1 DEF Stream
  <2>5. \A i \in Stream(recs) : recs'[i] = recs[i]
    <3>1. Stream(recs) \subseteq DOMAIN recs
      BY DEF Stream, Shadow, Used
    <3> QED BY <2>2, <3>1
  <2> QED BY <2>4, <2>5, OnlyTheStream DEF CalibrateRecords
<1> QED BY <1>1, <1>2, <1>3, PTL DEF Spec, ExclusionsDoNotVote

-----------------------------------------------------------------------------
(* The replay.                                                             *)

Typed ==
  /\ recs \in Seq(Records) /\ tiers \in Arities
  /\ \A i \in Collected : Len(recs[i].tiers) \in {0, tiers}

LEMMA TypedHolds == Spec => []Typed
<1>1. Init => Typed
  BY DEF Init, Typed, Collected
<1>2. Typed /\ [Next]_vars => Typed'
  <2> SUFFICES ASSUME Typed, [Next]_vars
               PROVE  Typed'
    OBVIOUS
  <2>1. CASE UNCHANGED vars
    BY <2>1 DEF Typed, Collected, vars
  <2>2. CASE Next
    <3>1. PICK r \in Records : Len(r.tiers) \in {0, tiers} /\ recs' = Append(recs, r) /\ tiers' = tiers
      BY <2>2 DEF Next, RecordComes
    <3>2. recs' \in Seq(Records)
      BY <3>1 DEF Typed
    <3>3. \A i \in DOMAIN recs' : recs'[i] = r \/ (i \in DOMAIN recs /\ recs'[i] = recs[i])
      BY <3>1 DEF Typed
    <3> QED BY <3>1, <3>2, <3>3 DEF Typed, Collected
  <2> QED BY <2>1, <2>2
<1> QED BY <1>1, <1>2, PTL DEF Spec

LEMMA RecordTyped ==
  ASSUME NEW r \in Records
  PROVE  /\ Len(r.tiers) \in Nat /\ DOMAIN r.tiers = 1..Len(r.tiers) /\ r.hitCost \in Nat
         /\ \A k \in DOMAIN r.tiers : r.tiers[k].score \in 0..Top /\ r.tiers[k].cost \in Nat
<1> DEFINE Obs == [score : 0..Top, correct : BOOLEAN, truth : SUBSET BOOLEAN, cost : Nat]
<1>1. r.tiers \in Seq(Obs) /\ r.hitCost \in Nat
  BY RecordsAssumption
<1>2. /\ Len(r.tiers) \in Nat /\ DOMAIN r.tiers = 1..Len(r.tiers)
      /\ \A k \in DOMAIN r.tiers : r.tiers[k] \in Obs
  <2> HIDE DEF Obs
  <2> QED BY <1>1
<1> QED BY <1>1, <1>2

\* The tiers at which a policy may answer; it does at the first of them.
Stops(r, tau) ==
  {k \in DOMAIN r.tiers :
     k = Len(r.tiers) \/ (k <= Len(tau) /\ r.tiers[k].score >= tau[k])}

LEMMA ServedFirst ==
  ASSUME NEW r \in Records, NEW tau
  PROVE  /\ Len(r.tiers) = 0 => ServedAt(r, tau) = 0
         /\ Len(r.tiers) # 0 => /\ ServedAt(r, tau) \in Stops(r, tau)
                                /\ \A k \in Stops(r, tau) : ServedAt(r, tau) <= k
                                /\ ServedAt(r, tau) \in 1..Len(r.tiers)
<1>1. Len(r.tiers) \in Nat /\ DOMAIN r.tiers = 1..Len(r.tiers)
  BY RecordTyped
<1>2. ServedAt(r, tau) = IF Stops(r, tau) = {} THEN 0 ELSE Min(Stops(r, tau))
  BY DEF ServedAt, Stops
<1>3. Stops(r, tau) \subseteq 1..Len(r.tiers)
  BY <1>1 DEF Stops
<1>4. CASE Len(r.tiers) = 0
  <2>1. Stops(r, tau) = {}
    BY <1>3, <1>4
  <2> QED BY <1>2, <1>4, <2>1
<1>5. CASE Len(r.tiers) # 0
  <2>1. Len(r.tiers) \in Stops(r, tau)
    BY <1>1, <1>5 DEF Stops
  <2>2. \E m \in Stops(r, tau) : \A n \in Stops(r, tau) : m <= n
    <3>1. Stops(r, tau) \in SUBSET Nat /\ Stops(r, tau) # {}
      BY <1>3, <2>1
    <3> QED BY <3>1, Least
  <2>3. /\ Min(Stops(r, tau)) \in Stops(r, tau)
        /\ \A k \in Stops(r, tau) : Min(Stops(r, tau)) <= k
    BY <2>2, Zenon DEF Min
  <2>4. ServedAt(r, tau) = Min(Stops(r, tau))
    BY <1>2, <2>1
  <2> QED BY <1>3, <1>5, <2>3, <2>4
<1> QED BY <1>4, <1>5

\* Where the labels are execution truth, the two replays count the same errors.
SoundLabels(r) == \A k \in DOMAIN r.tiers : Truth(r.tiers[k]) = r.tiers[k].correct

LEMMA SoundRisk ==
  ASSUME NEW rs, NEW S, \A i \in S : rs[i] \in Records /\ SoundLabels(rs[i]), NEW tau
  PROVE  Risk(rs, S, tau) = RealizedRisk(rs, S, tau)
<1>1. ASSUME NEW i \in S
      PROVE  Replay(rs[i], tau).correct <=> ReplayTruth(rs[i], tau)
  <2> DEFINE r == rs[i]
             k == ServedAt(r, tau)
  <2>1. CASE r.hit
    BY <2>1 DEF Replay, ReplayTruth
  <2>2. CASE ~r.hit
    <3>1. k = 0 \/ k \in DOMAIN r.tiers
      BY ServedFirst, RecordTyped
    <3>2. k \in DOMAIN r.tiers => Truth(r.tiers[k]) = r.tiers[k].correct
      BY DEF SoundLabels
    <3>3. /\ Replay(r, tau).correct = (k > 0 /\ r.tiers[k].correct)
          /\ ReplayTruth(r, tau) = (k > 0 /\ Truth(r.tiers[k]))
      BY <2>2, Zenon DEF Replay, ReplayTruth
    <3>4. ~(0 > 0)
      OBVIOUS
    <3> HIDE DEF k, r
    <3> QED BY <3>1, <3>2, <3>3, <3>4, Zenon DEF r
  <2> QED BY <2>1, <2>2
<1>2. {i \in S : ~Replay(rs[i], tau).correct} = {i \in S : ~ReplayTruth(rs[i], tau)}
  BY <1>1
<1> QED BY <1>2, Zenon DEF Risk, RealizedRisk

LEMMA ReportSays ==
  ASSUME NEW rs, NEW S, NEW t, NEW v
  PROVE  /\ Report(rs, S, t, v).ok /\ Report(rs, S, t, v).valid = v
         /\ Report(rs, S, t, v).thresholds = t /\ Report(rs, S, t, v).n = Cardinality(S)
         /\ Report(rs, S, t, v).bad = Risk(rs, S, t)
         /\ Report(rs, S, t, v).realBad = RealizedRisk(rs, S, t)
BY DEF Report

\* A cache that absorbs nothing opens no gap (absorb.go:154-169): for any records whose
\* labels are execution truth, any configuration and either method of the test.
THEOREM NothingAbsorbed == Spec => []NoWarmthNoGap
<1>1. Typed => NoWarmthNoGap
  <2> DEFINE S == Used(recs)
             n == Cardinality(S)
  <2> SUFFICES ASSUME Typed, S # {},
                      \A i \in S : \A k \in DOMAIN recs[i].tiers :
                        Truth(recs[i].tiers[k]) = recs[i].tiers[k].correct,
                      NEW pattern \in Patterns, NEW eps \in {0, 100}, NEW m \in Methods,
                      NEW R \in Residuals(recs, S, Warm, pattern, 0),
                      NEW C \in CalStreams(S, R, eps)
               PROVE  SweepRow(recs, R, C, tiers, m).gap = 0
    BY DEF NoWarmthNoGap
  <2>1. S \subseteq DOMAIN recs /\ IsFiniteSet(S) /\ n \in Nat \ {0}
    <3>1. DOMAIN recs = 1..Len(recs) /\ Len(recs) \in Nat /\ S \subseteq DOMAIN recs
      BY DEF Typed, Used
    <3>2. IsFiniteSet(1..Len(recs))
      BY <3>1, FS_Interval
    <3> QED BY <3>1, <3>2, FS_Subset, FS_CardinalityType, FS_EmptySet
  <2>2. \A i \in S : recs[i] \in Records /\ SoundLabels(recs[i])
    <3>1. \A i \in DOMAIN recs : recs[i] \in Records
      BY DEF Typed
    <3> QED BY <2>1, <3>1 DEF SoundLabels
  <2> HIDE DEF S
  <2>3. R = S
    <3> DEFINE drop == Min({RoundPct(0, n), n - 1})
    <3>1. drop = 0
      <4>1. RoundPct(0, n) = 0
        BY <2>1 DEF RoundPct
      <4>2. \E x \in {0, n - 1} : \A y \in {0, n - 1} : x <= y
        BY <2>1
      <4>3. Min({0, n - 1}) \in {0, n - 1} /\ \A y \in {0, n - 1} : Min({0, n - 1}) <= y
        BY <4>2, Zenon DEF Min
      <4> HIDE DEF n
      <4>4. Min({0, n - 1}) = 0
        BY <2>1, <4>3
      <4> QED BY <4>1, <4>4 DEF n
    <3>2. CASE pattern = "uniform"
      <4>1. R \in SUBSET S /\ Cardinality(R) = n
        <5>1. R \in kSubset(n - drop, S)
          BY <3>2 DEF Residuals
        <5>2. n - drop = n
          BY <2>1, <3>1
        <5> QED BY <5>1, <5>2 DEF kSubset
      <4> QED BY <2>1, <4>1, FS_Subset
    <3>3. CASE pattern # "uniform"
      <4>1. R = {i \in S : Cardinality({j \in S : Sooner(recs, Warm, pattern, j, i)}) >= drop}
        BY <3>3 DEF Residuals
      <4>2. \A i \in S : Cardinality({j \in S : Sooner(recs, Warm, pattern, j, i)}) \in Nat
        <5> TAKE i \in S
        <5>1. {j \in S : Sooner(recs, Warm, pattern, j, i)} \in SUBSET S
          OBVIOUS
        <5> QED BY <2>1, <5>1, FS_Subset, FS_CardinalityType
      <4> HIDE DEF drop
      <4> QED BY <3>1, <4>1, <4>2
    <3> QED BY <3>2, <3>3
  <2>4. C = S
    BY <2>3 DEF CalStreams, ShadowDraws
  <2> DEFINE cert == CalibrateStripped(recs, S, tiers, m)
  <2>5. n >= 2 => cert.bad = RealizedRisk(recs, S, cert.thresholds)
    <3> SUFFICES ASSUME n >= 2
                 PROVE  cert.bad = RealizedRisk(recs, S, cert.thresholds)
      OBVIOUS
    <3>1. \E t, v : cert = Report(recs, S, t, v)
      <4>1. n # 0
        BY <2>1
      <4> QED BY <4>1, Zenon DEF CalibrateStripped, CalibrateOn
    <3>2. PICK t, v : cert = Report(recs, S, t, v)
      BY <3>1
    <3>3. cert.bad = Risk(recs, S, t) /\ cert.thresholds = t
      <4> HIDE DEF cert
      <4> QED BY <3>2, ReportSays
    <3> QED BY <2>2, <3>3, SoundRisk
  <2>6. CASE n < 2
    BY <2>3, <2>6 DEF SweepRow
  <2>7. CASE ~(n < 2)
    <3> DEFINE x == RealizedRisk(recs, S, cert.thresholds)
    <3>1. n >= 2
      BY <2>1, <2>7
    <3>2. SweepRow(recs, R, C, tiers, m).gap = x * n - x * n
      BY <2>3, <2>4, <2>5, <2>7, <3>1, Zenon DEF SweepRow
    <3>3. x \in Nat
      <4>1. {i \in S : ~ReplayTruth(recs[i], cert.thresholds)} \in SUBSET S
        OBVIOUS
      <4> QED BY <2>1, <4>1, FS_Subset, FS_CardinalityType DEF RealizedRisk
    <3> HIDE DEF x, n
    <3> QED BY <2>1, <3>2, <3>3
  <2> QED BY <2>6, <2>7
<1> QED BY <1>1, TypedHolds, PTL

-----------------------------------------------------------------------------
(* The choice of the cheapest.                                             *)

\* R is a strict total order on S.
Orders(R, S) ==
  /\ \A x \in S : <<x, x>> \notin R
  /\ \A x, y \in S : x = y \/ <<x, y>> \in R \/ <<y, x>> \in R
  /\ \A x, y, z \in S : <<x, y>> \in R /\ <<y, z>> \in R => <<x, z>> \in R

\* A strict total order on a finite set has a first member.
LEMMA FirstOfAll ==
  ASSUME NEW S, IsFiniteSet(S), S # {}, NEW R,
         Orders(R, S)
  PROVE  \E t \in S : \A u \in S : t = u \/ <<t, u>> \in R
<1> DEFINE below(x) == {y \in S : <<y, x>> \in R}
           Sizes == {Cardinality(below(x)) : x \in S}
<1>1. \A x : below(x) \in SUBSET S /\ IsFiniteSet(below(x)) /\ Cardinality(below(x)) \in Nat
  <2> TAKE x
  <2>1. below(x) \in SUBSET S
    OBVIOUS
  <2> QED BY <2>1, FS_Subset, FS_CardinalityType
<1>2. PICK n \in Sizes : \A k \in Sizes : n <= k
  <2>1. Sizes \in SUBSET Nat /\ Sizes # {}
    <3> HIDE DEF below
    <3> QED BY <1>1
  <2> HIDE DEF Sizes
  <2> QED BY <2>1, Least
<1>3. PICK t \in S : n = Cardinality(below(t))
  BY <1>2
<1>4. ASSUME NEW u \in S
      PROVE  t = u \/ <<t, u>> \in R
  <2> SUFFICES ASSUME <<u, t>> \in R
               PROVE  FALSE
    BY DEF Orders
  <2>1. below(u) \in SUBSET below(t) /\ u \in below(t) /\ u \notin below(u)
    BY DEF Orders
  <2>2. Cardinality(below(u)) <= n /\ Cardinality(below(u)) # n
    <3>1. below(u) # below(t)
      BY <2>1
    <3> HIDE DEF below
    <3> QED BY <1>1, <1>3, <2>1, <3>1, FS_Subset
  <2>3. n <= Cardinality(below(u)) /\ n \in Nat /\ Cardinality(below(u)) \in Nat
    <3> HIDE DEF below
    <3> QED BY <1>1, <1>2, <1>3
  <2> HIDE DEF below
  <2> QED BY <2>2, <2>3
<1> QED BY <1>4

\* Of the members that are least by key it has a first one, too.
LEMMA FirstOfLeast ==
  ASSUME NEW S, IsFiniteSet(S), S # {}, NEW key, \A x \in S : key[x] \in Nat, NEW R,
         Orders(R, S)
  PROVE  \E t \in S : \A u \in S :
           key[t] < key[u] \/ (key[t] = key[u] /\ (t = u \/ <<t, u>> \in R))
<1> DEFINE K == {key[x] : x \in S}
<1>1. PICK k \in K : \A l \in K : k <= l
  <2>1. K \in SUBSET Nat /\ K # {}
    OBVIOUS
  <2> HIDE DEF K
  <2> QED BY <2>1, Least
<1> DEFINE M == {x \in S : key[x] = k}
<1>2. M # {} /\ M \in SUBSET S /\ IsFiniteSet(M)
  <2>1. M # {} /\ M \in SUBSET S
    BY <1>1
  <2> HIDE DEF M
  <2> QED BY <2>1, FS_Subset
<1>3. PICK t \in M : \A u \in M : t = u \/ <<t, u>> \in R
  <2>1. Orders(R, M)
    BY <1>2 DEF Orders
  <2> HIDE DEF M
  <2> QED BY <1>2, <2>1, FirstOfAll
<1>4. ASSUME NEW u \in S
      PROVE  key[t] < key[u] \/ (key[t] = key[u] /\ (t = u \/ <<t, u>> \in R))
  <2>1. key[t] = k /\ k \in Nat /\ key[u] \in Nat /\ k <= key[u]
    BY <1>1, <1>3
  <2>2. CASE key[u] = k
    BY <1>3, <2>1, <2>2
  <2>3. CASE key[u] # k
    BY <2>1, <2>3
  <2> QED BY <2>2, <2>3
<1> QED BY <1>3, <1>4

\* LexLess is a strict total order on vectors of one length.
LEMMA LexOrders ==
  ASSUME NEW a \in Nat
  PROVE  /\ \A t \in [1..a -> Nat] : ~LexLess(t, t)
         /\ \A t, u \in [1..a -> Nat] : t = u \/ LexLess(t, u) \/ LexLess(u, t)
         /\ \A t, u, v \in [1..a -> Nat] : LexLess(t, u) /\ LexLess(u, v) => LexLess(t, v)
<1>1. ASSUME NEW t \in [1..a -> Nat]
      PROVE  ~LexLess(t, t)
  BY DEF LexLess
<1>2. ASSUME NEW t \in [1..a -> Nat], NEW u \in [1..a -> Nat], t # u
      PROVE  LexLess(t, u) \/ LexLess(u, t)
  <2> DEFINE I == {i \in 1..a : t[i] # u[i]}
  <2>1. I \in SUBSET Nat /\ I # {}
    BY <1>2
  <2>2. PICK i \in I : \A j \in I : i <= j
    <3> HIDE DEF I
    <3> QED BY <2>1, Least
  <2>3. i \in 1..a /\ t[i] # u[i] /\ t[i] \in Nat /\ u[i] \in Nat
    BY <2>2
  <2>4. \A j \in 1..(i - 1) : t[j] = u[j]
    <3> SUFFICES ASSUME NEW j \in 1..(i - 1)
                 PROVE  t[j] = u[j]
      OBVIOUS
    <3>1. j \in 1..a /\ ~(i <= j)
      BY <2>3
    <3> QED BY <2>2, <3>1
  <2>5. CASE t[i] < u[i]
    BY <2>3, <2>4, <2>5 DEF LexLess
  <2>6. CASE u[i] < t[i]
    BY <2>3, <2>4, <2>6 DEF LexLess
  <2> QED BY <2>3, <2>5, <2>6
<1>3. ASSUME NEW t \in [1..a -> Nat], NEW u \in [1..a -> Nat], NEW v \in [1..a -> Nat],
             LexLess(t, u), LexLess(u, v)
      PROVE  LexLess(t, v)
  <2>1. PICK i \in 1..a : t[i] < u[i] /\ \A j \in 1..(i - 1) : t[j] = u[j]
    BY <1>3 DEF LexLess
  <2>2. PICK k \in 1..a : u[k] < v[k] /\ \A j \in 1..(k - 1) : u[j] = v[j]
    BY <1>3 DEF LexLess
  <2>3. CASE i <= k
    <3>1. t[i] < v[i]
      <4>1. CASE i = k
        BY <2>1, <2>2, <4>1
      <4>2. CASE i # k
        <5>1. i \in 1..(k - 1)
          BY <2>3, <4>2
        <5> QED BY <2>1, <2>2, <5>1
      <4> QED BY <4>1, <4>2
    <3>2. \A j \in 1..(i - 1) : t[j] = v[j]
      <4>1. \A j \in 1..(i - 1) : j \in 1..(k - 1)
        BY <2>3
      <4> QED BY <2>1, <2>2, <4>1
    <3> QED BY <3>1, <3>2 DEF LexLess
  <2>4. CASE k < i
    <3>1. t[k] < v[k]
      <4>1. k \in 1..(i - 1)
        BY <2>4
      <4> QED BY <2>1, <2>2, <4>1
    <3>2. \A j \in 1..(k - 1) : t[j] = v[j]
      <4>1. \A j \in 1..(k - 1) : j \in 1..(i - 1)
        BY <2>4
      <4> QED BY <2>1, <2>2, <4>1
    <3> QED BY <3>1, <3>2 DEF LexLess
  <2> QED BY <2>3, <2>4
<1> QED BY <1>1, <1>2, <1>3

LEMMA TotalInNat ==
  ASSUME NEW f, IsFiniteSet(DOMAIN f), \A i \in DOMAIN f : f[i] \in Nat
  PROVE  Total(f) \in Nat
<1>1. \A i \in DOMAIN f : f[i] <= f[i]
  OBVIOUS
<1> QED BY <1>1, SumsGrow

\* So is the order of the fixed sequence.
LEMMA WalkOrders ==
  ASSUME NEW a \in Nat
  PROVE  /\ \A t \in [1..a -> Nat] : ~Before(t, t)
         /\ \A t, u \in [1..a -> Nat] : t = u \/ Before(t, u) \/ Before(u, t)
         /\ \A t, u, v \in [1..a -> Nat] : Before(t, u) /\ Before(u, v) => Before(t, v)
<1>1. \A t \in [1..a -> Nat] : Total(t) \in Nat
  <2> TAKE t \in [1..a -> Nat]
  <2>1. DOMAIN t = 1..a /\ 1 \in Int /\ a \in Int /\ \A i \in DOMAIN t : t[i] \in Nat
    OBVIOUS
  <2>2. IsFiniteSet(DOMAIN t)
    BY <2>1, FS_Interval
  <2> QED BY <2>1, <2>2, TotalInNat
<1>2. ASSUME NEW t \in [1..a -> Nat]
      PROVE  ~Before(t, t)
  BY <1>1, LexOrders DEF Before
<1>3. ASSUME NEW t \in [1..a -> Nat], NEW u \in [1..a -> Nat], t # u
      PROVE  Before(t, u) \/ Before(u, t)
  <2>1. LexLess(t, u) \/ LexLess(u, t)
    BY <1>3, LexOrders
  <2>2. Total(t) \in Nat /\ Total(u) \in Nat
    BY <1>1
  <2>3. Total(t) > Total(u) \/ Total(u) > Total(t) \/ Total(t) = Total(u)
    BY <2>2
  <2> QED BY <2>1, <2>3, Zenon DEF Before
<1>4. ASSUME NEW t \in [1..a -> Nat], NEW u \in [1..a -> Nat], NEW v \in [1..a -> Nat],
             Before(t, u), Before(u, v)
      PROVE  Before(t, v)
  <2>1. Total(t) \in Nat /\ Total(u) \in Nat /\ Total(v) \in Nat
    BY <1>1
  <2>2. /\ Total(t) > Total(u) \/ (Total(t) = Total(u) /\ LexLess(u, t))
        /\ Total(u) > Total(v) \/ (Total(u) = Total(v) /\ LexLess(v, u))
    BY <1>4, Zenon DEF Before
  <2>3. Total(t) > Total(v) \/ (Total(t) = Total(v) /\ LexLess(u, t) /\ LexLess(v, u))
    BY <2>1, <2>2
  <2>4. LexLess(v, u) /\ LexLess(u, t) => LexLess(v, t)
    BY LexOrders
  <2> QED BY <2>3, <2>4, Zenon DEF Before
<1> QED BY <1>2, <1>3, <1>4

\* The grid is finite, and has a vector.
LEMMA LevelsFinite == IsFiniteSet(Levels) /\ 0 \in Levels /\ Levels \subseteq Nat
<1>1. 0 \in Int /\ Top \in Int /\ Top \in Nat /\ Step \in Nat \ {0}
  BY CalibrateAssumption
<1>2. Levels \in SUBSET (0..Top) /\ Levels \subseteq Nat
  BY <1>1 DEF Levels
<1>3. IsFiniteSet(0..Top)
  BY <1>1, FS_Interval
<1>4. IsFiniteSet(Levels)
  BY <1>2, <1>3, FS_Subset
<1>5. 0 \in Levels
  BY <1>1 DEF Levels
<1> QED BY <1>2, <1>4, <1>5

LEMMA FunctionsFinite ==
  ASSUME NEW a \in Nat, NEW V, IsFiniteSet(V)
  PROVE  IsFiniteSet([1..a -> V])
<1> DEFINE D == (1..a) \X V
           F == [1..a -> V]
           g == [t \in F |-> {p \in D : t[p[1]] = p[2]}]
           Q == SUBSET D
<1>1. IsFiniteSet(Q)
  <2>1. IsFiniteSet(1..a)
    <3>1. 1 \in Int /\ a \in Int
      OBVIOUS
    <3> QED BY <3>1, FS_Interval
  <2>2. IsFiniteSet(D)
    BY <2>1, FS_Product
  <2> QED BY <2>2, FS_SUBSET
<1>2. g \in Injection(F, Q)
  <2>1. g \in [F -> Q]
    OBVIOUS
  <2>2. ASSUME NEW t \in F, NEW u \in F, g[t] = g[u]
        PROVE  t = u
    <3>1. ASSUME NEW i \in 1..a
          PROVE  t[i] = u[i]
      <4>1. <<i, t[i]>> \in D
        OBVIOUS
      <4>2. <<i, t[i]>> \in g[t]
        BY <4>1
      <4>3. <<i, t[i]>> \in g[u]
        BY <2>2, <4>2
      <4> QED BY <4>3
    <3> QED BY <3>1
  <2> QED BY <2>1, <2>2 DEF Injection, IsInjective
<1> HIDE DEF g, Q, F
<1>3. IsFiniteSet(F)
  BY <1>1, <1>2, FS_Injection
<1> QED BY <1>3 DEF F

LEMMA GridIsFinite ==
  ASSUME NEW a \in Nat \ {0}
  PROVE  IsFiniteSet(Grid(a)) /\ Grid(a) # {} /\ Grid(a) \subseteq [1..a -> Nat]
<1>1. Grid(a) = [1..a -> Levels]
  BY DEF Grid
<1>2. IsFiniteSet([1..a -> Levels])
  BY LevelsFinite, FunctionsFinite
<1>3. [i \in 1..a |-> 0] \in [1..a -> Levels] /\ [1..a -> Levels] \subseteq [1..a -> Nat]
  BY LevelsFinite
<1> QED BY <1>1, <1>2, <1>3

-----------------------------------------------------------------------------
(* What a policy costs.                                                    *)

\* The cost of the first tiers of a record, up to one of them.
Prefix(r, k) == [j \in 1..k |-> r.tiers[j].cost]

LEMMA PrefixGrows ==
  ASSUME NEW r \in Records, NEW k \in 0..Len(r.tiers), NEW l \in 0..k
  PROVE  /\ Total(Prefix(r, k)) \in Nat /\ Total(Prefix(r, l)) \in Nat
         /\ Total(Prefix(r, l)) <= Total(Prefix(r, k))
<1>1. Len(r.tiers) \in Nat /\ k \in Nat /\ l \in Nat /\ 1 \in Int /\ l <= k
  BY RecordTyped
<1>2. IsFiniteSet(1..k) /\ 1..l \subseteq 1..k
  BY <1>1, FS_Interval
<1>3. \A j \in 1..k : r.tiers[j].cost \in Nat
  BY <1>1, RecordTyped
<1>4. /\ DOMAIN Prefix(r, k) = 1..k /\ DOMAIN Prefix(r, l) = 1..l
      /\ \A j \in 1..k : Prefix(r, k)[j] = r.tiers[j].cost
      /\ \A j \in 1..l : Prefix(r, l)[j] = r.tiers[j].cost
  BY DEF Prefix
<1>5. \A j \in 1..l : Prefix(r, l)[j] \in Nat /\ Prefix(r, l)[j] <= Prefix(r, k)[j]
  <2>1. \A j \in 1..l : j \in 1..k
    BY <1>2
  <2>2. \A x \in Nat : x <= x
    OBVIOUS
  <2> QED BY <1>3, <1>4, <2>1, <2>2, Zenon
<1> QED BY <1>2, <1>3, <1>4, <1>5, SumsGrow

LEMMA ReplayCost ==
  ASSUME NEW r \in Records, NEW tau
  PROVE  /\ ServedAt(r, tau) \in 0..Len(r.tiers)
         /\ Replay(r, tau).cost = IF r.hit THEN r.hitCost ELSE Total(Prefix(r, ServedAt(r, tau)))
         /\ Replay(r, tau).cost \in Nat
<1>1. ServedAt(r, tau) \in 0..Len(r.tiers)
  BY ServedFirst, RecordTyped
<1>2. Replay(r, tau).cost = IF r.hit THEN r.hitCost ELSE Total(Prefix(r, ServedAt(r, tau)))
  BY DEF Replay, Prefix
<1>3. Total(Prefix(r, ServedAt(r, tau))) \in Nat
  <2>1. 0 \in 0..ServedAt(r, tau)
    BY <1>1, RecordTyped
  <2> QED BY <1>1, <2>1, PrefixGrows
<1> QED BY <1>1, <1>2, <1>3, RecordTyped

\* The cheapest of a set of vectors is one of them, in either order.
LEMMA CheapestIsOne ==
  ASSUME NEW a \in Nat \ {0}, NEW S \in SUBSET Grid(a), S # {},
         NEW key, \A t \in S : key[t] \in Nat, NEW walked \in BOOLEAN
  PROVE  Cheapest(S, key, walked) \in S
<1> DEFINE V == [1..a -> Nat]
           R == {p \in V \X V : IF walked THEN Before(p[1], p[2]) ELSE LexLess(p[1], p[2])}
<1>1. IsFiniteSet(S) /\ S \subseteq V
  BY GridIsFinite, FS_Subset
<1>2. \A t \in V, u \in V :
        <<t, u>> \in R <=> IF walked THEN Before(t, u) ELSE LexLess(t, u)
  OBVIOUS
<1>3. Orders(R, V)
  <2>1. a \in Nat
    OBVIOUS
  <2>2. CASE walked
    <3>1. \A t, u \in V : <<t, u>> \in R <=> Before(t, u)
      BY <1>2, <2>2
    <3> HIDE DEF R, V
    <3> QED BY <2>1, <3>1, WalkOrders DEF Orders, V
  <2>3. CASE ~walked
    <3>1. \A t, u \in V : <<t, u>> \in R <=> LexLess(t, u)
      BY <1>2, <2>3
    <3> HIDE DEF R, V
    <3> QED BY <2>1, <3>1, LexOrders DEF Orders, V
  <2> QED BY <2>2, <2>3
<1> HIDE DEF R, V
<1>4. Orders(R, S)
  BY <1>1, <1>3 DEF Orders
<1>5. PICK t \in S : \A u \in S :
        key[t] < key[u] \/ (key[t] = key[u] /\ (t = u \/ <<t, u>> \in R))
  BY <1>1, <1>4, FirstOfLeast
<1>6. \A u \in S : \/ key[t] < key[u]
                   \/ key[t] = key[u]
                        /\ (t = u \/ IF walked THEN Before(t, u) ELSE LexLess(t, u))
  BY <1>1, <1>2, <1>5, Zenon
<1> QED BY <1>6, Zenon DEF Cheapest

\* A policy costs a natural number, on a stream of the records.
LEMMA CostInNat ==
  ASSUME NEW rs, NEW S, IsFiniteSet(S), \A i \in S : rs[i] \in Records, NEW tau
  PROVE  Cost(rs, S, tau) \in Nat
<1> DEFINE f == [i \in S |-> Replay(rs[i], tau).cost]
<1>1. \A i \in S : f[i] \in Nat
  <2> SUFFICES ASSUME NEW i \in S
               PROVE  Replay(rs[i], tau).cost \in Nat
    OBVIOUS
  <2> QED BY ReplayCost
<1>2. DOMAIN f = S
  OBVIOUS
<1> HIDE DEF f
<1>3. Total(f) \in Nat
  BY <1>1, <1>2, TotalInNat
<1> QED BY <1>3 DEF f, Cost

\* The stream is made of collected records.
LEMMA StreamTyped ==
  ASSUME Typed
  PROVE  /\ Stream(recs) \subseteq Used(recs) /\ IsFiniteSet(Stream(recs))
         /\ Cardinality(Stream(recs)) \in Nat
         /\ \A i \in Stream(recs) : i \in Collected /\ recs[i] \in Records
<1>1. DOMAIN recs = 1..Len(recs) /\ Len(recs) \in Nat /\ \A i \in DOMAIN recs : recs[i] \in Records
  BY DEF Typed
<1>2. IsFiniteSet(1..Len(recs))
  BY <1>1, FS_Interval
<1>3. Stream(recs) \in SUBSET (1..Len(recs)) /\ Stream(recs) \subseteq Used(recs)
  BY <1>1 DEF Stream, Shadow, Used
<1> QED BY <1>1, <1>2, <1>3, FS_Subset, FS_CardinalityType DEF Collected

\* A valid certificate of a configuration of several tiers is about a vector that passed.
LEMMA ValidPassed ==
  ASSUME Typed, tiers > 1, NEW m \in Methods,
         CalibrateRecords(recs, tiers, m).ok, CalibrateRecords(recs, tiers, m).valid
  PROVE  \E t : /\ CalibrateRecords(recs, tiers, m) = Report(recs, Stream(recs), t, TRUE)
                /\ Risk(recs, Stream(recs), t) * AlphaDen
                     < AlphaNum * Cardinality(Stream(recs))
                /\ m # "bonferroni" =>
                     Rejects(Risk(recs, Stream(recs), t), Cardinality(Stream(recs)),
                             DeltaNum, DeltaDen)
<1> DEFINE S == Stream(recs)
           n == Cardinality(S)
           grid == Grid(tiers - 1)
           bad == [t \in grid |-> Risk(recs, S, t)]
           cost == [t \in grid |-> Cost(recs, S, t)]
           passed == IF m = "bonferroni" THEN Bonferroni(grid, bad, n)
                                         ELSE FixedSequence(grid, bad, n)
           cert == CalibrateOn(recs, S, tiers, m)
<1>1. tiers - 1 \in Nat \ {0}
  BY RecordsAssumption DEF Typed
<1>2. grid # {} /\ IsFiniteSet(grid)
  BY <1>1, GridIsFinite
<1>3. \A t \in passed :
        /\ t \in grid /\ Risk(recs, S, t) * AlphaDen < AlphaNum * n
        /\ m # "bonferroni" => Rejects(Risk(recs, S, t), n, DeltaNum, DeltaDen)
  <2> HIDE DEF n, S, grid
  <2>1. \A t \in grid : \A d : Rejects(bad[t], n, DeltaNum, d)
          => Risk(recs, S, t) * AlphaDen < AlphaNum * n
    BY DEF Rejects
  <2> QED BY <2>1 DEF Bonferroni, FixedSequence
<1>4. n # 0
  <2>1. [ok |-> FALSE].ok = FALSE
    OBVIOUS
  <2> QED BY <2>1, Zenon DEF CalibrateRecords, CalibrateOn
<1>5. passed # {}
  <2> SUFFICES ASSUME passed = {}
               PROVE  FALSE
    OBVIOUS
  <2>1. cert = Report(recs, S, Cheapest(grid, bad, FALSE), FALSE)
    BY <1>2, <1>4, Zenon DEF CalibrateOn
  <2>2. cert.valid
    BY DEF CalibrateRecords
  <2>3. \A t : Report(recs, S, t, FALSE).valid = FALSE
    BY DEF Report
  <2> HIDE DEF cert
  <2> QED BY <2>1, <2>2, <2>3, Zenon
<1>6. \E w \in BOOLEAN : cert = Report(recs, S, Cheapest(passed, cost, w), TRUE)
  <2>1. CASE m = "bonferroni"
    <3>1. cert = Report(recs, S, Cheapest(passed, cost, FALSE), TRUE)
      BY <1>2, <1>4, <1>5, <2>1, Zenon DEF CalibrateOn
    <3> HIDE DEF cert, passed, cost, S
    <3> QED BY <3>1
  <2>2. CASE m # "bonferroni"
    <3>1. cert = Report(recs, S, Cheapest(passed, cost, TRUE), TRUE)
      BY <1>2, <1>4, <1>5, <2>2, Zenon DEF CalibrateOn
    <3> HIDE DEF cert, passed, cost, S
    <3> QED BY <3>1
  <2> QED BY <2>1, <2>2
<1>7. PICK w \in BOOLEAN : cert = Report(recs, S, Cheapest(passed, cost, w), TRUE)
  BY <1>6
<1>8. \A t \in passed : cost[t] \in Nat
  <2>1. \A t \in passed : t \in grid
    BY <1>3
  <2>2. \A t : Cost(recs, S, t) \in Nat
    BY StreamTyped, CostInNat
  <2> HIDE DEF passed, grid, S
  <2> QED BY <2>1, <2>2
<1>9. Cheapest(passed, cost, w) \in passed
  <2>1. passed \in SUBSET Grid(tiers - 1)
    BY <1>3
  <2> HIDE DEF passed, cost
  <2> QED BY <1>1, <1>5, <1>8, <2>1, CheapestIsOne
<1> QED BY <1>3, <1>7, <1>9, Zenon DEF CalibrateRecords

\* Where every label is execution truth the nominal-certificate warning stays silent
\* (ltt.go:472-477), for any records and parameters of the test. A configuration of one
\* tier leaves nothing to choose, and its certificate is valid untested (ltt.go:391-397).
THEOREM SoundOracle == Spec => [](tiers > 1 => SoundOracleNeverNominal)
<1>1. ASSUME Typed, tiers > 1
      PROVE  SoundOracleNeverNominal
  <2> SUFFICES ASSUME \A i \in Collected : SoundLabels(recs[i]),
                      NEW m \in Methods, FlagIfNominal(CalibrateRecords(recs, tiers, m))
               PROVE  FALSE
    BY DEF SoundOracleNeverNominal, SoundLabels
  <2> DEFINE cert == CalibrateRecords(recs, tiers, m)
             S == Stream(recs)
             n == Cardinality(S)
  <2>1. cert.ok /\ cert.valid /\ cert.realBad * AlphaDen > AlphaNum * cert.n
    BY DEF FlagIfNominal
  <2>2. PICK t : cert = Report(recs, S, t, TRUE) /\ Risk(recs, S, t) * AlphaDen < AlphaNum * n
    BY <1>1, <2>1, ValidPassed
  <2>3. cert.n = n /\ cert.realBad = RealizedRisk(recs, S, t)
    <3>1. /\ Report(recs, S, t, TRUE).n = Cardinality(S)
          /\ Report(recs, S, t, TRUE).realBad = RealizedRisk(recs, S, t)
      BY DEF Report
    <3> HIDE DEF cert
    <3> QED BY <2>2, <3>1, Zenon
  <2>4. \A i \in S : recs[i] \in Records /\ SoundLabels(recs[i])
    BY <1>1, StreamTyped
  <2>5. Risk(recs, S, t) = RealizedRisk(recs, S, t)
    BY <2>4, SoundRisk
  <2>6. Risk(recs, S, t) \in Nat /\ n \in Nat
    <3>1. {i \in S : ~Replay(recs[i], t).correct} \in SUBSET S
      OBVIOUS
    <3> QED BY <1>1, <3>1, StreamTyped, FS_Subset, FS_CardinalityType DEF Risk
  <2>7. Risk(recs, S, t) * AlphaDen > AlphaNum * n /\ Risk(recs, S, t) * AlphaDen < AlphaNum * n
    BY <2>1, <2>2, <2>3, <2>5
  <2> HIDE DEF S, n
  <2>8. \A x, y \in Nat : ~(x > y /\ x < y)
    OBVIOUS
  <2>9. Risk(recs, S, t) * AlphaDen \in Nat /\ AlphaNum * n \in Nat
    BY <2>6, CalibrateAssumption
  <2> QED BY <2>7, <2>8, <2>9, Zenon
<1> QED BY <1>1, TypedHolds, PTL

FitsTheTiers(t) == /\ Len(t) = tiers - 1
                   /\ \A k \in 1..(tiers - 1) : t[k] \in Levels

CertificatesFitTheTiers ==
  \A m \in Methods : CalibrateRecords(recs, tiers, m).ok =>
    FitsTheTiers(CalibrateRecords(recs, tiers, m).thresholds)

\* A certificate has one threshold for each tier it was computed for but the last, a step
\* of the grid each (ltt.go:379-397): the router's condition on one that covers its tiers
\* holds as long as those are the tiers configured. It is so for any records, and for
\* certificates that are not valid too.
THEOREM CertificatesFit == Spec => []CertificatesFitTheTiers
<1>1. ASSUME Typed, NEW m \in Methods, CalibrateRecords(recs, tiers, m).ok
      PROVE  FitsTheTiers(CalibrateRecords(recs, tiers, m).thresholds)
  <2> DEFINE S == Stream(recs)
             n == Cardinality(S)
             grid == Grid(tiers - 1)
             bad == [t \in grid |-> Risk(recs, S, t)]
             cost == [t \in grid |-> Cost(recs, S, t)]
             passed == IF m = "bonferroni" THEN Bonferroni(grid, bad, n)
                                           ELSE FixedSequence(grid, bad, n)
             cert == CalibrateRecords(recs, tiers, m)
  <2>1. tiers \in Nat \ {0}
    BY <1>1, RecordsAssumption DEF Typed
  <2>2. n # 0
    <3>1. [ok |-> FALSE].ok = FALSE
      OBVIOUS
    <3> QED BY <1>1, <3>1, Zenon DEF CalibrateRecords, CalibrateOn
  <2>3. \A t, v : Report(recs, S, t, v).thresholds = t
    BY DEF Report
  <2>4. CASE tiers = 1
    <3>1. grid = {}
      BY <2>4 DEF Grid
    <3>2. cert = Report(recs, S, <<>>, TRUE)
      BY <2>2, <3>1, Zenon DEF CalibrateRecords, CalibrateOn
    <3>3. cert.thresholds = <<>>
      BY <2>3, <3>2, Zenon
    <3>4. FitsTheTiers(<<>>)
      BY <2>4 DEF FitsTheTiers
    <3> QED BY <3>3, <3>4, Zenon
  <2>5. CASE tiers # 1
    <3>1. tiers - 1 \in Nat \ {0}
      BY <2>1, <2>5
    <3>2. grid # {} /\ \A t \in grid : t \in [1..(tiers - 1) -> Levels]
      BY <3>1, GridIsFinite DEF Grid
    <3>3. passed \subseteq grid
      BY Zenon DEF Bonferroni, FixedSequence
    <3>4. \A t \in grid : bad[t] \in Nat /\ cost[t] \in Nat
      <4>1. \A t : Cost(recs, S, t) \in Nat
        BY <1>1, StreamTyped, CostInNat
      <4>2. \A t : Risk(recs, S, t) \in Nat
        <5> TAKE t
        <5>1. {i \in S : ~Replay(recs[i], t).correct} \in SUBSET S
          OBVIOUS
        <5> QED BY <1>1, <5>1, StreamTyped, FS_Subset, FS_CardinalityType DEF Risk
      <4> HIDE DEF grid, S
      <4> QED BY <4>1, <4>2
    <3>5. Cheapest(grid, bad, FALSE) \in grid
      <4> HIDE DEF bad
      <4> QED BY <3>1, <3>2, <3>4, CheapestIsOne
    <3>6. ASSUME passed # {}, NEW w \in BOOLEAN
          PROVE  Cheapest(passed, cost, w) \in grid
      <4>1. passed \in SUBSET Grid(tiers - 1) /\ \A t \in passed : cost[t] \in Nat
        BY <3>3, <3>4
      <4> HIDE DEF passed, cost
      <4>2. Cheapest(passed, cost, w) \in passed
        BY <3>1, <3>6, <4>1, CheapestIsOne
      <4> QED BY <4>1, <4>2
    <3>7. cert.thresholds \in grid
      <4>1. CASE passed = {}
        <5>1. cert = Report(recs, S, Cheapest(grid, bad, FALSE), FALSE)
          BY <2>2, <3>2, <4>1, Zenon DEF CalibrateRecords, CalibrateOn
        <5> QED BY <2>3, <3>5, <5>1, Zenon
      <4>2. CASE passed # {} /\ m = "bonferroni"
        <5>1. cert = Report(recs, S, Cheapest(passed, cost, FALSE), TRUE)
          BY <2>2, <3>2, <4>2, Zenon DEF CalibrateRecords, CalibrateOn
        <5>2. Cheapest(passed, cost, FALSE) \in grid
          <6> HIDE DEF passed, cost, grid
          <6> QED BY <3>6, <4>2
        <5> QED BY <2>3, <5>1, <5>2, Zenon
      <4>3. CASE passed # {} /\ m # "bonferroni"
        <5>1. cert = Report(recs, S, Cheapest(passed, cost, TRUE), TRUE)
          BY <2>2, <3>2, <4>3, Zenon DEF CalibrateRecords, CalibrateOn
        <5>2. Cheapest(passed, cost, TRUE) \in grid
          <6> HIDE DEF passed, cost, grid
          <6> QED BY <3>6, <4>3
        <5> QED BY <2>3, <5>1, <5>2, Zenon
      <4> QED BY <4>1, <4>2, <4>3, Zenon
    <3>8. cert.thresholds \in [1..(tiers - 1) -> Levels]
      BY <3>2, <3>7, Zenon
    <3>9. \A t \in [1..(tiers - 1) -> Levels] : FitsTheTiers(t)
      BY <3>1 DEF FitsTheTiers
    <3> QED BY <3>8, <3>9, Zenon
  <2> QED BY <2>4, <2>5
<1>2. Typed => CertificatesFitTheTiers
  BY <1>1, Zenon DEF CertificatesFitTheTiers
<1> QED BY <1>2, TypedHolds, PTL

LEMMA DivGrows ==
  ASSUME NEW a \in Nat, NEW b \in Nat, a <= b, NEW n \in Nat, NEW c \in Nat \ {0}
  PROVE  (a * n) \div c \in Nat /\ (b * n) \div c \in Nat /\ (a * n) \div c <= (b * n) \div c
<1>1. a * n <= b * n /\ a * n \in Nat /\ b * n \in Nat
  OBVIOUS
<1> QED BY <1>1

\* A stricter policy answers no earlier, and spends no less on a problem.
LEMMA StricterServesLater ==
  ASSUME NEW r \in Records, NEW a \in Nat, NEW t \in [1..a -> Nat], NEW u \in [1..a -> Nat],
         \A k \in 1..a : t[k] <= u[k]
  PROVE  /\ ServedAt(r, t) <= ServedAt(r, u)
         /\ CascadeSpend(r, t) \in Nat /\ CascadeSpend(r, u) \in Nat
         /\ CascadeSpend(r, t) <= CascadeSpend(r, u)
         /\ Replay(r, t).cost <= Replay(r, u).cost
<1>1. /\ ServedAt(r, t) \in 0..Len(r.tiers) /\ ServedAt(r, u) \in 0..Len(r.tiers)
      /\ Len(r.tiers) \in Nat /\ r.hitCost \in Nat
  BY ReplayCost, RecordTyped
<1>2. ServedAt(r, t) <= ServedAt(r, u)
  <2>1. CASE Len(r.tiers) = 0
    <3>1. ServedAt(r, t) = 0 /\ ServedAt(r, u) = 0
      BY <2>1, ServedFirst
    <3> QED BY <3>1
  <2>2. CASE Len(r.tiers) # 0
    <3>1. Len(t) = a /\ Len(u) = a
      OBVIOUS
    <3>2. \A k \in Stops(r, u) : k \in Stops(r, t)
      <4> SUFFICES ASSUME NEW k \in DOMAIN r.tiers, k # Len(r.tiers), k <= a,
                          r.tiers[k].score >= u[k]
                   PROVE  r.tiers[k].score >= t[k]
        BY <3>1 DEF Stops
      <4>1. k \in 1..a /\ r.tiers[k].score \in Nat
        BY RecordTyped
      <4>2. t[k] \in Nat /\ u[k] \in Nat /\ t[k] <= u[k]
        BY <4>1
      <4>3. \A x, y, z \in Nat : x >= z /\ y <= z => x >= y
        OBVIOUS
      <4> QED BY <4>1, <4>2, <4>3
    <3>3. ServedAt(r, u) \in Stops(r, t)
      BY <2>2, <3>2, ServedFirst
    <3> QED BY <2>2, <3>3, ServedFirst
  <2> QED BY <2>1, <2>2
<1>3. ServedAt(r, t) \in 0..ServedAt(r, u)
  BY <1>1, <1>2
<1>4. /\ Total(Prefix(r, ServedAt(r, u))) \in Nat /\ Total(Prefix(r, ServedAt(r, t))) \in Nat
      /\ Total(Prefix(r, ServedAt(r, t))) <= Total(Prefix(r, ServedAt(r, u)))
  BY <1>1, <1>3, PrefixGrows
<1>5. /\ CascadeSpend(r, t) = Total(Prefix(r, ServedAt(r, t)))
      /\ CascadeSpend(r, u) = Total(Prefix(r, ServedAt(r, u)))
  BY DEF CascadeSpend, Prefix
<1>6. Replay(r, t).cost <= Replay(r, u).cost
  <2>1. CASE r.hit
    <3>1. Replay(r, t).cost = r.hitCost /\ Replay(r, u).cost = r.hitCost
      BY <2>1, ReplayCost
    <3> QED BY <1>1, <3>1
  <2>2. CASE ~r.hit
    <3>1. /\ Replay(r, t).cost = Total(Prefix(r, ServedAt(r, t)))
          /\ Replay(r, u).cost = Total(Prefix(r, ServedAt(r, u)))
      BY <2>2, ReplayCost
    <3> QED BY <1>4, <3>1
  <2> QED BY <2>1, <2>2
<1> QED BY <1>2, <1>4, <1>5, <1>6

\* What is collected is finite and typed.
LEMMA CollectedTyped ==
  ASSUME Typed
  PROVE  /\ IsFiniteSet(Collected) /\ \A i \in Collected : recs[i] \in Records
         /\ \A i \in Collected : recs[i].tiers # <<>> =>
              Len(recs[i].tiers) = tiers /\ tiers \in Nat \ {0}
<1>1. Collected = 1..Len(recs) /\ Len(recs) \in Nat /\ \A i \in Collected : recs[i] \in Records
  BY DEF Typed, Collected
<1>2. IsFiniteSet(1..Len(recs))
  BY <1>1, FS_Interval
<1>3. ASSUME NEW i \in Collected, recs[i].tiers # <<>>
      PROVE  Len(recs[i].tiers) = tiers /\ tiers \in Nat \ {0}
  <2>1. Len(recs[i].tiers) # 0
    <3> DEFINE Obs == [score : 0..Top, correct : BOOLEAN, truth : SUBSET BOOLEAN, cost : Nat]
    <3>1. recs[i].tiers \in Seq(Obs)
      BY <1>1, RecordsAssumption
    <3> HIDE DEF Obs
    <3> QED BY <1>3, <3>1
  <2> QED BY <2>1, RecordsAssumption DEF Typed
<1> QED BY <1>1, <1>2, <1>3

\* With no threshold every problem ends at the first tier, with an unreachable one at the
\* last.
LEMMA EndsOfTheScale ==
  ASSUME NEW r \in Records, NEW n \in Nat \ {0}, Len(r.tiers) = n
  PROVE  /\ ServedAt(r, [k \in 1..(n - 1) |-> 0]) = 1
         /\ ServedAt(r, [k \in 1..(n - 1) |-> Top + 1]) = n
<1> DEFINE lax == [k \in 1..(n - 1) |-> 0]
           strict == [k \in 1..(n - 1) |-> Top + 1]
<1>1. /\ DOMAIN r.tiers = 1..n /\ 1 \in 1..n /\ Top \in Nat
      /\ Len(lax) = n - 1 /\ Len(strict) = n - 1
  BY RecordTyped, CalibrateAssumption
<1>2. \A k \in 1..n : r.tiers[k].score \in 0..Top
  BY RecordTyped
<1>3. ServedAt(r, lax) = 1
  <2>1. 1 \in Stops(r, lax)
    <3>1. CASE n = 1
      BY <1>1, <3>1 DEF Stops
    <3>2. CASE n # 1
      <4>1. 1 <= Len(lax) /\ lax[1] = 0
        BY <1>1, <3>2
      <4>2. r.tiers[1].score >= 0
        BY <1>1, <1>2
      <4> HIDE DEF lax
      <4> QED BY <1>1, <4>1, <4>2 DEF Stops
    <3> QED BY <3>1, <3>2
  <2> HIDE DEF lax
  <2>2. ServedAt(r, lax) \in 1..n /\ ServedAt(r, lax) <= 1
    BY <2>1, ServedFirst
  <2> QED BY <2>2
<1>4. ServedAt(r, strict) = n
  <2>1. \A k \in Stops(r, strict) : k = n
    <3> SUFFICES ASSUME NEW k \in 1..n, k <= n - 1, r.tiers[k].score >= strict[k]
                 PROVE  FALSE
      BY <1>1 DEF Stops
    <3>1. strict[k] = Top + 1
      OBVIOUS
    <3> QED BY <1>1, <1>2, <3>1
  <2> HIDE DEF strict
  <2> QED BY <2>1, ServedFirst
<1> QED BY <1>3, <1>4

\* Raising a threshold never cheapens (main.go:1659-1690, baseline.go:34-83): for any records,
\* costs and number of tiers.
THEOREM StricterCostsMore == Spec => []RaisingAThresholdNeverCheapens
<1>1. ASSUME Typed, NEW t \in Grid(tiers - 1), NEW u \in Grid(tiers - 1),
             \A k \in DOMAIN t : t[k] <= u[k]
      PROVE  /\ Cost(recs, Collected, t) <= Cost(recs, Collected, u)
             /\ \A i \in Tiered(recs, Collected) : CascadeSpend(recs[i], t) <= CascadeSpend(recs[i], u)
             /\ \A samples \in {1, 3} :
                  Verdict(recs, u, 1, samples) = "not worth running"
                    => Verdict(recs, t, 1, samples) = "not worth running"
  <2> DEFINE a == tiers - 1
  <2>1. a \in Nat \ {0}
    <3>1. Grid(a) # {} /\ tiers \in Nat
      BY <1>1, RecordsAssumption DEF Typed
    <3>2. ~(a <= 0)
      BY <3>1 DEF Grid
    <3> QED BY <3>1, <3>2
  <2>2. t \in [1..a -> Nat] /\ u \in [1..a -> Nat] /\ a \in Nat /\ \A k \in 1..a : t[k] <= u[k]
    <3>1. Grid(a) \subseteq [1..a -> Nat]
      BY <2>1, GridIsFinite
    <3> HIDE DEF a
    <3>2. t \in Grid(a) /\ u \in Grid(a)
      BY <1>1 DEF a
    <3> QED BY <1>1, <2>1, <3>1, <3>2
  <2> HIDE DEF a
  <2>3. \A i \in Collected :
          /\ ServedAt(recs[i], t) <= ServedAt(recs[i], u)
          /\ CascadeSpend(recs[i], t) \in Nat /\ CascadeSpend(recs[i], u) \in Nat
          /\ CascadeSpend(recs[i], t) <= CascadeSpend(recs[i], u)
          /\ Replay(recs[i], t).cost <= Replay(recs[i], u).cost
    BY <1>1, <2>2, CollectedTyped, StricterServesLater
  <2>4. Cost(recs, Collected, t) <= Cost(recs, Collected, u)
    <3> DEFINE f == [i \in Collected |-> Replay(recs[i], u).cost]
               g == [i \in Collected |-> Replay(recs[i], t).cost]
    <3>1. \A i \in Collected : Replay(recs[i], u).cost \in Nat /\ Replay(recs[i], t).cost \in Nat
      BY <1>1, CollectedTyped, ReplayCost
    <3>2. DOMAIN f = Collected /\ DOMAIN g = Collected /\ IsFiniteSet(Collected)
      BY <1>1, CollectedTyped
    <3>3. \A i \in Collected : f[i] \in Nat /\ g[i] \in Nat /\ g[i] <= f[i]
      BY <2>3, <3>1
    <3> HIDE DEF f, g
    <3>4. Total(g) <= Total(f)
      BY <3>2, <3>3, SumsGrow
    <3> QED BY <3>4 DEF f, g, Cost
  <2>5. \A i \in Tiered(recs, Collected) : i \in Collected
    BY DEF Tiered
  <2>6. ASSUME NEW samples \in {1, 3}, Verdict(recs, u, 1, samples) = "not worth running"
        PROVE  Verdict(recs, t, 1, samples) = "not worth running"
    <3> DEFINE S == Tiered(recs, Used(recs))
               few(v) == {i \in S : Fanout(recs[i], v, 1, samples) < MinVote}
    <3>1. S \subseteq Collected /\ IsFiniteSet(S) /\ Cardinality(S) \in Nat
      <4>1. S \in SUBSET Collected
        BY DEF Tiered, Used, Collected
      <4> QED BY <1>1, <4>1, CollectedTyped, FS_Subset, FS_CardinalityType
    <3>2. ASSUME NEW i \in S
          PROVE  /\ Fanout(recs[i], t, 1, samples) \in Nat /\ Fanout(recs[i], u, 1, samples) \in Nat
                 /\ Fanout(recs[i], t, 1, samples) <= Fanout(recs[i], u, 1, samples)
      <4> DEFINE c == recs[i].tiers[1].cost
      <4>1. c \in Nat
        <5>1. i \in Collected /\ recs[i].tiers # <<>>
          BY <3>1, <3>2 DEF Tiered
        <5>2. recs[i] \in Records /\ 1 \in DOMAIN recs[i].tiers
          <6>1. recs[i] \in Records /\ Len(recs[i].tiers) \in Nat \ {0}
            BY <1>1, <5>1, CollectedTyped
          <6> QED BY <6>1, RecordTyped
        <5> QED BY <5>2, RecordTyped
      <4>2. /\ CascadeSpend(recs[i], t) \in Nat /\ CascadeSpend(recs[i], u) \in Nat
            /\ CascadeSpend(recs[i], t) <= CascadeSpend(recs[i], u) /\ samples \in Nat
        BY <2>3, <3>1, <3>2
      <4>3. CASE c = 0
        <5>1. Fanout(recs[i], t, 1, samples) = 0 /\ Fanout(recs[i], u, 1, samples) = 0
          BY <4>3 DEF Fanout
        <5> QED BY <5>1
      <4>4. CASE c # 0
        <5>1. /\ Fanout(recs[i], t, 1, samples) = (CascadeSpend(recs[i], t) * samples) \div c
              /\ Fanout(recs[i], u, 1, samples) = (CascadeSpend(recs[i], u) * samples) \div c
          BY <4>4 DEF Fanout
        <5> HIDE DEF c
        <5> QED BY <4>1, <4>2, <4>4, <5>1, DivGrows
      <4> QED BY <4>3, <4>4
    <3>3. few(u) \subseteq few(t)
      <4>1. \A x, y, z \in Nat : x <= y /\ y < z => x < z
        OBVIOUS
      <4>2. MinVote \in Nat
        BY OfflineAssumption
      <4> HIDE DEF S
      <4> QED BY <3>2, <4>1, <4>2
    <3>4. /\ Cardinality(few(u)) \in Nat /\ Cardinality(few(t)) \in Nat
          /\ Cardinality(few(u)) <= Cardinality(few(t))
      <4>1. few(u) \in SUBSET few(t) /\ few(t) \in SUBSET S /\ few(u) \in SUBSET S
        BY <3>3
      <4> HIDE DEF few, S
      <4>2. IsFiniteSet(few(t)) /\ IsFiniteSet(few(u))
        BY <3>1, <4>1, FS_Subset
      <4> QED BY <4>1, <4>2, FS_Subset, FS_CardinalityType
    <3>5. 2 * Cardinality(few(u)) >= Cardinality(S)
      BY <2>6 DEF Verdict
    <3>6. 2 * Cardinality(few(t)) >= Cardinality(S)
      <4> HIDE DEF few, S
      <4> QED BY <3>1, <3>4, <3>5
    <3> QED BY <3>6, Zenon DEF Verdict
  <2> QED BY <2>3, <2>4, <2>5, <2>6
<1>2. ASSUME Typed
      PROVE  LET lax == Baselines(recs, [k \in 1..(tiers - 1) |-> 0])
                 strict == Baselines(recs, [k \in 1..(tiers - 1) |-> Top + 1])
             IN lax.cascade = lax.cheapest /\ strict.cascade = strict.frontier
  <2> DEFINE S == Tiered(recs, DOMAIN recs)
             lax == [k \in 1..(tiers - 1) |-> 0]
             strict == [k \in 1..(tiers - 1) |-> Top + 1]
  <2>1. ASSUME NEW i \in S
        PROVE  ServedAt(recs[i], lax) = 1 /\ ServedAt(recs[i], strict) = Len(recs[i].tiers)
    <3>1. i \in Collected /\ recs[i].tiers # <<>>
      BY <2>1 DEF Tiered, Collected
    <3>2. recs[i] \in Records /\ Len(recs[i].tiers) = tiers /\ tiers \in Nat \ {0}
      BY <1>2, <3>1, CollectedTyped
    <3> QED BY <3>2, EndsOfTheScale
  <2> HIDE DEF lax, strict
  <2>2. /\ {i \in S : ~Truth(recs[i].tiers[ServedAt(recs[i], lax)])}
             = {i \in S : ~Truth(recs[i].tiers[1])}
        /\ {i \in S : ~Truth(recs[i].tiers[ServedAt(recs[i], strict)])}
             = {i \in S : ~Truth(recs[i].tiers[Len(recs[i].tiers)])}
    <3> HIDE DEF S
    <3> QED BY <2>1
  <2>3. /\ Baselines(recs, lax).cascade
             = Cardinality({i \in S : ~Truth(recs[i].tiers[ServedAt(recs[i], lax)])})
        /\ Baselines(recs, lax).cheapest = Cardinality({i \in S : ~Truth(recs[i].tiers[1])})
        /\ Baselines(recs, strict).cascade
             = Cardinality({i \in S : ~Truth(recs[i].tiers[ServedAt(recs[i], strict)])})
        /\ Baselines(recs, strict).frontier
             = Cardinality({i \in S : ~Truth(recs[i].tiers[Len(recs[i].tiers)])})
    BY DEF Baselines
  <2> QED BY <2>2, <2>3, Zenon DEF lax, strict
<1>3. Typed => RaisingAThresholdNeverCheapens
  BY <1>1, <1>2, Zenon DEF RaisingAThresholdNeverCheapens
<1> QED BY <1>3, TypedHolds, PTL

-----------------------------------------------------------------------------
(* Powers and factorials, which are defined by recursion over the naturals. *)

\* Induction up to a number, for a set.
LEMMA UpTo ==
  ASSUME NEW n \in Nat, NEW P, 0 \in P, \A k \in 1..n : k - 1 \in P => k \in P
  PROVE  \A k \in 0..n : k \in P
<1> SUFFICES ASSUME NEW z \in 0..n, z \notin P
             PROVE  FALSE
  OBVIOUS
<1> DEFINE Bad == {k \in 0..n : k \notin P}
<1>1. Bad \in SUBSET Nat /\ Bad # {}
  OBVIOUS
<1>2. PICK k \in Bad : \A l \in Bad : k <= l
  <2> HIDE DEF Bad
  <2> QED BY <1>1, Least
<1>3. k \in 1..n /\ k - 1 \in 0..n /\ ~(k <= k - 1)
  BY <1>2
<1>4. k - 1 \in P
  BY <1>2, <1>3
<1> QED BY <1>2, <1>3, <1>4

\* The product of the first n factors; c[n] is the one numbered n.
ProductBody(c, g, n) == IF n = 0 THEN 1 ELSE c[n] * g[n - 1]

\* A table that holds the products up to m.
Products(c, g, m) == g \in [Nat -> Nat] /\ \A n \in 0..m : g[n] = ProductBody(c, g, n)

\* There are such tables, for any m, and they agree on what they hold.
LEMMA ProductsExist ==
  ASSUME NEW c \in [Nat -> Nat], NEW m \in Nat
  PROVE  \E g : Products(c, g, m)
<1> DEFINE P == {k \in Nat : \E g : Products(c, g, k)}
<1>1. 0 \in P
  <2> DEFINE g == [k \in Nat |-> 1]
  <2>1. Products(c, g, 0)
    BY DEF Products, ProductBody
  <2> HIDE DEF g
  <2> QED BY <2>1
<1>2. ASSUME NEW k \in 1..m, k - 1 \in P
      PROVE  k \in P
  <2>1. PICK g : Products(c, g, k - 1)
    BY <1>2
  <2> DEFINE h == [n \in Nat |-> IF n = k THEN c[k] * g[k - 1] ELSE g[n]]
  <2>2. g \in [Nat -> Nat] /\ \A n \in 0..(k - 1) : g[n] = IF n = 0 THEN 1 ELSE c[n] * g[n - 1]
    BY <2>1 DEF Products, ProductBody
  <2>3. h \in [Nat -> Nat]
    <3>1. k \in Nat /\ k - 1 \in Nat
      OBVIOUS
    <3>2. c[k] \in Nat /\ g[k - 1] \in Nat
      BY <2>2, <3>1
    <3>3. c[k] * g[k - 1] \in Nat
      BY <3>2
    <3> QED BY <2>2, <3>3
  <2>4. ASSUME NEW n \in 0..k
        PROVE  h[n] = IF n = 0 THEN 1 ELSE c[n] * h[n - 1]
    <3>1. CASE n = k
      <4>1. h[k] = c[k] * g[k - 1] /\ h[k - 1] = g[k - 1]
        OBVIOUS
      <4> HIDE DEF h
      <4> QED BY <3>1, <4>1
    <3>2. CASE n # k
      <4>1. n \in 0..(k - 1)
        BY <3>2
      <4>2. h[n] = g[n] /\ (n # 0 => h[n - 1] = g[n - 1])
        BY <4>1
      <4> HIDE DEF h
      <4> QED BY <2>2, <4>1, <4>2
    <3> QED BY <3>1, <3>2
  <2> HIDE DEF h
  <2>5. Products(c, h, k)
    BY <2>3, <2>4 DEF Products, ProductBody
  <2> QED BY <2>5
<1>3. m \in P
  <2> HIDE DEF P
  <2>1. \A k \in 0..m : k \in P
    BY <1>1, <1>2, UpTo
  <2> QED BY <2>1
<1> QED BY <1>3

LEMMA ProductsAgree ==
  ASSUME NEW c \in [Nat -> Nat], NEW m \in Nat, NEW l \in Nat,
         NEW g, NEW h, Products(c, g, m), Products(c, h, l), m <= l
  PROVE  \A n \in 0..m : g[n] = h[n]
<1> DEFINE P == {n \in Nat : g[n] = h[n]}
<1>1. /\ \A n \in 0..m : g[n] = IF n = 0 THEN 1 ELSE c[n] * g[n - 1]
      /\ \A n \in 0..m : h[n] = IF n = 0 THEN 1 ELSE c[n] * h[n - 1]
  BY DEF Products, ProductBody
<1>2. 0 \in P
  BY <1>1
<1>3. ASSUME NEW k \in 1..m, k - 1 \in P
      PROVE  k \in P
  <2>1. k \in 0..m /\ k # 0 /\ k \in Nat
    OBVIOUS
  <2>2. g[k] = c[k] * g[k - 1] /\ h[k] = c[k] * h[k - 1] /\ g[k - 1] = h[k - 1]
    BY <1>1, <1>3, <2>1, Zenon
  <2> QED BY <2>1, <2>2, Zenon
<1> HIDE DEF P
<1>4. \A n \in 0..m : n \in P
  BY <1>2, <1>3, UpTo
<1> QED BY <1>4 DEF P

\* So one table holds them all.
LEMMA ProductsDefined ==
  ASSUME NEW c \in [Nat -> Nat]
  PROVE  \E f : f = [n \in Nat |-> ProductBody(c, f, n)] /\ f \in [Nat -> Nat]
<1> DEFINE G(n) == CHOOSE g : Products(c, g, n)
           f == [n \in Nat |-> G(n)[n]]
<1>1. \A n \in Nat : Products(c, G(n), n)
  <2> TAKE n \in Nat
  <2>1. \E g : Products(c, g, n)
    BY ProductsExist
  <2> QED BY <2>1, Zenon
<1> HIDE DEF G
<1>2. ASSUME NEW n \in Nat
      PROVE  f[n] \in Nat /\ f[n] = ProductBody(c, f, n)
  <2>1. f[n] = G(n)[n] /\ n \in 0..n
    OBVIOUS
  <2>2. G(n)[n] \in Nat /\ G(n)[n] = ProductBody(c, G(n), n)
    BY <1>1, <2>1 DEF Products
  <2>3. CASE n = 0
    <3>1. \A g : ProductBody(c, g, 0) = 1
      BY Zenon DEF ProductBody
    <3> QED BY <2>1, <2>2, <2>3, <3>1, Zenon
  <2>4. CASE n # 0
    <3>1. n - 1 \in Nat /\ n - 1 <= n /\ n - 1 \in 0..(n - 1)
      BY <2>4
    <3>2. Products(c, G(n - 1), n - 1) /\ Products(c, G(n), n)
      BY <1>1, <3>1
    <3>3. G(n - 1)[n - 1] = G(n)[n - 1]
      BY <3>1, <3>2, ProductsAgree
    <3>4. f[n - 1] = G(n - 1)[n - 1]
      BY <3>1
    <3>5. /\ ProductBody(c, G(n), n) = c[n] * G(n)[n - 1]
          /\ ProductBody(c, f, n) = c[n] * f[n - 1]
      BY <2>4, Zenon DEF ProductBody
    <3> HIDE DEF f
    <3> QED BY <2>1, <2>2, <3>3, <3>4, <3>5, Zenon
  <2> QED BY <2>3, <2>4
<1>3. f = [n \in Nat |-> f[n]]
  OBVIOUS
<1> HIDE DEF f
<1>4. f = [n \in Nat |-> ProductBody(c, f, n)] /\ f \in [Nat -> Nat]
  BY <1>2, <1>3
<1> QED BY <1>4, Zenon

Powers(b) == CHOOSE p : p = [k \in Nat |-> IF k = 0 THEN 1 ELSE b * p[k - 1]]

LEMMA PowersExist ==
  ASSUME NEW b \in Nat
  PROVE  /\ Pow(b, 0) = 1
         /\ \A k \in Nat : Pow(b, k) \in Nat
         /\ \A k \in Nat : Pow(b, k + 1) = b * Pow(b, k)
<1> DEFINE c == [k \in Nat |-> b]
<1>1. PICK f : f = [k \in Nat |-> ProductBody(c, f, k)] /\ f \in [Nat -> Nat]
  BY ProductsDefined
<1>2. \A k \in Nat : ProductBody(c, f, k) = IF k = 0 THEN 1 ELSE b * f[k - 1]
  BY DEF ProductBody
<1>3. f = [k \in Nat |-> IF k = 0 THEN 1 ELSE b * f[k - 1]]
  BY <1>1, <1>2, Zenon
<1> DEFINE p == Powers(b)
<1>4. p = [k \in Nat |-> IF k = 0 THEN 1 ELSE b * p[k - 1]]
  BY <1>3, Zenon DEF Powers
<1>5. \A e : Pow(b, e) = p[e]
  BY Zenon DEF Pow, Powers
<1> HIDE DEF p
<1>6. \A k \in Nat : p[k] = IF k = 0 THEN 1 ELSE b * p[k - 1]
  BY <1>4
<1>7. p[0] = 1 /\ \A k \in Nat : p[k + 1] = b * p[k]
  <2>1. p[0] = 1
    BY <1>6
  <2>2. \A k \in Nat : k + 1 \in Nat /\ k + 1 # 0 /\ (k + 1) - 1 = k
    OBVIOUS
  <2> QED BY <1>6, <2>1, <2>2, Zenon
<1>8. ASSUME NEW m \in Nat
      PROVE  p[m] \in Nat
  <2> DEFINE P == {k \in Nat : p[k] \in Nat}
  <2>1. 0 \in P
    BY <1>7
  <2>2. ASSUME NEW k \in 1..m, k - 1 \in P
        PROVE  k \in P
    <3>1. k \in Nat /\ k # 0 /\ p[k - 1] \in Nat
      BY <2>2
    <3>2. p[k] = b * p[k - 1]
      BY <1>6, <3>1
    <3> QED BY <3>1, <3>2
  <2> HIDE DEF P
  <2>3. \A k \in 0..m : k \in P
    BY <2>1, <2>2, UpTo
  <2> QED BY <2>3 DEF P
<1> QED BY <1>5, <1>7, <1>8, Zenon

LEMMA FactorialsExist ==
  /\ \A n \in Nat : factorial[n] \in Nat \ {0}
  /\ factorial[0] = 1
<1> DEFINE c == [k \in Nat |-> k]
<1>1. PICK f : f = [k \in Nat |-> ProductBody(c, f, k)] /\ f \in [Nat -> Nat]
  <2>1. c \in [Nat -> Nat]
    OBVIOUS
  <2> HIDE DEF c
  <2> QED BY <2>1, ProductsDefined
<1>2. \A k \in Nat : ProductBody(c, f, k) = IF k = 0 THEN 1 ELSE k * f[k - 1]
  BY DEF ProductBody
<1>3. f = [k \in Nat |-> IF k = 0 THEN 1 ELSE k * f[k - 1]]
  BY <1>1, <1>2, Zenon
<1>4. factorial = [k \in Nat |-> IF k = 0 THEN 1 ELSE k * factorial[k - 1]]
  BY <1>3, Zenon DEF factorial
<1>5. \A k \in Nat : factorial[k] = IF k = 0 THEN 1 ELSE k * factorial[k - 1]
  BY <1>4
<1>6. factorial[0] = 1
  BY <1>5
<1>7. ASSUME NEW m \in Nat
      PROVE  factorial[m] \in Nat \ {0}
  <2> DEFINE P == {k \in Nat : factorial[k] \in Nat \ {0}}
  <2>1. 0 \in P
    BY <1>6
  <2>2. ASSUME NEW k \in 1..m, k - 1 \in P
        PROVE  k \in P
    <3>1. k \in Nat /\ k # 0 /\ factorial[k - 1] \in Nat \ {0}
      BY <2>2
    <3>2. factorial[k] = k * factorial[k - 1]
      BY <1>5, <3>1
    <3>3. \A x, y \in Nat \ {0} : x * y \in Nat \ {0}
      OBVIOUS
    <3> QED BY <3>1, <3>2, <3>3
  <2> HIDE DEF P
  <2>3. \A k \in 0..m : k \in P
    BY <2>1, <2>2, UpTo
  <2> QED BY <2>3 DEF P
<1> QED BY <1>6, <1>7

-----------------------------------------------------------------------------
(* The floor on the sample size.                                           *)

\* The parameters of the test as numbers: alpha is AlphaNum / AlphaDen, Quiet / AlphaDen is
\* the chance of no error under it.
Quiet == AlphaDen - AlphaNum

LEMMA TestTyped ==
  /\ AlphaNum \in Nat \ {0} /\ AlphaDen \in Nat \ {0} /\ Quiet \in Nat \ {0}
  /\ Quiet < AlphaDen /\ AlphaNum + Quiet = AlphaDen
  /\ DeltaNum \in Nat \ {0} /\ DeltaDen \in Nat \ {0} /\ DeltaNum < DeltaDen
BY CalibrateAssumption DEF Quiet

\* Products grow with their factors, and a common factor may be cancelled.
LEMMA Multiplied ==
  ASSUME NEW x \in Nat, NEW y \in Nat, NEW u \in Nat, NEW v \in Nat, x <= y, u <= v
  PROVE  x * u <= y * v
<1>1. PICK s \in Nat : y = x + s
  <2>1. y - x \in Nat /\ y = x + (y - x)
    OBVIOUS
  <2> QED BY <2>1
<1>2. PICK t \in Nat : v = u + t
  <2>1. v - u \in Nat /\ v = u + (v - u)
    OBVIOUS
  <2> QED BY <2>1
<1>3. (x + s) * (u + t) = x * u + (x * t + s * u + s * t)
  OBVIOUS
<1>4. x * t + s * u + s * t \in Nat /\ x * u \in Nat
  OBVIOUS
<1> QED BY <1>1, <1>2, <1>3, <1>4

LEMMA Cancelled ==
  ASSUME NEW x \in Nat, NEW y \in Nat, NEW z \in Nat \ {0}, x * z <= y * z
  PROVE  x <= y
<1> SUFFICES ASSUME y + 1 <= x
             PROVE  FALSE
  OBVIOUS
<1>1. (y + 1) * z <= x * z
  BY Multiplied
<1>2. (y + 1) * z = y * z + z
  OBVIOUS
<1>3. y * z \in Nat /\ x * z \in Nat
  OBVIOUS
<1> QED BY <1>1, <1>2, <1>3

\* A power of a positive number is positive.
LEMMA PowerPositive ==
  ASSUME NEW b \in Nat \ {0}, NEW m \in Nat
  PROVE  Pow(b, m) \in Nat \ {0}
<1> DEFINE P == {k \in Nat : Pow(b, k) \in Nat \ {0}}
<1>1. 0 \in P
  BY PowersExist
<1>2. ASSUME NEW k \in 1..m, k - 1 \in P
      PROVE  k \in P
  <2>1. k \in Nat /\ k - 1 \in Nat /\ (k - 1) + 1 = k /\ Pow(b, k - 1) \in Nat \ {0}
    BY <1>2
  <2>2. Pow(b, k) = b * Pow(b, k - 1)
    BY <2>1, PowersExist
  <2>3. \A x, y \in Nat \ {0} : x * y \in Nat \ {0}
    OBVIOUS
  <2> QED BY <2>1, <2>2, <2>3
<1> HIDE DEF P
<1>3. \A k \in 0..m : k \in P
  BY <1>1, <1>2, UpTo
<1> QED BY <1>3 DEF P

LEMMA PowerGrows ==
  ASSUME NEW b \in Nat, NEW c \in Nat, b <= c, NEW m \in Nat
  PROVE  Pow(b, m) <= Pow(c, m)
<1> DEFINE P == {k \in Nat : Pow(b, k) <= Pow(c, k)}
<1>1. 0 \in P
  <2>1. Pow(b, 0) = 1 /\ Pow(c, 0) = 1
    BY PowersExist
  <2> QED BY <2>1
<1>2. ASSUME NEW k \in 1..m, k - 1 \in P
      PROVE  k \in P
  <2>1. k \in Nat /\ k - 1 \in Nat /\ (k - 1) + 1 = k /\ Pow(b, k - 1) <= Pow(c, k - 1)
    BY <1>2
  <2>2. /\ Pow(b, k) = b * Pow(b, k - 1) /\ Pow(c, k) = c * Pow(c, k - 1)
        /\ Pow(b, k - 1) \in Nat /\ Pow(c, k - 1) \in Nat
    BY <2>1, PowersExist
  <2> QED BY <2>1, <2>2, Multiplied
<1> HIDE DEF P
<1>3. \A k \in 0..m : k \in P
  BY <1>1, <1>2, UpTo
<1> QED BY <1>3 DEF P

LEMMA PowerSplits ==
  ASSUME NEW b \in Nat, NEW l \in Nat, NEW m \in Nat
  PROVE  Pow(b, l + m) = Pow(b, l) * Pow(b, m)
<1> DEFINE P == {k \in Nat : Pow(b, l + k) = Pow(b, l) * Pow(b, k)}
<1>1. 0 \in P
  <2>1. Pow(b, 0) = 1 /\ Pow(b, l) \in Nat /\ l + 0 = l
    BY PowersExist
  <2> QED BY <2>1
<1>2. ASSUME NEW k \in 1..m, k - 1 \in P
      PROVE  k \in P
  <2>1. /\ k \in Nat /\ k - 1 \in Nat /\ (k - 1) + 1 = k
        /\ l + (k - 1) \in Nat /\ (l + (k - 1)) + 1 = l + k
        /\ Pow(b, l + (k - 1)) = Pow(b, l) * Pow(b, k - 1)
    BY <1>2
  <2>2. /\ Pow(b, k) = b * Pow(b, k - 1) /\ Pow(b, l + k) = b * Pow(b, l + (k - 1))
        /\ Pow(b, k - 1) \in Nat /\ Pow(b, l) \in Nat
    BY <2>1, PowersExist
  <2>3. \A x, y, z \in Nat : x * (y * z) = y * (x * z)
    OBVIOUS
  <2>4. Pow(b, l + k) = Pow(b, l) * Pow(b, k)
    BY <2>1, <2>2, <2>3
  <2> QED BY <2>1, <2>4
<1> HIDE DEF P
<1>3. \A k \in 0..m : k \in P
  BY <1>1, <1>2, UpTo
<1> QED BY <1>3 DEF P

LEMMA PowerOfProduct ==
  ASSUME NEW b \in Nat, NEW c \in Nat, NEW m \in Nat
  PROVE  Pow(b * c, m) = Pow(b, m) * Pow(c, m)
<1> DEFINE P == {k \in Nat : Pow(b * c, k) = Pow(b, k) * Pow(c, k)}
<1>0. b * c \in Nat
  OBVIOUS
<1>1. 0 \in P
  <2>1. Pow(b, 0) = 1 /\ Pow(c, 0) = 1 /\ Pow(b * c, 0) = 1
    BY <1>0, PowersExist
  <2> QED BY <2>1
<1>2. ASSUME NEW k \in 1..m, k - 1 \in P
      PROVE  k \in P
  <2>1. /\ k \in Nat /\ k - 1 \in Nat /\ (k - 1) + 1 = k
        /\ Pow(b * c, k - 1) = Pow(b, k - 1) * Pow(c, k - 1)
    BY <1>2
  <2>2. /\ Pow(b, k) = b * Pow(b, k - 1) /\ Pow(c, k) = c * Pow(c, k - 1)
        /\ Pow(b * c, k) = (b * c) * Pow(b * c, k - 1)
        /\ Pow(b, k - 1) \in Nat /\ Pow(c, k - 1) \in Nat
    BY <1>0, <2>1, PowersExist
  <2>3. \A x, y \in Nat : (b * c) * (x * y) = (b * x) * (c * y)
    OBVIOUS
  <2>4. Pow(b * c, k) = Pow(b, k) * Pow(c, k)
    BY <2>1, <2>2, <2>3
  <2> QED BY <2>1, <2>4
<1> HIDE DEF P
<1>3. \A k \in 0..m : k \in P
  BY <1>1, <1>2, UpTo
<1> QED BY <1>3 DEF P

\* A sample of n is large enough when a flawless one is unlikely enough under alpha.
Enough(n) == Pow(Quiet, n) * DeltaDen <= DeltaNum * Pow(AlphaDen, n)

\* One more problem is enough, too.
LEMMA EnoughGrows ==
  ASSUME NEW n \in Nat, Enough(n)
  PROVE  Enough(n + 1)
<1> DEFINE x == Pow(Quiet, n)
           y == Pow(AlphaDen, n)
<1>1. /\ x \in Nat /\ y \in Nat
      /\ Pow(Quiet, n + 1) = Quiet * x /\ Pow(AlphaDen, n + 1) = AlphaDen * y
  BY TestTyped, PowersExist
<1>2. x * DeltaDen <= DeltaNum * y
  BY DEF Enough
<1> HIDE DEF x, y
<1>3. x * DeltaDen \in Nat /\ DeltaNum * y \in Nat /\ Quiet <= AlphaDen
  BY <1>1, TestTyped
<1>4. Quiet * (x * DeltaDen) <= AlphaDen * (DeltaNum * y)
  BY <1>2, <1>3, Multiplied, TestTyped
<1>5. (Quiet * x) * DeltaDen = Quiet * (x * DeltaDen) /\ DeltaNum * (AlphaDen * y) = AlphaDen * (DeltaNum * y)
  BY <1>1, TestTyped
<1> QED BY <1>1, <1>4, <1>5 DEF Enough

LEMMA EnoughFrom ==
  ASSUME NEW n \in Nat, NEW m \in Nat, n <= m, Enough(n)
  PROVE  Enough(m)
<1> DEFINE P == {k \in Nat : Enough(n + k)}
<1>1. 0 \in P
  <2>1. n + 0 = n
    OBVIOUS
  <2> QED BY <2>1
<1>2. ASSUME NEW k \in 1..(m - n), k - 1 \in P
      PROVE  k \in P
  <2>1. k \in Nat /\ n + (k - 1) \in Nat /\ (n + (k - 1)) + 1 = n + k /\ Enough(n + (k - 1))
    BY <1>2
  <2>2. Enough(n + k)
    BY <2>1, EnoughGrows
  <2> QED BY <2>1, <2>2
<1> HIDE DEF P
<1>3. m - n \in Nat /\ m - n \in 0..(m - n) /\ n + (m - n) = m
  OBVIOUS
<1>4. \A k \in 0..(m - n) : k \in P
  BY <1>1, <1>2, <1>3, UpTo
<1>5. m - n \in P
  BY <1>3, <1>4
<1> QED BY <1>3, <1>5 DEF P

\* The floor is the first size that is enough, if the cap is as large as it.
LEMMA FloorIsFirst ==
  /\ MinCalibrationSize \in Nat
  /\ \A n \in Nat : Enough(n) => n >= MinCalibrationSize
  /\ MinCalibrationSize <= SizeCap => Enough(MinCalibrationSize)
<1> DEFINE Short == {n \in 0..SizeCap : ~Enough(n)}
<1>1. \A n \in Nat : Pow(Quiet, n) * DeltaDen > DeltaNum * Pow(AlphaDen, n) <=> ~Enough(n)
  <2> TAKE n \in Nat
  <2>1. Pow(Quiet, n) \in Nat /\ Pow(AlphaDen, n) \in Nat
    BY TestTyped, PowersExist
  <2>2. Pow(Quiet, n) * DeltaDen \in Nat /\ DeltaNum * Pow(AlphaDen, n) \in Nat
    BY <2>1, TestTyped
  <2> QED BY <2>2 DEF Enough
<1>2. SizeCap \in Nat
  BY CalibrateAssumption
<1>3. MinCalibrationSize = Cardinality(Short)
  <2>1. \A n \in 0..SizeCap : n \in Nat
    BY <1>2
  <2>2. Short = {n \in 0..SizeCap :
                   Pow(AlphaDen - AlphaNum, n) * DeltaDen > DeltaNum * Pow(AlphaDen, n)}
    BY <1>1, <2>1 DEF Quiet
  <2> QED BY <2>2, Zenon DEF MinCalibrationSize
<1> DEFINE Good == {n \in Nat : Enough(n)}
<1>4. CASE \A n \in 0..SizeCap : ~Enough(n)
  <2>1. Short = 0..SizeCap
    BY <1>4
  <2>2. Cardinality(0..SizeCap) = SizeCap + 1
    <3>1. 0 \in Int /\ SizeCap \in Int /\ ~(0 > SizeCap) /\ SizeCap - 0 + 1 = SizeCap + 1
      BY <1>2
    <3> QED BY <3>1, FS_Interval
  <2>3. MinCalibrationSize = SizeCap + 1
    BY <1>3, <2>1, <2>2, Zenon
  <2> QED BY <1>2, <1>4, <2>3
<1>5. CASE \E n \in 0..SizeCap : Enough(n)
  <2>1. PICK f \in Good : \A n \in Good : f <= n
    <3>1. Good \in SUBSET Nat /\ Good # {}
      BY <1>2, <1>5
    <3> HIDE DEF Good
    <3> QED BY <3>1, Least
  <2>2. f \in Nat /\ Enough(f) /\ f <= SizeCap /\ \A n \in Nat : Enough(n) => f <= n
    BY <1>2, <1>5, <2>1
  <2>3. \A n \in Nat : f <= n => Enough(n)
    BY <2>2, EnoughFrom
  <2>4. Short = 0..(f - 1)
    BY <1>2, <2>2, <2>3
  <2>5. Cardinality(0..(f - 1)) = f
    <3>1. 0 \in Int /\ f - 1 \in Int /\ (0 > f - 1 => f = 0) /\ (f - 1) - 0 + 1 = f
      BY <2>2
    <3> QED BY <3>1, FS_Interval
  <2>6. MinCalibrationSize = f
    BY <1>3, <2>4, <2>5, Zenon
  <2> QED BY <2>2, <2>6
<1> QED BY <1>4, <1>5

\* Fewer errors than alpha allows, and Hoeffding's bound: then a flawless sample of that size
\* would be enough. With k errors of n the bound is weakest at k = 0, since k Quiet is below
\* AlphaNum n and n - k is no more than n.
LEMMA HoeffdingNeedsEnough ==
  ASSUME NEW n \in Nat, NEW k \in Nat, k * AlphaDen < AlphaNum * n,
         Hoeffding(k, n, DeltaNum, DeltaDen)
  PROVE  Enough(n)
<1> DEFINE l == n - k
           A == Pow(AlphaNum, k)
           B == Pow(Quiet, l)
           C == Pow(Quiet, k)
           E == Pow(k, k)
           F == Pow(l, l)
           G == Pow(AlphaDen, n)
           H == Pow(n, k)
           I == Pow(n, l)
<1>1. k < n
  <2> SUFFICES ASSUME n <= k
               PROVE  FALSE
    OBVIOUS
  <2>1. AlphaNum <= AlphaDen /\ AlphaNum \in Nat /\ AlphaDen \in Nat
    BY TestTyped
  <2>2. AlphaNum * n <= AlphaDen * k
    BY <2>1, Multiplied
  <2>3. AlphaDen * k = k * AlphaDen /\ AlphaDen * k \in Nat /\ AlphaNum * n \in Nat
    BY <2>1
  <2> QED BY <2>2, <2>3
<1>2. l \in Nat \ {0} /\ l <= n /\ k + l = n /\ n \in Nat \ {0}
  BY <1>1
<1>3. /\ A \in Nat /\ B \in Nat \ {0} /\ C \in Nat /\ E \in Nat \ {0} /\ F \in Nat \ {0}
      /\ G \in Nat /\ H \in Nat /\ I \in Nat
  <2>1. E \in Nat \ {0}
    <3>1. CASE k = 0
      BY <3>1, PowersExist
    <3>2. CASE k # 0
      BY <3>2, PowerPositive
    <3> QED BY <3>1, <3>2
  <2>2. F \in Nat \ {0} /\ B \in Nat \ {0}
    BY <1>2, TestTyped, PowerPositive
  <2> QED BY <1>2, <2>1, <2>2, TestTyped, PowersExist
<1>4. Pow(n, n) = H * I /\ Pow(Quiet, n) = C * B
  <2>1. Pow(n, k + l) = H * I /\ Pow(Quiet, k + l) = C * B
    BY <1>2, TestTyped, PowerSplits
  <2> HIDE DEF H, I, C, B, l
  <2> QED BY <1>2, <2>1
<1>5. (H * I) * A * B * DeltaDen <= DeltaNum * G * E * F
  <2> HIDE DEF l
  <2>1. Pow(n, n) * A * B * DeltaDen <= DeltaNum * G * E * F
    BY DEF Hoeffding, Quiet, l
  <2> QED BY <1>4, <2>1
<1>6. E * C <= A * H
  <2>1. k * Quiet <= AlphaNum * n /\ k * Quiet \in Nat /\ AlphaNum * n \in Nat
    <3>1. k * Quiet <= k * AlphaDen
      <4>1. k <= k /\ Quiet <= AlphaDen
        BY TestTyped
      <4> QED BY <4>1, TestTyped, Multiplied
    <3>2. k * Quiet \in Nat /\ k * AlphaDen \in Nat /\ AlphaNum * n \in Nat
      BY TestTyped
    <3> QED BY <3>1, <3>2
  <2>2. Pow(k * Quiet, k) <= Pow(AlphaNum * n, k)
    BY <2>1, PowerGrows
  <2>3. Pow(k * Quiet, k) = E * C /\ Pow(AlphaNum * n, k) = A * H
    <3>1. AlphaNum \in Nat /\ Quiet \in Nat
      BY TestTyped
    <3>2. \A b, c \in Nat : Pow(b * c, k) = Pow(b, k) * Pow(c, k)
      BY PowerOfProduct
    <3> QED BY <3>1, <3>2, Zenon
  <2> HIDE DEF E, C, A, H
  <2> QED BY <2>2, <2>3
<1>7. F <= I
  BY <1>2, PowerGrows
<1> HIDE DEF l, A, B, C, E, F, G, H, I
<1>8. (E * C) * F <= (A * H) * I
  BY <1>3, <1>6, <1>7, Multiplied
<1>9. ((E * C) * F) * (B * DeltaDen) <= ((A * H) * I) * (B * DeltaDen)
  <2>1. B * DeltaDen \in Nat /\ B * DeltaDen <= B * DeltaDen
    BY <1>3, TestTyped
  <2>2. (E * C) * F \in Nat /\ (A * H) * I \in Nat
    BY <1>3
  <2> QED BY <1>8, <2>1, <2>2, Multiplied
<1>10. /\ ((E * C) * F) * (B * DeltaDen) = ((C * B) * DeltaDen) * (E * F)
       /\ ((A * H) * I) * (B * DeltaDen) = (H * I) * A * B * DeltaDen
       /\ DeltaNum * G * E * F = (DeltaNum * G) * (E * F)
  <2>1. \A a, b, c, d, e \in Nat : ((a * b) * c) * (d * e) = ((b * d) * e) * (a * c)
    OBVIOUS
  <2>2. \A a, b, c, d, e \in Nat : ((a * b) * c) * (d * e) = (b * c) * a * d * e
    OBVIOUS
  <2>3. \A a, b, c, d \in Nat : a * b * c * d = (a * b) * (c * d)
    OBVIOUS
  <2> QED BY <1>3, <2>1, <2>2, <2>3, TestTyped
<1>11. ((C * B) * DeltaDen) * (E * F) <= (DeltaNum * G) * (E * F)
  <2>1. \A x, y, z \in Nat : x <= y /\ y <= z => x <= z
    OBVIOUS
  <2>2. /\ ((C * B) * DeltaDen) * (E * F) \in Nat /\ (H * I) * A * B * DeltaDen \in Nat
        /\ (DeltaNum * G) * (E * F) \in Nat
    BY <1>3, TestTyped
  <2> QED BY <1>5, <1>9, <1>10, <2>1, <2>2
<1>12. (C * B) * DeltaDen <= DeltaNum * G
  <2>1. (C * B) * DeltaDen \in Nat /\ DeltaNum * G \in Nat
    BY <1>3, TestTyped
  <2>2. E * F \in Nat \ {0}
    <3>1. \A x, y \in Nat \ {0} : x * y \in Nat \ {0}
      OBVIOUS
    <3> QED BY <1>3, <3>1
  <2> QED BY <1>11, <2>1, <2>2, Cancelled
<1> QED BY <1>4, <1>12 DEF Enough, G

\* Choosing none of n can be done in one way, and choosing is never negative.
LEMMA ChooseTyped ==
  ASSUME NEW n \in Nat, NEW i \in 0..n
  PROVE  choose(n, i) \in Nat /\ choose(n, 0) = 1
<1>1. factorial[n] \in Nat \ {0} /\ factorial[i] \in Nat \ {0} /\ factorial[n - i] \in Nat \ {0}
      /\ factorial[0] = 1
  BY FactorialsExist
<1>2. factorial[i] * factorial[n - i] \in Nat \ {0}
  <2>1. \A x, y \in Nat \ {0} : x * y \in Nat \ {0}
    OBVIOUS
  <2> QED BY <1>1, <2>1
<1>3. choose(n, i) \in Nat
  <2>1. \A x \in Nat, y \in Nat \ {0} : x \div y \in Nat
    OBVIOUS
  <2> QED BY <1>1, <1>2, <2>1 DEF choose
<1>4. choose(n, 0) = 1
  <2>1. n - 0 = n
    OBVIOUS
  <2>2. \A x \in Nat \ {0} : x \div (1 * x) = 1
    OBVIOUS
  <2> QED BY <1>1, <2>1, <2>2 DEF choose
<1> QED BY <1>3, <1>4

\* The tail of the binomial holds the chance of no error.
LEMMA BentkusNeedsEnough ==
  ASSUME NEW n \in Nat, NEW k \in 0..n, Bentkus(k, n, DeltaNum, DeltaDen)
  PROVE  Enough(n)
<1> DEFINE f == [i \in 0..k |-> choose(n, i) * Pow(AlphaNum, i) * Pow(AlphaDen - AlphaNum, n - i)]
           g == [i \in {0} |-> Pow(Quiet, n)]
<1>1. \A i \in 0..k : f[i] \in Nat
  <2> SUFFICES ASSUME NEW i \in 0..k
               PROVE  f[i] \in Nat
    OBVIOUS
  <2>1. i \in 0..n /\ i \in Nat /\ n - i \in Nat
    OBVIOUS
  <2>2. choose(n, i) \in Nat /\ Pow(AlphaNum, i) \in Nat /\ Pow(AlphaDen - AlphaNum, n - i) \in Nat
    BY <2>1, ChooseTyped, TestTyped, PowersExist DEF Quiet
  <2> QED BY <2>2
<1>2. f[0] = Pow(Quiet, n) /\ Pow(Quiet, n) \in Nat
  <2>1. /\ choose(n, 0) = 1 /\ Pow(AlphaNum, 0) = 1 /\ Pow(Quiet, n) \in Nat
        /\ n - 0 = n /\ 0 \in 0..k
    <3>1. 0 \in 0..n /\ n - 0 = n /\ 0 \in 0..k
      OBVIOUS
    <3>2. choose(n, 0) = 1
      BY <3>1, ChooseTyped
    <3>3. Pow(AlphaNum, 0) = 1 /\ Pow(Quiet, n) \in Nat
      BY TestTyped, PowersExist
    <3> QED BY <3>1, <3>2, <3>3
  <2>2. f[0] = choose(n, 0) * Pow(AlphaNum, 0) * Pow(Quiet, n)
    BY <2>1 DEF Quiet
  <2> HIDE DEF f
  <2> QED BY <2>1, <2>2
<1>3. IsFiniteSet(0..k)
  <2>1. 0 \in Int /\ k \in Int
    OBVIOUS
  <2> QED BY <2>1, FS_Interval
<1>4. /\ DOMAIN f = 0..k /\ DOMAIN g = {0} /\ {0} \subseteq 0..k
      /\ \A i \in {0} : g[i] \in Nat /\ g[i] <= f[i] /\ g[i] = Pow(Quiet, n)
  <2>1. \A x \in Nat : x <= x
    OBVIOUS
  <2> HIDE DEF f
  <2>2. \A i \in {0} : g[i] = Pow(Quiet, n) /\ f[i] = Pow(Quiet, n)
    BY <1>2
  <2>3. DOMAIN f = 0..k
    BY DEF f
  <2> HIDE DEF g
  <2>4. DOMAIN g = {0} /\ {0} \subseteq 0..k
    BY DEF g
  <2> QED BY <1>2, <2>1, <2>2, <2>3, <2>4
<1> HIDE DEF f, g
<1>5. Total(g) \in Nat /\ Total(f) \in Nat /\ Total(g) <= Total(f)
  BY <1>1, <1>3, <1>4, SumsGrow
<1>6. Total(g) = Pow(Quiet, n)
  <2>1. IsFiniteSet(DOMAIN g) /\ \A i \in DOMAIN g : g[i] \in Nat
    BY <1>4, FS_Singleton
  <2>2. {0} \in SUBSET DOMAIN g /\ 0 \in {0} /\ {0} \ {0} = {} /\ DOMAIN g = {0}
    BY <1>4
  <2>3. Sums(g)[{}] = 0
    BY <2>1, SumsUnfold
  <2>4. Sums(g)[{0}] = g[0] + Sums(g)[{0} \ {0}]
    BY <2>1, <2>2, SumsPick
  <2>5. Total(g) = Sums(g)[{0}]
    BY <2>2, TotalIsSum
  <2>6. g[0] = Pow(Quiet, n) /\ g[0] \in Nat
    BY <1>4
  <2> QED BY <2>2, <2>3, <2>4, <2>5, <2>6
<1>7. BinomCDF(k, n) = Total(f)
  BY DEF BinomCDF, f
<1> DEFINE x == Pow(Quiet, n)
           t == Total(f)
           y == Pow(AlphaDen, n)
<1>8. x \in Nat /\ t \in Nat /\ y \in Nat /\ x <= t
  BY <1>2, <1>5, <1>6, TestTyped, PowersExist
<1>9. 2719 * DeltaDen * t <= 1000 * DeltaNum * y
  <2>1. 2719 * DeltaDen * BinomCDF(k, n) <= 1000 * DeltaNum * y
    BY DEF Bentkus
  <2> HIDE DEF y
  <2> QED BY <1>7, <2>1
<1> HIDE DEF x, t, y
<1>10. x * DeltaDen <= t * DeltaDen
  <2>1. DeltaDen <= DeltaDen /\ DeltaDen \in Nat
    BY TestTyped
  <2> QED BY <1>8, <2>1, Multiplied
<1>11. x * DeltaDen \in Nat /\ t * DeltaDen \in Nat /\ DeltaNum * y \in Nat
  BY <1>8, TestTyped
<1>12. 2719 * DeltaDen * t = 2719 * (t * DeltaDen) /\ 1000 * DeltaNum * y = 1000 * (DeltaNum * y)
  BY <1>8, TestTyped
<1>13. x * DeltaDen <= DeltaNum * y
  <2>1. \A p, q, r \in Nat : p <= q /\ 2719 * q <= 1000 * r => p <= r
    OBVIOUS
  <2>2. 2719 * (t * DeltaDen) <= 1000 * (DeltaNum * y)
    BY <1>9, <1>12
  <2> QED BY <1>10, <1>11, <2>1, <2>2
<1> QED BY <1>13 DEF Enough, x, y

\* What the test rejects of a sample tells that it is large enough, and a large enough sample
\* without an error is rejected.
LEMMA RejectsNeedEnough ==
  ASSUME NEW n \in Nat, NEW k \in Nat, Rejects(k, n, DeltaNum, DeltaDen)
  PROVE  Enough(n)
<1>1. k * AlphaDen < AlphaNum * n
  BY DEF Rejects
<1>2. CASE Hoeffding(k, n, DeltaNum, DeltaDen)
  BY <1>1, <1>2, HoeffdingNeedsEnough
<1>3. CASE Bentkus(k, n, DeltaNum, DeltaDen)
  <2>1. k \in 0..n
    <3> SUFFICES ASSUME n < k
                 PROVE  FALSE
      OBVIOUS
    <3>1. AlphaNum <= AlphaDen /\ AlphaNum \in Nat /\ AlphaDen \in Nat /\ n <= k
      BY TestTyped
    <3>2. AlphaNum * n <= AlphaDen * k
      BY <3>1, Multiplied
    <3>3. AlphaDen * k = k * AlphaDen /\ AlphaDen * k \in Nat /\ AlphaNum * n \in Nat
      BY <3>1
    <3> QED BY <1>1, <3>2, <3>3
  <2> QED BY <1>3, <2>1, BentkusNeedsEnough
<1> QED BY <1>2, <1>3 DEF Rejects

LEMMA FlawlessRejects ==
  ASSUME NEW n \in Nat \ {0}, Enough(n)
  PROVE  Rejects(0, n, DeltaNum, DeltaDen)
<1> DEFINE x == Pow(Quiet, n)
           y == Pow(AlphaDen, n)
           z == Pow(n, n)
<1>1. x \in Nat /\ y \in Nat /\ z \in Nat /\ Pow(AlphaNum, 0) = 1 /\ Pow(0, 0) = 1 /\ n - 0 = n
  <2>1. n \in Nat /\ n - 0 = n
    OBVIOUS
  <2>2. x \in Nat /\ y \in Nat /\ z \in Nat
    BY <2>1, TestTyped, PowersExist
  <2>3. \A b \in Nat : Pow(b, 0) = 1
    BY PowersExist
  <2>4. AlphaNum \in Nat /\ 0 \in Nat
    BY TestTyped
  <2> HIDE DEF x, y, z
  <2> QED BY <2>1, <2>2, <2>3, <2>4
<1>2. x * DeltaDen <= DeltaNum * y
  BY DEF Enough
<1>3. /\ Hoeffding(0, n, DeltaNum, DeltaDen)
           <=> z * 1 * x * DeltaDen <= DeltaNum * y * 1 * z
  BY <1>1, Zenon DEF Hoeffding, Quiet
<1> HIDE DEF x, y, z
<1>4. z * (x * DeltaDen) <= z * (DeltaNum * y)
  <2>1. x * DeltaDen \in Nat /\ DeltaNum * y \in Nat /\ z <= z
    BY <1>1, TestTyped
  <2> QED BY <1>1, <1>2, <2>1, Multiplied
<1>5. z * 1 * x * DeltaDen = z * (x * DeltaDen) /\ DeltaNum * y * 1 * z = z * (DeltaNum * y)
  BY <1>1, TestTyped
<1>6. Hoeffding(0, n, DeltaNum, DeltaDen)
  BY <1>3, <1>4, <1>5
<1>7. n > 0 /\ 0 * AlphaDen < AlphaNum * n
  <2>1. \A u, v \in Nat \ {0} : u * v > 0
    OBVIOUS
  <2> QED BY <2>1, TestTyped
<1> QED BY <1>6, <1>7 DEF Rejects

\* The highest level of the grid.
LEMMA HighestLevel == Max(Levels) \in Levels /\ \A v \in Levels : v <= Max(Levels)
<1>1. Top \in Nat /\ 0 \in Levels /\ \A v \in Levels : v \in 0..Top
  BY LevelsFinite, CalibrateAssumption DEF Levels
<1> DEFINE T == {Top - v : v \in Levels}
<1>2. T \in SUBSET Nat /\ T # {}
  <2>1. \A v \in Levels : Top - v \in Nat
    BY <1>1
  <2>2. Top - 0 \in T
    BY <1>1
  <2> QED BY <2>1, <2>2
<1>3. PICK w \in T : \A l \in T : w <= l
  <2> HIDE DEF T
  <2> QED BY <1>2, Least
<1>4. PICK x \in Levels : w = Top - x
  BY <1>3
<1>5. \A y \in Levels : x >= y
  <2> SUFFICES ASSUME NEW y \in Levels
               PROVE  x >= y
    OBVIOUS
  <2>1. Top - x <= Top - y
    BY <1>3, <1>4
  <2> QED BY <1>1, <2>1
<1>6. Max(Levels) \in Levels /\ \A y \in Levels : Max(Levels) >= y
  BY <1>5, Zenon DEF Max
<1> QED BY <1>1, <1>6

\* The strictest vector of thresholds is a vector of the grid, and the walk starts with it.
Strictest == [k \in 1..(tiers - 1) |-> Max(Levels)]

LEMMA WalkStartsStrict ==
  ASSUME tiers \in Nat, tiers > 1
  PROVE  /\ Strictest \in Grid(tiers - 1)
         /\ \A u \in Grid(tiers - 1) : ~Before(u, Strictest)
<1> DEFINE a == tiers - 1
           t == Strictest
<1>1. Grid(a) = [1..a -> Levels] /\ IsFiniteSet(1..a)
  <2>1. 1 \in Int /\ a \in Int
    OBVIOUS
  <2>2. IsFiniteSet(1..a)
    <3> HIDE DEF a
    <3> QED BY <2>1, FS_Interval
  <2>3. Grid(a) = [1..a -> Levels]
    <3>1. ~(a <= 0)
      OBVIOUS
    <3> QED BY <3>1, Zenon DEF Grid
  <2> QED BY <2>2, <2>3
<1>2. DOMAIN t = 1..a /\ t \in [1..a -> Levels] /\ \A i \in 1..a : t[i] = Max(Levels)
  BY HighestLevel DEF Strictest
<1>3. Levels \subseteq Nat
  BY LevelsFinite
<1>4. ASSUME NEW u \in [1..a -> Levels]
      PROVE  ~Before(u, t)
  <2>1. \A i \in 1..a : u[i] \in Nat /\ t[i] \in Nat /\ u[i] <= t[i]
    BY <1>2, <1>3, HighestLevel
  <2>2. DOMAIN u = 1..a
    OBVIOUS
  <2> HIDE DEF t, a
  <2>3. Total(u) \in Nat /\ Total(t) \in Nat /\ Total(u) <= Total(t)
    BY <1>1, <1>2, <2>1, <2>2, SumsGrow
  <2>4. ~LexLess(t, u)
    BY <1>2, <2>1 DEF LexLess
  <2>5. ~(Total(u) > Total(t))
    BY <2>3
  <2> QED BY <2>4, <2>5 DEF Before
<1> QED BY <1>1, <1>2, <1>4

\* The floor on the sample size is exact (stats.go:131-142), for any records, grid and
\* parameters of the test: a sample below it is never certified, and one that reaches it is,
\* when the strictest thresholds answer it without an error. SizeCap, which has no
\* counterpart in the code, must be large enough for the floor to be found; a configuration
\* of one tier has nothing to test.
THEOREM FloorExact ==
  ASSUME MinCalibrationSize <= SizeCap
  PROVE  Spec => [](tiers > 1 => FloorIsExact)
<1>1. ASSUME Typed, tiers > 1
      PROVE  FloorIsExact
  <2> DEFINE m == "fixed-sequence"
             cert == CalibrateRecords(recs, tiers, m)
             S == Stream(recs)
             n == Cardinality(S)
             floor == MinCalibrationSize
  <2>1. tiers - 1 \in Nat \ {0} /\ tiers \in Nat /\ n \in Nat
    <3>1. tiers \in Nat /\ tiers - 1 \in Nat \ {0}
      BY <1>1, RecordsAssumption DEF Typed
    <3> QED BY <1>1, <3>1, StreamTyped
  <2>2. \A t : Risk(recs, S, t) \in Nat
    <3> TAKE t
    <3>1. {i \in S : ~Replay(recs[i], t).correct} \in SUBSET S
      OBVIOUS
    <3> QED BY <1>1, <3>1, StreamTyped, FS_Subset, FS_CardinalityType DEF Risk
  <2> SUFFICES ASSUME cert.ok
               PROVE  /\ cert.valid => cert.n >= floor
                      /\ Risk(recs, S, Strictest) = 0 /\ cert.n >= floor => cert.valid
    BY Zenon DEF FloorIsExact, Strictest
  <2>3. m \in Methods /\ m # "bonferroni"
    BY DEF Methods
  <2>4. ASSUME cert.valid
        PROVE  cert.n >= floor
    <3>1. PICK t : /\ cert = Report(recs, S, t, TRUE)
                   /\ Rejects(Risk(recs, S, t), n, DeltaNum, DeltaDen)
      <4> HIDE DEF m
      <4> QED BY <1>1, <2>3, <2>4, ValidPassed
    <3>2. cert.n = n
      <4>1. \A v : Report(recs, S, t, v).n = n
        BY ReportSays
      <4> HIDE DEF cert, S, n
      <4> QED BY <3>1, <4>1, Zenon
    <3>3. Enough(n)
      <4> HIDE DEF n, S
      <4> QED BY <2>1, <2>2, <3>1, RejectsNeedEnough
    <3> QED BY <2>1, <3>2, <3>3, FloorIsFirst
  <2> DEFINE grid == Grid(tiers - 1)
             bad == [t \in grid |-> Risk(recs, S, t)]
             cost == [t \in grid |-> Cost(recs, S, t)]
             passed == FixedSequence(grid, bad, n)
  <2>5. n # 0
    <3>1. [ok |-> FALSE].ok = FALSE
      OBVIOUS
    <3> QED BY <3>1, Zenon DEF CalibrateRecords, CalibrateOn
  <2>6. grid # {} /\ Strictest \in grid
    BY <1>1, <2>1, WalkStartsStrict
  <2>7. ASSUME Risk(recs, S, Strictest) = 0, cert.n >= floor
        PROVE  cert.valid
    <3>1. CASE passed = {}
      <4>1. cert.n = n
        <5>1. cert = Report(recs, S, Cheapest(grid, bad, FALSE), FALSE)
          BY <2>3, <2>5, <2>6, <3>1, Zenon DEF CalibrateRecords, CalibrateOn
        <5>2. \A t : Report(recs, S, t, FALSE).n = n
          BY DEF Report
        <5> HIDE DEF cert, S, n, grid, bad
        <5> QED BY <5>1, <5>2, Zenon
      <4>2. Enough(n)
        <5>1. floor \in Nat /\ Enough(floor) /\ floor <= n
          BY <1>1, <2>1, <2>7, <4>1, FloorIsFirst
        <5> HIDE DEF n, floor
        <5> QED BY <2>1, <5>1, EnoughFrom
      <4>3. Rejects(0, n, DeltaNum, DeltaDen)
        <5> HIDE DEF n
        <5> QED BY <2>1, <2>5, <4>2, FlawlessRejects
      <4>4. bad[Strictest] = 0
        BY <2>6, <2>7
      <4>5. Strictest \in passed
        <5>1. \A u \in grid : ~Before(u, Strictest)
          BY <1>1, <2>1, WalkStartsStrict
        <5> HIDE DEF grid, bad, n
        <5> QED BY <2>6, <4>3, <4>4, <5>1 DEF FixedSequence
      <4> QED BY <3>1, <4>5
    <3>2. CASE passed # {}
      <4>1. cert = Report(recs, S, Cheapest(passed, cost, TRUE), TRUE)
        BY <2>3, <2>5, <2>6, <3>2, Zenon DEF CalibrateRecords, CalibrateOn
      <4>2. \A t : Report(recs, S, t, TRUE).valid = TRUE
        BY DEF Report
      <4> HIDE DEF cert, S, passed, cost
      <4> QED BY <4>1, <4>2, Zenon
    <3> QED BY <3>1, <3>2
  <2> QED BY <2>4, <2>7
<1>2. Typed => (tiers > 1 => FloorIsExact)
  BY <1>1
<1> QED BY <1>2, TypedHolds, PTL
=============================================================================
