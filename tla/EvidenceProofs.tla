---------------------------- MODULE EvidenceProofs ----------------------------
(***************************************************************************)
(* The laws of the score, for fan-outs of any width and any candidates,    *)
(* and what they mean for the score the cache admits from.                 *)
(***************************************************************************)
EXTENDS Evidence, ClusterProofs, WellFoundedInduction

\* One more survivor of the class in one more sample never scores less.
LEMMA WilsonDiagonal ==
  ASSUME NEW n \in Nat \ {0}, NEW k \in Nat, k <= n
  PROVE  WilsonLCB(k, n) <= WilsonLCB(k + 1, n + 1)
<1>1. ASSUME NEW c \in Cleared(k, n)
      PROVE  c \in Cleared(k + 1, n + 1)
  <2> DEFINE x == 100 - c
             a == 100*k - c*n
             w == n * x
             e == c * x
  <2>1. /\ c \in 1..99 /\ x \in 1..99 /\ c * n <= 100 * k
        /\ 1000 * a * a >= 2706 * n * c * (100 - c)
    BY DEF Cleared
  <2>2. a \in Nat /\ w \in Nat \ {0} /\ e \in Nat
    BY <2>1
  <2>3. a <= w
    <3>1. w = 100 * n - c * n
      BY <2>1
    <3> QED BY <2>1, <3>1
  <2>4. 2706 * n * c * (100 - c) = w * (2706 * c)
    BY <2>1
  <2>5. 1000 * a >= 2706 * c
    <3> HIDE DEF a, w, x
    <3>1. w * (1000 * a) >= a * (1000 * a)
      <4>1. (1000 * a) * w >= (1000 * a) * a
        <5>1. 1000 * a \in Nat /\ w \in Int /\ a \in Int /\ w >= a
          BY <2>2, <2>3
        <5> QED BY <5>1, Scale
      <4> QED BY <2>2, <4>1
    <3>2. 1000 * a * a = a * (1000 * a)
      BY <2>2
    <3>3. w * (1000 * a) \in Int /\ a * (1000 * a) \in Int /\ w * (2706 * c) \in Int
      BY <2>1, <2>2
    <3>4. w * (1000 * a) >= w * (2706 * c)
      BY <2>1, <2>4, <3>1, <3>2, <3>3
    <3>5. 1000 * a \in Int /\ 2706 * c \in Int
      BY <2>1, <2>2
    <3> QED BY <2>2, <3>4, <3>5, Cancel
  <2>6. /\ 100*(k + 1) - c*(n + 1) = a + x
        /\ 2706 * (n + 1) * c * (100 - c) = 2706 * n * c * (100 - c) + 2706 * e
    BY <2>1
  <2>7. 1000 * (a + x) * (a + x) = 1000 * a * a + x * (2000 * a + 1000 * x)
    <3> HIDE DEF a, x
    <3> QED BY <2>1, <2>2
  <2>8. x * (2000 * a + 1000 * x) >= 2706 * e
    <3>1. x * (2706 * c) = 2706 * e
      BY <2>1
    <3> HIDE DEF a, x, e
    <3>2. /\ x \in Nat /\ 2000 * a + 1000 * x \in Int /\ 2706 * c \in Int
          /\ 2000 * a + 1000 * x >= 2706 * c
      BY <2>1, <2>2, <2>5
    <3>3. x * (2000 * a + 1000 * x) >= x * (2706 * c)
      BY <3>2, Scale
    <3> QED BY <3>1, <3>3
  <2>9. 1000 * (a + x) * (a + x) >= 2706 * (n + 1) * c * (100 - c)
    <3> DEFINE s == 1000 * a * a
               t == 2706 * n * c * (100 - c)
               y == x * (2000 * a + 1000 * x)
    <3>1. s \in Int /\ t \in Int /\ y \in Int /\ 2706 * e \in Int
      <4> HIDE DEF a, e
      <4> QED BY <2>1, <2>2
    <3>2. s >= t /\ y >= 2706 * e
      BY <2>1, <2>8
    <3>3. s + y >= t + 2706 * e
      <4> HIDE DEF s, t, y, e
      <4> QED BY <3>1, <3>2
    <3> HIDE DEF a, x, e
    <3> QED BY <2>6, <2>7, <3>3
  <2>10. c * (n + 1) <= 100 * (k + 1)
    <3>1. c * (n + 1) = c * n + c
      BY <2>1
    <3> QED BY <2>1, <3>1
  <2> HIDE DEF a, x, e
  <2>11. 1000 * (100*(k + 1) - c*(n + 1)) * (100*(k + 1) - c*(n + 1))
           >= 2706 * (n + 1) * c * (100 - c)
    BY <2>6, <2>9
  <2> QED BY <2>1, <2>10, <2>11 DEF Cleared
<1> QED BY <1>1, ByPercents

-----------------------------------------------------------------------------
(* One more candidate. *)

\* All winning classes have one size, which the score is made of.
LEMMA ScoreOfWinner ==
  ASSUME NEW S, NEW cs \in Seq(S), NEW w \in Winners(cs)
  PROVE  /\ w \subseteq DOMAIN cs /\ w # {} /\ IsFiniteSet(w)
         /\ Cardinality(w) \in Nat /\ Cardinality(w) <= Len(cs)
         /\ Score(cs) = WilsonLCB(Cardinality(w), Len(cs))
<1>1. \A v \in Winners(cs) : /\ v \subseteq 1..Len(cs) /\ v # {} /\ IsFiniteSet(v)
                             /\ Cardinality(v) \in Nat /\ Cardinality(v) <= Len(cs)
  <2> SUFFICES ASSUME NEW v \in Winners(cs)
               PROVE  /\ v \subseteq 1..Len(cs) /\ v # {} /\ IsFiniteSet(v)
                      /\ Cardinality(v) \in Nat /\ Cardinality(v) <= Len(cs)
    OBVIOUS
  <2>1. v \subseteq 1..Len(cs) /\ v # {} /\ Len(cs) \in Nat
    BY WinnersSurvived
  <2>2. IsFiniteSet(1..Len(cs)) /\ Cardinality(1..Len(cs)) = Len(cs)
    BY <2>1, IntervalSize
  <2> QED BY <2>1, <2>2, FS_Subset, FS_CardinalityType
<1> DEFINE v == CHOOSE cl \in Winners(cs) : TRUE
<1>2. v \in Winners(cs)
  OBVIOUS
<1>3. Cardinality(v) <= Cardinality(w) /\ Cardinality(w) <= Cardinality(v)
  <2> HIDE DEF v
  <2> QED BY <1>2 DEF Winners
<1>4. Cardinality(v) = Cardinality(w)
  <2> HIDE DEF v
  <2> QED BY <1>1, <1>2, <1>3
<1>5. Score(cs) = WilsonLCB(Cardinality(w), Len(cs))
  BY <1>4 DEF Score
<1> QED BY <1>1, <1>5

\* What candidate n, the one that u has more than cs, does to the classes: it joins
\* one, or is one of its own.
Grown(cs, u, n) ==
  /\ \A cl \in Group(u) :
       /\ n \notin cl => cl \in Group(cs) /\ (Verified(u, cl) => Verified(cs, cl))
       /\ n \in cl => cl = ClusterOf(u, n)
       /\ n \in cl /\ cl \ {n} # {} => cl \ {n} \in Group(cs)
  /\ \A cl \in Group(cs) :
       \/ cl \in Group(u) /\ n \notin cl /\ (Verified(cs, cl) => Verified(u, cl))
       \/ cl \cup {n} \in Group(u) /\ cl \cup {n} = ClusterOf(u, n) /\ cl # {}

LEMMA ClassesGrow ==
  ASSUME NEW S, NEW cs \in Seq(S), NEW d, NEW u, u = Append(cs, d), NEW n, n = Len(cs) + 1
  PROVE  Grown(cs, u, n)
<1>1. /\ n \in Nat /\ Len(u) = n /\ DOMAIN u = 1..n /\ n \notin DOMAIN cs
      /\ DOMAIN u = DOMAIN cs \cup {n} /\ \A j \in DOMAIN cs : u[j] = cs[j]
  OBVIOUS
<1>2. \A j \in DOMAIN cs :
        ClusterOf(cs, j) = {i \in DOMAIN cs : Behaviour(u[i]) = Behaviour(u[j])}
  BY <1>1 DEF ClusterOf
<1>3. ASSUME NEW cl \in Group(u)
      PROVE  /\ n \notin cl => cl \in Group(cs) /\ (Verified(u, cl) => Verified(cs, cl))
             /\ n \in cl => cl = ClusterOf(u, n)
             /\ n \in cl /\ cl \ {n} # {} => cl \ {n} \in Group(cs)
  <2>1. PICK j \in DOMAIN u : cl = {i \in DOMAIN u : Behaviour(u[i]) = Behaviour(u[j])}
    BY DEF Group, ClusterOf
  <2>2. ASSUME n \notin cl
        PROVE  cl \in Group(cs) /\ (Verified(u, cl) => Verified(cs, cl))
    <3>1. j \in DOMAIN cs /\ cl \subseteq DOMAIN cs
      BY <1>1, <2>1, <2>2
    <3>2. cl = ClusterOf(cs, j)
      BY <1>1, <1>2, <2>1, <3>1
    <3> QED BY <1>1, <3>1, <3>2 DEF Group, Verified
  <2>3. n \in cl => cl = ClusterOf(u, n)
    BY <2>1 DEF ClusterOf
  <2>4. ASSUME n \in cl, cl \ {n} # {}
        PROVE  cl \ {n} \in Group(cs)
    <3>1. PICK l \in cl : l # n
      BY <2>4
    <3>2. l \in DOMAIN cs /\ Behaviour(u[l]) = Behaviour(u[j])
      BY <1>1, <2>1, <3>1
    <3>3. cl \ {n} = {i \in DOMAIN cs : Behaviour(u[i]) = Behaviour(u[l])}
      BY <1>1, <2>1, <3>2
    <3>4. cl \ {n} = ClusterOf(cs, l)
      BY <1>2, <3>2, <3>3
    <3> QED BY <3>2, <3>4 DEF Group
  <2> QED BY <2>2, <2>3, <2>4
<1>4. ASSUME NEW cl \in Group(cs)
      PROVE  \/ cl \in Group(u) /\ n \notin cl /\ (Verified(cs, cl) => Verified(u, cl))
             \/ cl \cup {n} \in Group(u) /\ cl \cup {n} = ClusterOf(u, n) /\ cl # {}
  <2>1. PICK j \in DOMAIN cs : cl = ClusterOf(cs, j)
    BY DEF Group
  <2>2. /\ cl = {i \in DOMAIN cs : Behaviour(u[i]) = Behaviour(u[j])}
        /\ j \in DOMAIN u /\ j \in cl
    BY <1>1, <1>2, <2>1
  <2>3. CASE Behaviour(u[n]) = Behaviour(u[j])
    <3>1. cl \cup {n} = ClusterOf(u, n)
      BY <1>1, <2>2, <2>3 DEF ClusterOf
    <3> QED BY <1>1, <2>2, <3>1 DEF Group
  <2>4. CASE Behaviour(u[n]) # Behaviour(u[j])
    <3>1. cl = ClusterOf(u, j) /\ n \notin cl
      BY <1>1, <2>2, <2>4 DEF ClusterOf
    <3> QED BY <1>1, <2>2, <3>1 DEF Group, Verified
  <2> QED BY <2>3, <2>4
<1> QED BY <1>3, <1>4 DEF Grown

\* A survivor that joins the only leading class, or founds it, never lowers the score.
LEMMA BackingRaises ==
  ASSUME NEW S, NEW cs \in Seq(S), NEW d \in S, NEW u, u = Append(cs, d),
         NEW w \in Winners(u), Len(u) \in w, w \ {Len(u)} \in Winners(cs) \cup {{}},
         Cardinality(Winners(u)) = 1
  PROVE  Score(u) >= Score(cs)
<1> DEFINE n == Len(cs) + 1
<1>1. n \in Nat /\ Len(u) = n /\ DOMAIN u = 1..n /\ n \notin DOMAIN cs /\ u \in Seq(S)
  OBVIOUS
<1>9. Grown(cs, u, n)
  BY ClassesGrow
<1> HIDE DEF n
<1>2. \A v \in Winners(u) : v = w
  <2>1. Winners(u) \subseteq SUBSET (1..n)
    BY <1>1, WinnersSurvived
  <2>2. IsFiniteSet(1..n)
    BY <1>1, IntervalSize
  <2>3. IsFiniteSet(Winners(u))
    BY <2>1, <2>2, FS_SUBSET, FS_Subset
  <2>4. PICK x : Winners(u) = {x}
    BY <2>3, FS_Singleton
  <2> QED BY <2>4
<1>3. /\ IsFiniteSet(w) /\ Cardinality(w) \in Nat /\ Cardinality(w) <= n
      /\ Score(u) = WilsonLCB(Cardinality(w), n) /\ w \subseteq DOMAIN u
  <2>1. /\ IsFiniteSet(w) /\ Cardinality(w) \in Nat /\ Cardinality(w) <= Len(u)
        /\ Score(u) = WilsonLCB(Cardinality(w), Len(u)) /\ w \subseteq DOMAIN u
    <3>1. u \in Seq(S)
      BY <1>1
    <3> QED BY <3>1, ScoreOfWinner
  <2> QED BY <1>1, <2>1
<1>4. Score(u) \in 0..100 /\ Score(cs) \in 0..100
  BY ScoreIsPercentage
<1>5. CASE Winners(cs) = {}
  <2>1. Score(cs) = 0
    BY <1>5 DEF Score
  <2>2. \A v \in 0..100 : v >= 0
    OBVIOUS
  <2> QED BY <1>4, <2>1, <2>2, Zenon
<1>6. CASE w \ {n} \in Winners(cs)
  <2> DEFINE v == w \ {n}
  <2>1. /\ Cardinality(v) \in Nat /\ Cardinality(v) <= Len(cs) /\ v # {} /\ IsFiniteSet(v)
        /\ Score(cs) = WilsonLCB(Cardinality(v), Len(cs)) /\ v \subseteq DOMAIN cs
    <3> HIDE DEF v
    <3>1. v \in Winners(cs)
      BY <1>6 DEF v
    <3> QED BY <3>1, ScoreOfWinner
  <2>2. Cardinality(w) = Cardinality(v) + 1
    <3>1. w = v \cup {n} /\ n \notin v
      BY <1>1
    <3> HIDE DEF v
    <3> QED BY <2>1, <3>1, FS_AddElement
  <2>3. Len(cs) \in Nat \ {0}
    BY <2>1
  <2>4. WilsonLCB(Cardinality(v), Len(cs)) <= WilsonLCB(Cardinality(v) + 1, Len(cs) + 1)
    <3> HIDE DEF v
    <3> QED BY <2>1, <2>3, WilsonDiagonal
  <2> QED BY <1>3, <1>4, <2>1, <2>2, <2>4 DEF n
<1>7. CASE w = {n} /\ Winners(cs) # {}
  <2>1. PICK v \in Winners(cs) : TRUE
    BY <1>7
  <2>2. v \in Group(cs) /\ Verified(cs, v) /\ v # {} /\ v \subseteq DOMAIN cs
    BY <2>1, WinnersSurvived DEF Winners
  <2>3. v \in Group(u) /\ n \notin v /\ Verified(u, v)
    <3>1. w = ClusterOf(u, n)
      BY <1>7, <1>9 DEF Winners, Grown
    <3>2. v \cup {n} # ClusterOf(u, n)
      BY <1>1, <1>7, <2>2, <3>1
    <3> QED BY <1>9, <2>2, <3>2 DEF Grown
  <2>4. Cardinality(w) = 1
    BY <1>7, FS_Singleton
  <2>5. /\ \A x \in Group(u) : Verified(u, x) => Cardinality(x) <= 1
        /\ Cardinality(v) \in Nat /\ Cardinality(v) # 0
    <3>1. \A x \in Group(u) : Verified(u, x) => Cardinality(x) <= 1
      BY <2>4 DEF Winners
    <3>2. IsFiniteSet(v) /\ Cardinality(v) \in Nat
      BY <2>1, ScoreOfWinner
    <3> QED BY <2>2, <3>1, <3>2, FS_EmptySet
  <2>6. Cardinality(v) = 1
    BY <2>3, <2>5
  <2>7. v \in Winners(u)
    BY <2>3, <2>5, <2>6 DEF Winners
  <2> QED BY <1>2, <1>7, <2>3, <2>7
<1>8. w \ {n} \in Winners(cs) \/ w = {n}
  BY <1>1 DEF n
<1> QED BY <1>5, <1>6, <1>7, <1>8

\* No other candidate raises it.
LEMMA OthersDoNotRaise ==
  ASSUME NEW S, NEW cs \in Seq(S), NEW d \in S, NEW u, u = Append(cs, d),
         ~(/\ \E w \in Winners(u) : Len(u) \in w /\ w \ {Len(u)} \in Winners(cs) \cup {{}}
           /\ Cardinality(Winners(u)) = 1)
  PROVE  Score(u) <= Score(cs)
<1> DEFINE n == Len(cs) + 1
<1>1. n \in Nat /\ Len(u) = n /\ DOMAIN u = 1..n /\ n \notin DOMAIN cs /\ u \in Seq(S)
  OBVIOUS
<1>5. Grown(cs, u, n)
  BY ClassesGrow
<1> HIDE DEF n
<1>2. Score(u) \in 0..100 /\ Score(cs) \in 0..100
  BY ScoreIsPercentage
<1>3. CASE Winners(u) = {}
  <2>1. Score(u) = 0
    BY <1>3 DEF Score
  <2>2. \A v \in 0..100 : 0 <= v
    OBVIOUS
  <2> QED BY <1>2, <2>1, <2>2, Zenon
<1>4. CASE Winners(u) # {}
  <2>1. PICK w \in Winners(u) : n \notin w \/ \A v \in Winners(u) : n \in v
    BY <1>4
  <2>2. /\ w \in Group(u) /\ Verified(u, w) /\ w # {} /\ IsFiniteSet(w)
        /\ Cardinality(w) \in Nat /\ Cardinality(w) <= n
        /\ Score(u) = WilsonLCB(Cardinality(w), n)
    BY <1>1, ScoreOfWinner DEF Winners
  \* A class of the smaller fan-out is as large.
  <2>3. PICK e \in Group(cs) : Verified(cs, e) /\ Cardinality(w) <= Cardinality(e)
    <3>1. CASE n \notin w
      <4>1. w \in Group(cs) /\ Verified(cs, w)
        BY <1>5, <2>2, <3>1 DEF Grown
      <4> QED BY <2>2, <4>1
    <3>2. CASE \A v \in Winners(u) : n \in v
      <4>1. \A v \in Winners(u) : v = w
        BY <1>5, <3>2 DEF Winners, Grown
      <4>2. Winners(u) = {w}
        BY <4>1
      <4>3. Cardinality(Winners(u)) = 1
        BY <4>2, FS_Singleton
      <4>4. n \in w /\ w \ {n} # {} /\ w \ {n} \notin Winners(cs)
        BY <1>1, <3>2, <4>3
      <4> DEFINE v == w \ {n}
      <4>5. v \in Group(cs)
        BY <1>5, <2>2, <4>4 DEF Grown
      <4>6. Verified(cs, v)
        <5>1. PICK l \in v : TRUE
          BY <4>4
        <5>2. u[l].report.ok /\ l \in DOMAIN u
          BY <5>1, WinnersSurvived
        <5>3. l \in DOMAIN cs /\ cs[l] = u[l]
          BY <1>1, <5>1, <5>2 DEF n
        <5> HIDE DEF v
        <5> QED BY <5>1, <5>2, <5>3 DEF Verified
      <4>7. IsFiniteSet(v) /\ Cardinality(v) = Cardinality(w) - 1
        BY <2>2, <4>4, FS_RemoveElement
      <4> HIDE DEF v
      <4>8. PICK x \in Group(cs) : Verified(cs, x) /\ ~(Cardinality(x) <= Cardinality(v))
        BY <4>4, <4>5, <4>6 DEF Winners, v
      <4>9. Cardinality(x) \in Nat
        <5>1. x \subseteq 1..Len(cs) /\ Len(cs) \in Nat
          BY DEF Group, ClusterOf
        <5> QED BY <5>1, IntervalSize, FS_Subset, FS_CardinalityType
      <4> QED BY <2>2, <4>7, <4>8, <4>9
    <3> QED BY <2>1, <3>1, <3>2
  <2>4. PICK y \in Winners(cs) : TRUE
    <3>1. PICK s \in e : cs[s].report.ok
      BY <2>3 DEF Verified
    <3>2. s \in DOMAIN cs
      BY <2>3, <3>1 DEF Group, ClusterOf
    <3> QED BY <3>1, <3>2, SurvivorWins
  <2>5. /\ Cardinality(y) \in Nat /\ Cardinality(y) <= Len(cs) /\ Cardinality(e) <= Cardinality(y)
        /\ Score(cs) = WilsonLCB(Cardinality(y), Len(cs)) /\ Len(cs) \in Nat \ {0}
    <3>1. y # {} /\ y \subseteq DOMAIN cs
      BY <2>4, WinnersSurvived
    <3>2. Cardinality(e) <= Cardinality(y)
      BY <2>3, <2>4 DEF Winners
    <3>3. Len(cs) \in Nat \ {0}
      BY <3>1
    <3> QED BY <2>4, <3>2, <3>3, ScoreOfWinner
  <2>6. Cardinality(e) \in Nat
    <3>1. e \subseteq 1..Len(cs) /\ Len(cs) \in Nat
      BY DEF Group, ClusterOf
    <3> QED BY <3>1, IntervalSize, FS_Subset, FS_CardinalityType
  <2>7. Cardinality(w) <= Cardinality(y)
    BY <2>2, <2>3, <2>5, <2>6
  <2>8. WilsonLCB(Cardinality(w), n) <= WilsonLCB(Cardinality(w), Len(cs))
    <3>1. Len(cs) <= n
      BY <2>5 DEF n
    <3> QED BY <1>1, <2>2, <2>5, <3>1, WilsonAntitone
  <2>9. WilsonLCB(Cardinality(w), Len(cs)) <= WilsonLCB(Cardinality(y), Len(cs))
    BY <2>2, <2>5, <2>7, WilsonMonotone
  <2>10. /\ WilsonLCB(Cardinality(w), n) \in 0..100
         /\ WilsonLCB(Cardinality(w), Len(cs)) \in 0..100
         /\ WilsonLCB(Cardinality(y), Len(cs)) \in 0..100
    BY WilsonIsPercentage
  <2>11. WilsonLCB(Cardinality(w), n) <= WilsonLCB(Cardinality(y), Len(cs))
    <3>1. \A a, b, c \in 0..100 : a <= b /\ b <= c => a <= c
      OBVIOUS
    <3> QED BY <2>8, <2>9, <2>10, <3>1, Zenon
  <2> QED BY <2>2, <2>5, <2>11
<1> QED BY <1>3, <1>4

\* However wide the fan-out and whatever its candidates do, agreement never lowers the
\* score, and nothing else raises it (cluster.go:142-144).
THEOREM ScoreFollowsEvidence == Spec => MonotoneInEvidence
<1> DEFINE T == cands \in Seq(Candidates)
           A == IF Backs /\ Cardinality(Winners(cands')) = 1
                  THEN Score(cands') >= Score(cands)
                  ELSE Score(cands') <= Score(cands)
<1>1. Init => T
  BY DEF Init
<1>2. T /\ [Next]_cands => T'
  BY DEF Next, Draw
<1>3. T /\ [Next]_cands => [A]_cands
  <2> SUFFICES ASSUME T, Next
               PROVE  A
    OBVIOUS
  <2>1. PICK d \in Candidates : cands' = Append(cands, d)
    BY DEF Next, Draw
  <2>2. CASE Backs /\ Cardinality(Winners(cands')) = 1
    <3>1. PICK w \in Winners(cands') :
            Len(cands') \in w /\ w \ {Len(cands')} \in Winners(cands) \cup {{}}
      BY <2>2 DEF Backs
    <3>2. Score(cands') >= Score(cands)
      BY <2>1, <2>2, <3>1, BackingRaises
    <3> QED BY <2>2, <3>2
  <2>3. CASE ~(Backs /\ Cardinality(Winners(cands')) = 1)
    <3>1. Score(cands') <= Score(cands)
      BY <2>1, <2>3, OthersDoNotRaise DEF Backs
    <3> QED BY <2>3, <3>1
  <2> QED BY <2>2, <2>3
<1> QED BY <1>1, <1>2, <1>3, PTL DEF Spec, MonotoneInEvidence

-----------------------------------------------------------------------------
(* The representative. *)

LEMMA FanOutTyped == Spec => [](cands \in Seq(Candidates))
<1>1. Init => cands \in Seq(Candidates)
  BY DEF Init
<1>2. cands \in Seq(Candidates) /\ [Next]_cands => (cands \in Seq(Candidates))'
  BY DEF Next, Draw
<1> QED BY <1>1, <1>2, PTL DEF Spec

\* Before another in the choice of a representative: simpler, or as simple and earlier.
Precedes(cs, i, j) ==
  \/ Weight[cs[i].source] < Weight[cs[j].source]
  \/ Weight[cs[i].source] = Weight[cs[j].source] /\ i <= j

\* What represents a class is the one member that comes before all.
LEMMA RepIsFirst ==
  ASSUME NEW cs, NEW w, w \in SUBSET Nat, w # {},
         \A i \in w : Weight[cs[i].source] \in Nat
  PROVE  /\ Rep(cs, w) \in w /\ \A j \in w : Precedes(cs, Rep(cs, w), j)
         /\ \A i \in w : (\A j \in w : Precedes(cs, i, j)) => i = Rep(cs, w)
<1> DEFINE f == [i \in w |-> Weight[cs[i].source]]
<1>1. \E i \in w : \A j \in w : f[i] < f[j] \/ (f[i] = f[j] /\ i <= j)
  <2> HIDE DEF f
  <2>1. f \in [w -> Nat]
    BY DEF f
  <2> QED BY <2>1, FirstLeast
<1>2. \E i \in w : \A j \in w : Precedes(cs, i, j)
  BY <1>1 DEF Precedes
<1>3. Rep(cs, w) \in w /\ \A j \in w : Precedes(cs, Rep(cs, w), j)
  BY <1>2 DEF Rep, Precedes
<1>4. ASSUME NEW i \in w, \A j \in w : Precedes(cs, i, j)
      PROVE  i = Rep(cs, w)
  <2>1. Precedes(cs, i, Rep(cs, w)) /\ Precedes(cs, Rep(cs, w), i)
    BY <1>3, <1>4
  <2>2. /\ Weight[cs[i].source] \in Nat /\ Weight[cs[Rep(cs, w)].source] \in Nat
        /\ i \in Nat /\ Rep(cs, w) \in Nat
    BY <1>3
  <2> QED BY <2>1, <2>2 DEF Precedes
<1> QED BY <1>3, <1>4

\* A class as it was and as the newcomer leaves it: the same members, or those and it.
LEMMA RepOfGrown ==
  ASSUME NEW cs, NEW u, NEW n \in Nat, NEW w, w # {},
         \A i \in w : u[i] = cs[i] /\ i \in Nat /\ i < n /\ Weight[cs[i].source] \in Nat,
         Weight[u[n].source] \in Nat, NEW v, v = w \/ v = w \cup {n}
  PROVE  \/ Rep(u, v) = Rep(cs, w)
         \/ Rep(u, v) = n /\ n \in v /\ Weight[u[n].source] < Weight[cs[Rep(cs, w)].source]
<1> DEFINE r == Rep(cs, w)
           s == Rep(u, v)
<1>2. \A i \in w : Weight[cs[i].source] \in Nat /\ u[i] = cs[i] /\ i \in Nat /\ i < n
  OBVIOUS
<1>3. \A i \in v : Weight[u[i].source] \in Nat /\ i \in Nat
  BY <1>2
<1>4. w \in SUBSET Nat /\ v \in SUBSET Nat /\ v # {}
  BY <1>2, <1>3
<1>5. r \in w /\ \A j \in w : Precedes(cs, r, j)
  BY <1>2, <1>4, RepIsFirst
<1>6. s \in v /\ \A j \in v : Precedes(u, s, j)
  BY <1>3, <1>4, RepIsFirst
<1> HIDE DEF r, s
<1>7. CASE s \in w
  <2>1. \A j \in w : Precedes(cs, s, j)
    BY <1>2, <1>6, <1>7 DEF Precedes
  <2> QED BY <1>2, <1>4, <1>7, <2>1, RepIsFirst DEF r, s
<1>8. CASE s \notin w
  <2>1. s = n /\ n \in v /\ r \in v /\ r < n
    BY <1>2, <1>5, <1>6, <1>8
  <2>2. Precedes(u, n, r)
    BY <1>6, <2>1
  <2>3. u[r] = cs[r] /\ r \in Nat
    BY <1>2, <1>5
  <2> QED BY <2>1, <2>2, <2>3 DEF Precedes, r, s
<1> QED BY <1>7, <1>8

\* A simpler member than another leaves it no representative.
LEMMA SimplerThanRep ==
  ASSUME NEW u, NEW v \in SUBSET Nat, \A i \in v : Weight[u[i].source] \in Nat,
         NEW n \in v, NEW r \in v, Weight[u[n].source] < Weight[u[r].source]
  PROVE  Rep(u, v) # r
<1>1. \A j \in v : Precedes(u, Rep(u, v), j)
  BY RepIsFirst
<1>2. Precedes(u, Rep(u, v), n) /\ Weight[u[n].source] \in Nat /\ Weight[u[r].source] \in Nat
  BY <1>1
<1> QED BY <1>2 DEF Precedes

\* However wide the fan-out: a class is answered for by its own and by the simplest of
\* them; a newcomer takes over exactly when it is simpler (cluster.go:89-101). All that
\* is asked of the weights is that they are numbers.
THEOREM RepresentativeStays ==
  ASSUME \A c \in Candidates : Weight[c.source] \in Nat
  PROVE  Spec => RepresentativeHolds
<1> DEFINE T == cands \in Seq(Candidates)
<1>1. T /\ [Next]_cands => [Succession]_cands
  <2> SUFFICES ASSUME T, Next, NEW w \in Group(cands)
               PROVE  LET r == Rep(cands, w)
                          n == Len(cands')
                          takes == /\ Behaviour(cands'[n]) = Behaviour(cands[r])
                                   /\ Weight[cands'[n].source] < Weight[cands[r].source]
                      IN Rep(cands', ClusterOf(cands', r)) = IF takes THEN n ELSE r
    BY DEF Succession
  <2> DEFINE r == Rep(cands, w)
             v == ClusterOf(cands', r)
             s == Rep(cands', v)
             n == Len(cands) + 1
  <2>1. PICK d \in Candidates : cands' = Append(cands, d)
    BY DEF Next, Draw
  <2>2. /\ n \in Nat /\ Len(cands') = n /\ DOMAIN cands' = DOMAIN cands \cup {n}
        /\ \A j \in DOMAIN cands : cands'[j] = cands[j]
        /\ DOMAIN cands' = 1..n /\ cands' \in Seq(Candidates)
    BY <2>1
  <2>3. \A i \in DOMAIN cands' : Weight[cands'[i].source] \in Nat
    BY <2>2
  <2>4. w \subseteq DOMAIN cands /\ w # {} /\ \A i \in w : w = ClusterOf(cands, i)
    BY DEF Group, ClusterOf
  <2>5. \A i \in w : Weight[cands[i].source] \in Nat /\ i \in Nat
    BY <2>2, <2>3, <2>4
  <2>6. r \in w
    <3>1. w \in SUBSET Nat
      BY <2>5
    <3> QED BY <2>4, <2>5, <3>1, RepIsMember
  <2> HIDE DEF r
  <2>7. v = w \/ v = w \cup {n}
    <3>1. w = ClusterOf(cands, r)
      BY <2>4, <2>6
    <3>2. v = {j \in DOMAIN cands \cup {n} : Behaviour(cands'[j]) = Behaviour(cands[r])}
      BY <2>2, <2>4, <2>6 DEF ClusterOf
    <3>3. \A j \in DOMAIN cands : j \in v <=> j \in w
      BY <2>2, <3>1, <3>2 DEF ClusterOf
    <3>4. \A j \in v : j \in DOMAIN cands \/ j = n
      BY <3>2
    <3> HIDE DEF v, n
    <3> QED BY <2>4, <3>3, <3>4
  <2>8. \/ s = r
        \/ s = n /\ n \in v /\ Weight[cands'[n].source] < Weight[cands[r].source]
    <3> HIDE DEF v, n
    <3>1. n \in Nat /\ Weight[cands'[n].source] \in Nat
      BY <2>2, <2>3 DEF n
    <3>2. \A i \in w : /\ cands'[i] = cands[i] /\ i \in Nat /\ i < n
                      /\ Weight[cands[i].source] \in Nat
      <4> TAKE i \in w
      <4>1. i \in DOMAIN cands
        BY <2>4
      <4>2. i < n
        BY <4>1 DEF n
      <4> QED BY <2>2, <2>5, <4>1, <4>2
    <3> QED BY <2>4, <2>7, <3>1, <3>2, RepOfGrown, Zenon DEF r
  <2>9. n \in v /\ Weight[cands'[n].source] < Weight[cands[r].source] => s # r
    <3>1. r \in v /\ cands'[r] = cands[r]
      BY <2>2, <2>4, <2>6, <2>7
    <3>2. v \in SUBSET Nat /\ \A i \in v : Weight[cands'[i].source] \in Nat
      <4>1. v \subseteq DOMAIN cands'
        BY DEF ClusterOf
      <4> HIDE DEF v
      <4> QED BY <2>2, <2>3, <4>1
    <3> HIDE DEF v, n
    <3> QED BY <3>1, <3>2, SimplerThanRep
  <2>10. n \in v <=> Behaviour(cands'[n]) = Behaviour(cands[r])
    <3>1. cands'[r] = cands[r] /\ n \in DOMAIN cands'
      BY <2>2, <2>4, <2>6
    <3> QED BY <3>1 DEF ClusterOf
  <2> HIDE DEF v, s
  <2>11. s = IF /\ Behaviour(cands'[n]) = Behaviour(cands[r])
                /\ Weight[cands'[n].source] < Weight[cands[r].source]
               THEN n ELSE r
    BY <2>8, <2>9, <2>10
  <2> QED BY <2>2, <2>11 DEF r, s, v
<1> QED BY <1>1, FanOutTyped, PTL DEF Spec, RepresentativeHolds

-----------------------------------------------------------------------------
(* The admission score. *)

\* The numbers of an interval from 0 that are not 0 are those of the one from 1.
LEMMA Positive ==
  \A b \in Nat : \A v \in 0..b : 0 <= v /\ (v # 0 => v > 0) /\ (v >= 1 => v \in 1..b)
OBVIOUS

\* A bounded set of naturals has a greatest member too.
LEMMA NatMax ==
  ASSUME NEW b \in Nat, NEW T \in SUBSET (0..b), T # {}
  PROVE  \E m \in T : \A n \in T : n <= m
<1> DEFINE V == {b - n : n \in T}
<1>1. V \in SUBSET Nat /\ V # {}
  <2>1. \A n \in T : b - n \in Nat
    OBVIOUS
  <2> QED BY <2>1
<1>2. PICK v \in V : \A w \in V : v <= w
  <2> HIDE DEF V
  <2> QED BY <1>1, NatMin
<1>3. PICK m \in T : v = b - m
  BY <1>2
<1>4. ASSUME NEW n \in T
      PROVE  n <= m
  <2>1. b - m <= b - n
    BY <1>2, <1>3
  <2>2. m \in Int /\ n \in Int
    OBVIOUS
  <2> QED BY <2>1, <2>2
<1> QED BY <1>4

\* No fan-out of a consistent configuration is worth less when unanimous than the
\* derived admission score, or more than the attainable one, which one of them has
\* (config.go:302-340).
LEMMA AdmissionScores ==
  ASSUME NEW c \in Configs, Consistent(c)
  PROVE  /\ DefaultAdmitScore(c) \in 0..100 /\ MaxAttainableScore(c) \in 0..100
         /\ \A n \in Fanouts(c) : /\ n \in 1..MaxSamples
                                  /\ DefaultAdmitScore(c) <= UnanimousScore(n)
                                  /\ UnanimousScore(n) <= MaxAttainableScore(c)
         /\ \E n \in Fanouts(c) : MaxAttainableScore(c) = UnanimousScore(n)
<1>1. Fanouts(c) \subseteq 1..MaxSamples /\ Fanouts(c) # {} /\ MaxSamples \in Nat
  <2> DEFINE Tier == [samples : 0..MaxSamples, price : Nat, planner : Names]
  <2>1. c.tiers \in Seq(Tier)
    BY ConfigsAssumption
  <2>2. /\ MaxSamples \in Nat
        /\ \A k \in DOMAIN c.tiers : c.tiers[k].samples \in 0..MaxSamples
    <3>1. MaxSamples \in Nat
      BY ConfigsAssumption
    <3>2. \A k \in DOMAIN c.tiers : c.tiers[k] \in Tier
      <4> HIDE DEF Tier
      <4> QED BY <2>1
    <3> QED BY <3>1, <3>2
  <2>3. c.tiers # <<>> /\ \A k \in DOMAIN c.tiers : c.tiers[k].samples >= 1
    BY DEF Consistent
  <2>4. 1 \in DOMAIN c.tiers
    BY <2>1, <2>3
  <2>5. \A k \in DOMAIN c.tiers : c.tiers[k].samples \in 1..MaxSamples
    <3>1. \A v \in 0..MaxSamples : v >= 1 => v \in 1..MaxSamples
      BY <2>2, Positive, Zenon
    <3> QED BY <2>2, <2>3, <3>1, Zenon
  <2> QED BY <2>2, <2>4, <2>5 DEF Fanouts
<1> DEFINE lo == CHOOSE n \in Fanouts(c) : \A m \in Fanouts(c) : n <= m
           hi == CHOOSE n \in Fanouts(c) : \A m \in Fanouts(c) : m <= n
<1>2. lo \in Fanouts(c) /\ \A m \in Fanouts(c) : lo <= m
  <2>1. Fanouts(c) \in SUBSET Nat
    BY <1>1
  <2> QED BY <1>1, <2>1, NatMin
<1>3. hi \in Fanouts(c) /\ \A m \in Fanouts(c) : m <= hi
  <2>1. Fanouts(c) \in SUBSET (0..MaxSamples)
    BY <1>1
  <2> QED BY <1>1, <2>1, NatMax
<1>4. DefaultAdmitScore(c) = UnanimousScore(lo) /\ MaxAttainableScore(c) = UnanimousScore(hi)
  BY DEF DefaultAdmitScore, MaxAttainableScore
<1> HIDE DEF lo, hi
<1>5. \A n : UnanimousScore(n) \in 0..100
  BY WilsonIsPercentage DEF UnanimousScore
<1>6. ASSUME NEW n \in Fanouts(c)
      PROVE  /\ UnanimousScore(lo) <= UnanimousScore(n)
             /\ UnanimousScore(n) <= UnanimousScore(hi)
  <2>1. n \in Nat \ {0} /\ lo \in Nat \ {0} /\ hi \in Nat \ {0} /\ lo <= n /\ n <= hi
    BY <1>1, <1>2, <1>3
  <2> QED BY <2>1, UnanimityGrows
<1> QED BY <1>1, <1>3, <1>4, <1>5, <1>6

\* What loading a file does to its admission score, and when it is refused for it.
LEMMA LoadedScore ==
  ASSUME NEW c \in Configs, Consistent(c), c.cacheDir # ""
  PROVE  /\ Load(c).admit = IF c.admit = 0 THEN DefaultAdmitScore(c) ELSE c.admit
         /\ Load(c).admit \in 0..100
         /\ Validate(Load(c)) <=> Load(c).admit <= MaxAttainableScore(c)
<1>1. /\ Load(c).admit = IF c.admit = 0 THEN DefaultAdmitScore(c) ELSE c.admit
      /\ Load(c).tiers = c.tiers /\ Load(c).alpha = c.alpha /\ Load(c).budget = c.budget
      /\ Load(c).planner = c.planner /\ Load(c).testModel = c.testModel
      /\ Load(c).cacheDir = c.cacheDir
  BY ConfigsAssumption DEF Load
<1>2. Consistent(Load(c)) /\ MaxAttainableScore(Load(c)) = MaxAttainableScore(c)
  BY <1>1 DEF Consistent, MaxAttainableScore, Fanouts
<1>3. c.admit \in 0..100
  BY ConfigsAssumption
<1>4. DefaultAdmitScore(c) \in 0..100 /\ MaxAttainableScore(c) \in 0..100
  BY AdmissionScores
<1>5. Load(c).admit \in 0..100
  BY <1>1, <1>3, <1>4
<1>6. AdmissionReachable(Load(c)) <=> Load(c).admit <= MaxAttainableScore(c)
  <2>1. AdmissionReachable(Load(c))
          <=> (Load(c).admit > 0 => Load(c).admit <= MaxAttainableScore(c))
    BY <1>1, <1>2 DEF AdmissionReachable
  <2>2. \A v \in 0..100 : 0 <= v /\ (v # 0 => v > 0)
    <3>1. 100 \in Nat
      OBVIOUS
    <3> QED BY <3>1, Positive, Zenon
  <2>3. CASE Load(c).admit = 0
    BY <1>4, <2>1, <2>2, <2>3, Zenon
  <2>4. CASE Load(c).admit # 0
    <3>1. Load(c).admit > 0
      BY <1>5, <2>2, <2>4, Zenon
    <3> QED BY <2>1, <3>1, Zenon
  <2> QED BY <2>3, <2>4
<1> QED BY <1>1, <1>2, <1>5, <1>6 DEF Validate

\* Of any configuration the loader accepts, the cache can be written: an agreeing
\* fan-out of any tier is admitted under a derived score, and an explicit one is
\* refused exactly when no fan-out of any tier could reach it.
THEOREM AdmissionIsReachable == Spec => []EveryTierCanAdmit
<1> DEFINE T == cands \in Seq(Candidates)
<1>1. Init => T
  BY DEF Init
<1>2. T /\ [Next]_cands => T'
  BY DEF Next, Draw
<1>3. T => EveryTierCanAdmit
  <2> SUFFICES ASSUME T, NEW a \in Admissions, Len(cands) \in a.fanouts
               PROVE  /\ a.derived =>
                           /\ a.valid
                           /\ Winners(cands) = {DOMAIN cands} => Score(cands) >= a.admit
                      /\ ~a.valid => Score(cands) < a.admit
                      /\ a.valid => \E n \in a.fanouts : UnanimousScore(n) >= a.admit
    BY DEF EveryTierCanAdmit
  <2>1. PICK c \in Configs :
          /\ c.cacheDir # "" /\ Consistent(c)
          /\ a = [fanouts |-> Fanouts(c), admit |-> Load(c).admit,
                  derived |-> c.admit = 0, valid |-> Validate(Load(c))]
    BY DEF Admissions
  <2>2. /\ a.fanouts = Fanouts(c) /\ a.admit = Load(c).admit
        /\ a.derived <=> c.admit = 0
        /\ a.valid <=> Validate(Load(c))
    BY <2>1, Zenon
  <2> DEFINE n == Len(cands)
             max == MaxAttainableScore(c)
  <2>3. /\ n \in 1..MaxSamples /\ max \in 0..100 /\ DefaultAdmitScore(c) \in 0..100
        /\ DefaultAdmitScore(c) <= UnanimousScore(n) /\ UnanimousScore(n) <= max
        /\ DefaultAdmitScore(c) <= max
    <3>1. n \in Fanouts(c)
      BY <2>2
    <3>2. /\ max \in 0..100 /\ DefaultAdmitScore(c) \in 0..100 /\ n \in 1..MaxSamples
          /\ DefaultAdmitScore(c) <= UnanimousScore(n) /\ UnanimousScore(n) <= max
      BY <2>1, <3>1, AdmissionScores
    <3>3. UnanimousScore(n) \in 0..100
      BY WilsonIsPercentage DEF UnanimousScore
    <3>4. \A x, y, z \in 0..100 : x <= y /\ y <= z => x <= z
      OBVIOUS
    <3> QED BY <3>2, <3>3, <3>4, Zenon
  <2>4. /\ a.admit = IF c.admit = 0 THEN DefaultAdmitScore(c) ELSE c.admit
        /\ a.admit \in 0..100
        /\ a.valid <=> a.admit <= max
    BY <2>1, <2>2, LoadedScore, Zenon
  <2>5. Score(cands) \in 0..100 /\ UnanimousScore(n) \in 0..100 /\ Score(cands) <= UnanimousScore(n)
    BY ScoreIsPercentage, UnanimityBounds, WilsonIsPercentage DEF UnanimousScore
  <2>6. Winners(cands) = {DOMAIN cands} => Score(cands) = UnanimousScore(n)
    <3> SUFFICES ASSUME Winners(cands) = {DOMAIN cands}
                 PROVE  Score(cands) = UnanimousScore(n)
      OBVIOUS
    <3>1. DOMAIN cands \in Winners(cands)
      OBVIOUS
    <3>2. Score(cands) = WilsonLCB(Cardinality(DOMAIN cands), Len(cands))
      BY <3>1, ScoreOfWinner
    <3>3. DOMAIN cands = 1..Len(cands) /\ Len(cands) \in Nat
      OBVIOUS
    <3>4. Cardinality(DOMAIN cands) = Len(cands)
      BY <3>3, IntervalSize
    <3> QED BY <3>2, <3>4 DEF UnanimousScore
  <2> HIDE DEF n, max
  <2>7. a.derived => a.admit = DefaultAdmitScore(c)
    BY <2>2, <2>4
  <2>8. a.derived => a.valid /\ (Winners(cands) = {DOMAIN cands} => Score(cands) >= a.admit)
    BY <2>3, <2>4, <2>6, <2>7
  <2>9. ~a.valid => Score(cands) < a.admit
    <3>1. \A s, u, x, y \in 0..100 : s <= u /\ u <= x /\ ~(y <= x) => s < y
      OBVIOUS
    <3> QED BY <2>3, <2>4, <2>5, <3>1, Zenon
  <2>10. a.valid => \E m \in a.fanouts : UnanimousScore(m) >= a.admit
    <3>1. PICK m \in Fanouts(c) : max = UnanimousScore(m)
      BY <2>1, AdmissionScores DEF max
    <3> QED BY <2>2, <2>3, <2>4, <3>1
  <2> QED BY <2>8, <2>9, <2>10
<1> QED BY <1>1, <1>2, <1>3, PTL DEF Spec

-----------------------------------------------------------------------------
(* The vote on texts.                                                      *)

\* A non-empty set of naturals has a least member.
LEMMA Least ==
  ASSUME NEW T \in SUBSET Nat, T # {}
  PROVE  \E m \in T : \A n \in T : m <= n
<1>1. PICK m \in T : \A n \in T : ~(<<n, m>> \in OpToRel(<, Nat))
  BY WFMin, NatLessThanWellFounded
<1>2. \A n \in T : ~(n < m)
  BY <1>1 DEF OpToRel
<1>3. \A n \in T : n \in Int /\ m \in Int
  OBVIOUS
<1> QED BY <1>2, <1>3

\* Induction up to a number, for a set.
LEMMA UpTo ==
  ASSUME NEW n \in Nat, NEW P, 0 \in P, \A k \in 1..n : k - 1 \in P => k \in P
  PROVE  \A k \in 0..n : k \in P
<1> SUFFICES ASSUME NEW z \in 0..n, z \notin P
             PROVE  FALSE
  OBVIOUS
<1> DEFINE Bad == {k \in 0..n : k \notin P}
<1>1. Bad \in SUBSET Nat /\ Bad # {}
  OBVIOUS
<1>2. PICK k \in Bad : \A l \in Bad : k <= l
  <2> HIDE DEF Bad
  <2> QED BY <1>1, Least
<1>3. k \in 1..n /\ k - 1 \in 0..n /\ ~(k <= k - 1)
  BY <1>2
<1>4. k - 1 \in P
  BY <1>2, <1>3
<1> QED BY <1>2, <1>3, <1>4

\* The two steps of the vote: another member, or another class that may be larger.
Step(kind, p, a, x) == IF kind = "enter" THEN Enter(p, a, x) ELSE Better(p, a, x)

\* The recursion by which a fold goes from left to right.
FoldBody(kind, p, base, seq, g, s) ==
  IF s = {} THEN base
  ELSE Step(kind, p, g[s \ {Max(s)}], seq[Max(s)])

\* A solution of the recursion, which is what a fold is taken from.
Folded(kind, p, base, seq, D) ==
  CHOOSE g : g = [s \in SUBSET D |-> FoldBody(kind, p, base, seq, g, s)]

\* Some of the first n numbers have a greatest, the first k of them have k.
LEMMA MaxOfSome ==
  ASSUME NEW n \in Nat, NEW s \in SUBSET (1..n), s # {}
  PROVE  Max(s) \in s /\ \A y \in s : Max(s) >= y
<1> DEFINE T == {n - x : x \in s}
<1>1. T \in SUBSET Nat /\ T # {}
  <2>1. \A x \in s : x \in 1..n /\ n - x \in Nat
    OBVIOUS
  <2>2. PICK x \in s : TRUE
    OBVIOUS
  <2>3. n - x \in T
    OBVIOUS
  <2>4. T \subseteq Nat
    BY <2>1
  <2> QED BY <2>3, <2>4
<1>2. PICK m \in T : \A l \in T : m <= l
  <2> HIDE DEF T
  <2> QED BY <1>1, Least
<1>3. PICK x \in s : m = n - x
  BY <1>2
<1>4. \A y \in s : x >= y
  <2> SUFFICES ASSUME NEW y \in s
               PROVE  x >= y
    OBVIOUS
  <2>1. n - x <= n - y
    BY <1>2, <1>3
  <2>2. x \in 1..n /\ y \in 1..n
    OBVIOUS
  <2> QED BY <2>1, <2>2
<1> QED BY <1>4, Zenon DEF Max

LEMMA MaxOfInterval ==
  ASSUME NEW k \in Nat \ {0}
  PROVE  Max(1..k) = k
<1>1. k \in 1..k /\ 1..k \in SUBSET (1..k) /\ 1..k # {}
  OBVIOUS
<1>2. Max(1..k) \in 1..k /\ \A j \in 1..k : Max(1..k) >= j
  BY <1>1, MaxOfSome
<1> QED BY <1>1, <1>2

\* The recursion has a solution: a solution for the sets of less than k positions gives
\* one for those of k.
LEMMA FoldsExist ==
  ASSUME NEW kind, NEW p, NEW base, NEW seq, NEW n \in Nat
  PROVE  \A s \in SUBSET (1..n) :
           Folded(kind, p, base, seq, 1..n)[s]
             = FoldBody(kind, p, base, seq, Folded(kind, p, base, seq, 1..n), s)
<1> DEFINE D == 1..n
           B(g, s) == FoldBody(kind, p, base, seq, g, s)
           Small(k) == {s \in SUBSET D : Cardinality(s) <= k}
           P == {k \in Nat : \E g : g = [s \in Small(k) |-> B(g, s)]}
<1>1. \A s \in SUBSET D : IsFiniteSet(s) /\ Cardinality(s) \in Nat /\ Cardinality(s) <= n
  <2>1. IsFiniteSet(D) /\ Cardinality(D) = n
    <3>1. 1 \in Int /\ n \in Int
      OBVIOUS
    <3> QED BY <3>1, FS_Interval
  <2> HIDE DEF D
  <2> QED BY <2>1, FS_Subset, FS_CardinalityType
<1>2. 0 \in P
  <2> DEFINE g == [s \in Small(0) |-> base]
  <2>1. \A s \in Small(0) : s = {}
    BY <1>1, FS_EmptySet
  <2>2. \A s \in Small(0) : B(g, s) = base
    <3>1. B(g, {}) = base
      BY Zenon DEF FoldBody
    <3> HIDE DEF g, Small, B
    <3> QED BY <2>1, <3>1
  <2>3. g = [s \in Small(0) |-> B(g, s)]
    <3> HIDE DEF Small, B
    <3> QED BY <2>2
  <2>4. \E h : h = [s \in Small(0) |-> B(h, s)]
    <3> HIDE DEF g, Small, B
    <3> QED BY <2>3
  <2> QED BY <2>4
<1>3. ASSUME NEW k \in 1..n, k - 1 \in P
      PROVE  k \in P
  <2>1. PICK g : g = [s \in Small(k - 1) |-> B(g, s)]
    BY <1>3
  <2> DEFINE h == [s \in Small(k) |-> B(g, s)]
  <2>2. ASSUME NEW s \in Small(k)
        PROVE  B(g, s) = B(h, s)
    <3>1. CASE s = {}
      BY <3>1 DEF FoldBody
    <3>2. CASE s # {}
      <4> DEFINE x == Max(s)
                 r == s \ {x}
      <4>1. x \in s
        BY <3>2, MaxOfSome
      <4>2. r \in SUBSET D /\ Cardinality(r) = Cardinality(s) - 1
        BY <1>1, <4>1, FS_RemoveElement
      <4>3. r \in Small(k) /\ r \in Small(k - 1)
        BY <1>1, <4>2
      <4>4. h[r] = B(g, r) /\ g[r] = B(g, r)
        <5> HIDE DEF r, Small, B
        <5> QED BY <2>1, <4>3
      <4>5. /\ B(g, s) = Step(kind, p, g[r], seq[x])
            /\ B(h, s) = Step(kind, p, h[r], seq[x])
        <5> HIDE DEF h
        <5> QED BY <3>2, Zenon DEF FoldBody
      <4> QED BY <4>4, <4>5, Zenon
    <3> QED BY <3>1, <3>2
  <2>3. h = [s \in Small(k) |-> B(h, s)]
    <3> HIDE DEF Small, B
    <3> QED BY <2>2
  <2>4. \E f : f = [s \in Small(k) |-> B(f, s)]
    <3> HIDE DEF h, Small, B
    <3> QED BY <2>3
  <2> QED BY <2>4
<1>4. n \in P
  <2> HIDE DEF P
  <2>1. \A k \in 0..n : k \in P
    BY <1>2, <1>3, UpTo
  <2> QED BY <2>1
<1>5. Small(n) = SUBSET D
  BY <1>1
<1>6. \E g : g = [s \in Small(n) |-> B(g, s)]
  BY <1>4
<1> HIDE DEF Small, B, P
<1>7. \E g : g = [s \in SUBSET D |-> B(g, s)]
  BY <1>5, <1>6
<1> HIDE DEF D
<1>8. Folded(kind, p, base, seq, D)
        = [s \in SUBSET D |-> FoldBody(kind, p, base, seq, Folded(kind, p, base, seq, D), s)]
  BY <1>7, Zenon DEF Folded, B
<1> DEFINE h == Folded(kind, p, base, seq, D)
<1> HIDE DEF h
<1>9. h = [s \in SUBSET D |-> FoldBody(kind, p, base, seq, h, s)]
  BY <1>8, Zenon DEF h
<1>10. \A s \in SUBSET D : h[s] = FoldBody(kind, p, base, seq, h, s)
  BY <1>9
<1> QED BY <1>10 DEF D, h

\* What is known of a fold: its value on the first k elements.
Unfolds(g, kind, p, base, seq, n) ==
  /\ g[1..0] = base
  /\ \A k \in 1..n : g[1..k] = Step(kind, p, g[1..(k - 1)], seq[k])

LEMMA FoldsByPrefix ==
  ASSUME NEW kind, NEW p, NEW base, NEW seq, NEW n \in Nat
  PROVE  Unfolds(Folded(kind, p, base, seq, 1..n), kind, p, base, seq, n)
<1> DEFINE g == Folded(kind, p, base, seq, 1..n)
<1>2. \A s \in SUBSET (1..n) : g[s] = FoldBody(kind, p, base, seq, g, s)
  BY FoldsExist
<1> HIDE DEF g
<1>3. g[{}] = base
  BY <1>2, Zenon DEF FoldBody
<1>4. 1..0 = {}
  OBVIOUS
<1>5. ASSUME NEW k \in 1..n
      PROVE  g[1..k] = Step(kind, p, g[1..(k - 1)], seq[k])
  <2>1. 1..k \in SUBSET (1..n) /\ 1..k # {} /\ (1..k) \ {k} = 1..(k - 1) /\ k \in Nat \ {0}
    OBVIOUS
  <2>2. Max(1..k) = k
    BY <2>1, MaxOfInterval
  <2>3. FoldBody(kind, p, base, seq, g, 1..k)
          = Step(kind, p, g[(1..k) \ {Max(1..k)}], seq[Max(1..k)])
    BY <2>1, Zenon DEF FoldBody
  <2> QED BY <1>2, <2>1, <2>2, <2>3, Zenon
<1>6. Unfolds(g, kind, p, base, seq, n)
  BY <1>3, <1>4, <1>5 DEF Unfolds
<1> QED BY <1>6 DEF g

\* The two folds of the vote.
LEMMA TallyFolds ==
  ASSUME NEW cs, NEW order, NEW n \in Nat, DOMAIN order = 1..n
  PROVE  Tally(cs, order)
           = Folded("enter", cs, [keys |-> <<>>, group |-> <<>>], order, 1..n)[1..n]
BY Zenon DEF Tally, FoldLeft, MapThenFoldSet, Folded, FoldBody, Step

LEMMA LeaderFolds ==
  ASSUME NEW t, NEW n \in Nat, DOMAIN Tail(t.keys) = 1..n
  PROVE  Leader(t)
           = Folded("best", t.group, t.group[t.keys[1]], Tail(t.keys), 1..n)[1..n]
BY Zenon DEF Leader, FoldLeft, MapThenFoldSet, Folded, FoldBody, Step

\* The members of a class among the first k samples of an order.
Members(cs, o, k, q) == {o[j] : j \in {i \in 1..k : TextKey[cs[o[i]].source] = q}}

\* What sample k adds to the class of text q.
Grows(cs, o, n, k, q) ==
  /\ IsFiniteSet(Members(cs, o, k - 1, q)) /\ Members(cs, o, k - 1, q) \subseteq 1..n
  /\ TextKey[cs[o[k]].source] # q => Members(cs, o, k, q) = Members(cs, o, k - 1, q)
  /\ TextKey[cs[o[k]].source] = q =>
       /\ Members(cs, o, k, q) = Members(cs, o, k - 1, q) \cup {o[k]}
       /\ Cardinality(Members(cs, o, k, q)) = Cardinality(Members(cs, o, k - 1, q)) + 1

LEMMA MembersGrow ==
  ASSUME NEW cs, NEW n \in Nat, NEW o \in [1..n -> 1..n], IsInjective(o), NEW k \in 1..n, NEW q
  PROVE  Grows(cs, o, n, k, q)
<1> DEFINE Sel(m) == {i \in 1..m : TextKey[cs[o[i]].source] = q}
<1>1. Members(cs, o, k, q) = {o[j] : j \in Sel(k)}
  BY DEF Members
<1>2. Members(cs, o, k - 1, q) = {o[j] : j \in Sel(k - 1)}
  BY DEF Members
<1>3. Sel(k - 1) \subseteq 1..n /\ k \notin Sel(k - 1)
  OBVIOUS
<1>4. IsFiniteSet(Members(cs, o, k - 1, q)) /\ Members(cs, o, k - 1, q) \subseteq 1..n
  <2>1. IsFiniteSet(1..n)
    <3>1. 1 \in Int /\ n \in Int
      OBVIOUS
    <3> QED BY <3>1, FS_Interval
  <2>2. Members(cs, o, k - 1, q) \in SUBSET (1..n)
    BY <1>2, <1>3
  <2> QED BY <2>1, <2>2, FS_Subset
<1>5. CASE TextKey[cs[o[k]].source] # q
  <2>1. Sel(k) = Sel(k - 1)
    BY <1>5
  <2> HIDE DEF Sel
  <2> QED BY <1>1, <1>2, <1>4, <1>5, <2>1 DEF Grows
<1>6. CASE TextKey[cs[o[k]].source] = q
  <2>1. Sel(k) = Sel(k - 1) \cup {k}
    BY <1>6
  <2>2. Members(cs, o, k, q) = Members(cs, o, k - 1, q) \cup {o[k]}
    <3> HIDE DEF Sel
    <3> QED BY <1>1, <1>2, <2>1
  <2>3. o[k] \notin Members(cs, o, k - 1, q)
    <3> SUFFICES ASSUME NEW j \in Sel(k - 1), o[j] = o[k]
                 PROVE  FALSE
      BY <1>2
    <3>1. j = k
      <4>1. j \in DOMAIN o /\ k \in DOMAIN o
        BY <1>3
      <4> QED BY <4>1 DEF IsInjective
    <3> QED BY <1>3, <3>1
  <2>4. Cardinality(Members(cs, o, k, q)) = Cardinality(Members(cs, o, k - 1, q)) + 1
    BY <1>4, <2>2, <2>3, FS_AddElement
  <2> QED BY <1>4, <1>6, <2>2, <2>4 DEF Grows
<1> QED BY <1>5, <1>6

\* What the tally holds after the first k samples: a class for each text that came, with its
\* size and its first member.
TallyIs(cs, o, k, keys, group) ==
  /\ \E m \in Nat : DOMAIN keys = 1..m /\ Len(keys) = m /\ keys \in Seq(DOMAIN group)
  /\ {keys[i] : i \in DOMAIN keys} = DOMAIN group
  /\ DOMAIN group = {TextKey[cs[o[j]].source] : j \in 1..k}
  /\ \A q \in DOMAIN group :
       /\ group[q] = [n |-> Cardinality(Members(cs, o, k, q)), rep |-> group[q].rep]
       /\ group[q].rep \in Members(cs, o, k, q)
       /\ \A x \in Members(cs, o, k, q) : group[q].rep <= x

\* The tally as a record.
Classes(keys, group) == [keys |-> keys, group |-> group]

\* The classes after one more member, of a class that was seen or of a new one.
GroupSeen(group, q, i) ==
  [group EXCEPT ![q] = [n |-> group[q].n + 1, rep |-> Lower(group[q].rep, i)]]

GroupNew(group, q, i) ==
  [x \in DOMAIN group \cup {q} |-> IF x = q THEN [n |-> 1, rep |-> i] ELSE group[x]]

LEMMA EnterSeen ==
  ASSUME NEW cs, NEW keys, NEW group, NEW i, NEW q, q = TextKey[cs[i].source],
         q \in DOMAIN group
  PROVE  Enter(cs, Classes(keys, group), i)
           = Classes(keys, GroupSeen(group, q, i))
BY DEF Enter, RepOf, GroupSeen, Classes

LEMMA EnterNew ==
  ASSUME NEW cs, NEW keys, NEW group, NEW i, NEW q, q = TextKey[cs[i].source],
         q \notin DOMAIN group
  PROVE  Enter(cs, Classes(keys, group), i)
           = Classes(Append(keys, q), GroupNew(group, q, i))
BY DEF Enter, GroupNew, Classes

LEMMA TallySeen ==
  ASSUME NEW cs, NEW n \in Nat, NEW o \in [1..n -> 1..n], IsInjective(o), NEW k \in 1..n,
         NEW keys, NEW group, TallyIs(cs, o, k - 1, keys, group),
         NEW q, q = TextKey[cs[o[k]].source], q \in DOMAIN group
  PROVE  TallyIs(cs, o, k, keys, GroupSeen(group, q, o[k]))
<1> DEFINE new == [n |-> group[q].n + 1, rep |-> Lower(group[q].rep, o[k])]
           g == [group EXCEPT ![q] = new]
<1>0. \A z : Grows(cs, o, n, k, z)
  BY MembersGrow
<1>1. /\ DOMAIN g = DOMAIN group /\ g[q] = new
      /\ \A x \in DOMAIN group : x # q => g[x] = group[x]
  OBVIOUS
<1>2. /\ new = [n |-> new.n, rep |-> new.rep]
      /\ new.n = group[q].n + 1 /\ new.rep = Lower(group[q].rep, o[k])
  OBVIOUS
<1> HIDE DEF new, g
<1>3. /\ \E m \in Nat : DOMAIN keys = 1..m /\ Len(keys) = m /\ keys \in Seq(DOMAIN g)
      /\ {keys[i] : i \in DOMAIN keys} = DOMAIN g
  BY <1>1, Zenon DEF TallyIs
<1>4. DOMAIN g = {TextKey[cs[o[j]].source] : j \in 1..k}
  <2>1. DOMAIN group = {TextKey[cs[o[j]].source] : j \in 1..(k - 1)}
    BY DEF TallyIs
  <2>2. \A j \in 1..k : j = k \/ j \in 1..(k - 1)
    OBVIOUS
  <2>3. \A j \in 1..(k - 1) : j \in 1..k
    OBVIOUS
  <2>4. k \in 1..k
    OBVIOUS
  <2>5. \A z \in DOMAIN g : \E j \in 1..k : z = TextKey[cs[o[j]].source]
    <3> TAKE z \in DOMAIN g
    <3>1. z \in {TextKey[cs[o[j]].source] : j \in 1..(k - 1)}
      BY <1>1, <2>1, Zenon
    <3>2. PICK j \in 1..(k - 1) : z = TextKey[cs[o[j]].source]
      BY <3>1, Zenon
    <3> QED BY <2>3, <3>2, Zenon
  <2>6. \A j \in 1..k : TextKey[cs[o[j]].source] \in DOMAIN g
    BY <1>1, <2>1, <2>2
  <2> QED BY <2>5, <2>6, Zenon
<1>5. ASSUME NEW x \in DOMAIN g
      PROVE  /\ g[x] = [n |-> Cardinality(Members(cs, o, k, x)), rep |-> g[x].rep]
             /\ g[x].rep \in Members(cs, o, k, x)
             /\ \A y \in Members(cs, o, k, x) : g[x].rep <= y
  <2>1. /\ group[x] = [n |-> Cardinality(Members(cs, o, k - 1, x)), rep |-> group[x].rep]
        /\ group[x].rep \in Members(cs, o, k - 1, x)
        /\ \A y \in Members(cs, o, k - 1, x) : group[x].rep <= y
    BY <1>1 DEF TallyIs
  <2>2. CASE x # q
    <3>1. Members(cs, o, k, x) = Members(cs, o, k - 1, x)
      BY <2>2, <1>0 DEF Grows
    <3> QED BY <1>1, <2>1, <2>2, <3>1
  <2>3. CASE x = q
    <3>1. /\ Members(cs, o, k, x) = Members(cs, o, k - 1, x) \cup {o[k]}
          /\ Cardinality(Members(cs, o, k, x)) = Cardinality(Members(cs, o, k - 1, x)) + 1
          /\ Members(cs, o, k - 1, x) \subseteq 1..n
      BY <2>3, <1>0 DEF Grows
    <3>2. group[x].n = Cardinality(Members(cs, o, k - 1, x))
      <4>1. \A a, b : [n |-> a, rep |-> b].n = a
        OBVIOUS
      <4> QED BY <2>1, <4>1, Zenon
    <3>3. g[x] = [n |-> Cardinality(Members(cs, o, k, x)), rep |-> g[x].rep]
      BY <1>1, <1>2, <2>3, <3>1, <3>2, Zenon
    <3>4. g[x].rep = Lower(group[x].rep, o[k])
      BY <1>1, <1>2, <2>3
    <3>5. g[x].rep \in Members(cs, o, k, x) /\ \A y \in Members(cs, o, k, x) : g[x].rep <= y
      <4>1. group[x].rep \in 1..n /\ o[k] \in 1..n
        BY <2>1, <3>1
      <4>2. \A y \in Members(cs, o, k - 1, x) : y \in 1..n /\ group[x].rep <= y
        BY <2>1, <3>1
      <4>3. CASE group[x].rep < o[k]
        <5>1. g[x].rep = group[x].rep
          BY <3>4, <4>3 DEF Lower
        <5> QED BY <2>1, <3>1, <4>1, <4>2, <4>3, <5>1
      <4>4. CASE ~(group[x].rep < o[k])
        <5>1. g[x].rep = o[k]
          BY <3>4, <4>4 DEF Lower
        <5>2. o[k] \in Members(cs, o, k, x)
          BY <3>1
        <5>3. \A y \in Members(cs, o, k, x) : o[k] <= y
          <6>1. \A y \in Members(cs, o, k - 1, x) : o[k] <= y
            <7>1. \A r, d, y \in 1..n : r <= y /\ ~(r < d) => d <= y
              OBVIOUS
            <7> QED BY <4>1, <4>2, <4>4, <7>1, Zenon
          <6>2. o[k] <= o[k]
            BY <4>1
          <6>3. \A y \in Members(cs, o, k, x) : y \in Members(cs, o, k - 1, x) \/ y = o[k]
            BY <3>1
          <6> QED BY <6>1, <6>2, <6>3, Zenon
        <5> QED BY <5>1, <5>2, <5>3
      <4> QED BY <4>3, <4>4
    <3> QED BY <3>3, <3>5
  <2> QED BY <2>2, <2>3
<1>6. TallyIs(cs, o, k, keys, g)
  BY <1>3, <1>4, <1>5 DEF TallyIs
<1> QED BY <1>6 DEF g, new, GroupSeen

LEMMA TallyNew ==
  ASSUME NEW cs, NEW n \in Nat, NEW o \in [1..n -> 1..n], IsInjective(o), NEW k \in 1..n,
         NEW keys, NEW group, TallyIs(cs, o, k - 1, keys, group),
         NEW q, q = TextKey[cs[o[k]].source], q \notin DOMAIN group
  PROVE  TallyIs(cs, o, k, Append(keys, q), GroupNew(group, q, o[k]))
<1> DEFINE new == [n |-> 1, rep |-> o[k]]
           g == [x \in DOMAIN group \cup {q} |-> IF x = q THEN new ELSE group[x]]
           longer == Append(keys, q)
<1>0. \A z : Grows(cs, o, n, k, z)
  BY MembersGrow
<1>1. /\ DOMAIN g = DOMAIN group \cup {q} /\ g[q] = new
      /\ \A x \in DOMAIN group : x # q /\ g[x] = group[x]
  OBVIOUS
<1>2. new = [n |-> 1, rep |-> new.rep] /\ new.rep = o[k]
  OBVIOUS
<1> HIDE DEF new, g
<1>3. PICK m \in Nat : DOMAIN keys = 1..m /\ Len(keys) = m /\ keys \in Seq(DOMAIN group)
  BY DEF TallyIs
<1>4. /\ DOMAIN longer = 1..(m + 1) /\ Len(longer) = m + 1 /\ longer \in Seq(DOMAIN g)
      /\ longer[m + 1] = q /\ \A i \in 1..m : longer[i] = keys[i]
  <2>1. keys \in Seq(DOMAIN g) /\ q \in DOMAIN g
    BY <1>1, <1>3
  <2> QED BY <1>3, <2>1
<1>5. {longer[i] : i \in DOMAIN longer} = DOMAIN g
  <2>1. {keys[i] : i \in DOMAIN keys} = DOMAIN group
    BY DEF TallyIs
  <2>2. \A i \in 1..(m + 1) : i = m + 1 \/ i \in 1..m
    OBVIOUS
  <2>3. m + 1 \in 1..(m + 1) /\ \A i \in 1..m : i \in 1..(m + 1)
    OBVIOUS
  <2> HIDE DEF longer
  <2>4. \A x \in DOMAIN g : \E i \in 1..(m + 1) : longer[i] = x
    <3>1. \A x \in DOMAIN group : \E i \in 1..m : keys[i] = x
      BY <1>3, <2>1
    <3> QED BY <1>1, <1>4, <2>3, <3>1
  <2>5. \A i \in 1..(m + 1) : longer[i] \in DOMAIN g
    <3>1. \A i \in 1..m : keys[i] \in DOMAIN group
      BY <1>3, <2>1
    <3> QED BY <1>1, <1>4, <2>2, <3>1
  <2>6. DOMAIN longer = 1..(m + 1)
    BY <1>4
  <2> QED BY <2>4, <2>5, <2>6, Zenon
<1>6. DOMAIN g = {TextKey[cs[o[j]].source] : j \in 1..k}
  <2>1. DOMAIN group = {TextKey[cs[o[j]].source] : j \in 1..(k - 1)}
    BY DEF TallyIs
  <2>2. \A j \in 1..k : j = k \/ j \in 1..(k - 1)
    OBVIOUS
  <2>3. \A j \in 1..(k - 1) : j \in 1..k
    OBVIOUS
  <2>4. k \in 1..k
    OBVIOUS
  <2> QED BY <1>1, <2>1, <2>2, <2>3, <2>4
<1>7. Members(cs, o, k - 1, q) = {}
  <2>1. \A j \in 1..(k - 1) : TextKey[cs[o[j]].source] \in DOMAIN group
    BY DEF TallyIs
  <2> QED BY <1>1, <2>1 DEF Members
<1>8. ASSUME NEW x \in DOMAIN g
      PROVE  /\ g[x] = [n |-> Cardinality(Members(cs, o, k, x)), rep |-> g[x].rep]
             /\ g[x].rep \in Members(cs, o, k, x)
             /\ \A y \in Members(cs, o, k, x) : g[x].rep <= y
  <2>1. CASE x # q
    <3>1. Members(cs, o, k, x) = Members(cs, o, k - 1, x)
      BY <2>1, <1>0 DEF Grows
    <3>2. x \in DOMAIN group
      BY <1>1, <2>1
    <3>3. /\ group[x] = [n |-> Cardinality(Members(cs, o, k - 1, x)), rep |-> group[x].rep]
          /\ group[x].rep \in Members(cs, o, k - 1, x)
          /\ \A y \in Members(cs, o, k - 1, x) : group[x].rep <= y
      BY <3>2 DEF TallyIs
    <3> QED BY <1>1, <3>1, <3>2, <3>3
  <2>2. CASE x = q
    <3>1. Members(cs, o, k, x) = {o[k]} /\ Cardinality(Members(cs, o, k, x)) = 1
      <4>1. Members(cs, o, k, x) = Members(cs, o, k - 1, x) \cup {o[k]}
        BY <2>2, <1>0 DEF Grows
      <4>2. Members(cs, o, k, x) = {o[k]}
        BY <1>7, <2>2, <4>1
      <4> QED BY <4>2, FS_Singleton
    <3>2. g[x] = [n |-> Cardinality(Members(cs, o, k, x)), rep |-> g[x].rep]
      BY <1>1, <1>2, <2>2, <3>1, Zenon
    <3>3. g[x].rep = o[k] /\ o[k] \in 1..n
      BY <1>1, <1>2, <2>2
    <3>4. o[k] <= o[k]
      BY <3>3
    <3> QED BY <3>1, <3>2, <3>3, <3>4
  <2> QED BY <2>1, <2>2
<1>9. TallyIs(cs, o, k, longer, g)
  <2> HIDE DEF longer
  <2>1. m + 1 \in Nat
    OBVIOUS
  <2> QED BY <1>4, <1>5, <1>6, <1>8, <2>1 DEF TallyIs
<1> QED BY <1>9 DEF g, new, longer, GroupNew

\* What the tally holds in the end.
LEMMA TallyRight ==
  ASSUME NEW cs, NEW n \in Nat, NEW o \in [1..n -> 1..n], IsInjective(o)
  PROVE  \E keys, group : /\ Tally(cs, o) = Classes(keys, group)
                          /\ TallyIs(cs, o, n, keys, group)
<1> DEFINE start == [keys |-> <<>>, group |-> <<>>]
           F == Folded("enter", cs, start, o, 1..n)
           P == {k \in Nat : \E keys, group : /\ F[1..k] = Classes(keys, group)
                                              /\ TallyIs(cs, o, k, keys, group)}
<1>1. Unfolds(F, "enter", cs, start, o, n)
  BY FoldsByPrefix
<1>2. Tally(cs, o) = F[1..n]
  <2>1. DOMAIN o = 1..n
    OBVIOUS
  <2> QED BY <2>1, TallyFolds
<1> HIDE DEF F
<1>3. 0 \in P
  <2>1. TallyIs(cs, o, 0, <<>>, <<>>)
    <3>1. DOMAIN <<>> = 1..0 /\ Len(<<>>) = 0 /\ 0 \in Nat /\ 1..0 = {}
      OBVIOUS
    <3>2. <<>> \in Seq(DOMAIN <<>>)
      OBVIOUS
    <3> QED BY <3>1, <3>2 DEF TallyIs
  <2>2. F[1..0] = Classes(<<>>, <<>>)
    BY <1>1, Zenon DEF Unfolds, Classes
  <2> QED BY <2>1, <2>2
<1>4. ASSUME NEW k \in 1..n, k - 1 \in P
      PROVE  k \in P
  <2>1. PICK keys, group : /\ F[1..(k - 1)] = Classes(keys, group)
                           /\ TallyIs(cs, o, k - 1, keys, group)
    BY <1>4
  <2>2. F[1..k] = Enter(cs, Classes(keys, group), o[k])
    BY <1>1, <2>1, Zenon DEF Unfolds, Step
  <2>3. PICK q : q = TextKey[cs[o[k]].source]
    OBVIOUS
  <2>4. \E ks, gr : F[1..k] = Classes(ks, gr) /\ TallyIs(cs, o, k, ks, gr)
    <3>1. CASE q \in DOMAIN group
      <4>1. F[1..k] = Classes(keys, GroupSeen(group, q, o[k]))
        <5>1. Enter(cs, Classes(keys, group), o[k]) = Classes(keys, GroupSeen(group, q, o[k]))
          BY <2>3, <3>1, EnterSeen
        <5> QED BY <2>2, <5>1, Zenon
      <4>2. TallyIs(cs, o, k, keys, GroupSeen(group, q, o[k]))
        BY <2>1, <2>3, <3>1, TallySeen
      <4> QED BY <4>1, <4>2, Zenon
    <3>2. CASE q \notin DOMAIN group
      <4>1. F[1..k] = Classes(Append(keys, q), GroupNew(group, q, o[k]))
        <5>1. Enter(cs, Classes(keys, group), o[k]) = Classes(Append(keys, q), GroupNew(group, q, o[k]))
          BY <2>3, <3>2, EnterNew
        <5> QED BY <2>2, <5>1, Zenon
      <4>2. TallyIs(cs, o, k, Append(keys, q), GroupNew(group, q, o[k]))
        BY <2>1, <2>3, <3>2, TallyNew
      <4> QED BY <4>1, <4>2, Zenon
    <3> QED BY <3>1, <3>2
  <2> QED BY <2>4
<1>5. n \in P
  <2> HIDE DEF P
  <2>1. \A k \in 0..n : k \in P
    BY <1>3, <1>4, UpTo
  <2> QED BY <2>1
<1> QED BY <1>2, <1>5

\* An order leaves no sample out.
LEMMA Onto ==
  ASSUME NEW n \in Nat, NEW o \in [1..n -> 1..n], IsInjective(o), NEW z \in 1..n
  PROVE  \E j \in 1..n : o[j] = z
<1> SUFFICES ASSUME \A j \in 1..n : o[j] # z
             PROVE  FALSE
  OBVIOUS
<1> DEFINE S == 1..n
           T == S \ {z}
<1>1. IsFiniteSet(S) /\ Cardinality(S) = n
  <2>1. 1 \in Int /\ n \in Int
    OBVIOUS
  <2> QED BY <2>1, FS_Interval
<1>2. IsFiniteSet(T) /\ Cardinality(T) = n - 1
  <2>1. z \in S
    OBVIOUS
  <2> HIDE DEF S
  <2> QED BY <1>1, <2>1, FS_RemoveElement
<1>3. o \in Injection(S, T)
  BY DEF Injection
<1>4. Cardinality(S) <= Cardinality(T)
  <2> HIDE DEF S, T
  <2> QED BY <1>2, <1>3, FS_Injection
<1> QED BY <1>1, <1>2, <1>4

\* The samples written as sample i is.
Alike(cs, n, i) == {j \in 1..n : TextKey[cs[j].source] = TextKey[cs[i].source]}

LEMMA WholeClass ==
  ASSUME NEW cs, NEW n \in Nat, NEW o \in [1..n -> 1..n], IsInjective(o), NEW i
  PROVE  Members(cs, o, n, TextKey[cs[i].source]) = Alike(cs, n, i)
<1>1. \A z \in 1..n : \E j \in 1..n : o[j] = z
  BY Onto
<1>2. \A j \in 1..n : o[j] \in 1..n
  OBVIOUS
<1> QED BY <1>1, <1>2, Zenon DEF Members, Alike

\* Which of two classes is larger is decided: it is a total order.
LEMMA BeatsOrders ==
  ASSUME NEW a, NEW b, NEW c, a.n \in Int, b.n \in Int, c.n \in Int,
         a.rep \in Int, b.rep \in Int, c.rep \in Int
  PROVE  /\ ~Beats(a, a)
         /\ Beats(a, b) => ~Beats(b, a)
         /\ ~Beats(c, b) /\ Beats(a, b) => ~Beats(c, a)
BY DEF Beats

LEMMA NotBeaten ==
  ASSUME NEW a, NEW b, a.n \in Int, b.n \in Int, a.rep \in Int, b.rep \in Int, ~Beats(a, b)
  PROVE  a.n <= b.n /\ (a.n = b.n => b.rep <= a.rep)
BY DEF Beats

\* The class the second fold ends with: one of them that none beats.
LEMMA BestRight ==
  ASSUME NEW group, NEW m \in Nat \ {0}, NEW keys, keys \in Seq(DOMAIN group), Len(keys) = m,
         \A q \in DOMAIN group : group[q].n \in Int /\ group[q].rep \in Int
  PROVE  \E i \in 1..m :
           /\ Leader(Classes(keys, group)) = group[keys[i]]
           /\ \A j \in 1..m : ~Beats(group[keys[j]], group[keys[i]])
<1> DEFINE l == m - 1
           rest == Tail(keys)
           F == Folded("best", group, group[keys[1]], rest, 1..l)
           P == {k \in Nat : \E i \in 1..(k + 1) :
                               /\ F[1..k] = group[keys[i]]
                               /\ \A j \in 1..(k + 1) : ~Beats(group[keys[j]], group[keys[i]])}
<1>1. l \in Nat /\ DOMAIN rest = 1..l /\ \A k \in 1..l : rest[k] = keys[k + 1]
  OBVIOUS
<1>2. \A j \in 1..m : /\ keys[j] \in DOMAIN group
                      /\ group[keys[j]].n \in Int /\ group[keys[j]].rep \in Int
  OBVIOUS
<1> HIDE DEF rest, l
<1>3. Unfolds(F, "best", group, group[keys[1]], rest, l)
  BY <1>1, FoldsByPrefix
<1>4. Leader(Classes(keys, group)) = F[1..l]
  <2> DEFINE t == Classes(keys, group)
  <2>1. t.keys = keys /\ t.group = group
    BY DEF Classes
  <2> HIDE DEF t
  <2>2. DOMAIN Tail(t.keys) = 1..l
    BY <1>1, <2>1 DEF rest
  <2>3. Leader(t) = Folded("best", t.group, t.group[t.keys[1]], Tail(t.keys), 1..l)[1..l]
    BY <1>1, <2>2, LeaderFolds
  <2> QED BY <2>1, <2>3 DEF t, rest
<1> HIDE DEF F
<1>5. F[1..0] = group[keys[1]]
      /\ \A k \in 1..l : F[1..k] = Better(group, F[1..(k - 1)], rest[k])
  <2>1. "best" # "enter"
    OBVIOUS
  <2> QED BY <1>3, <2>1, Zenon DEF Unfolds, Step
<1>6. 0 \in P
  <2>1. 1 \in 1..(0 + 1) /\ (\A j \in 1..(0 + 1) : j = 1) /\ 1 \in 1..m
    OBVIOUS
  <2>2. ~Beats(group[keys[1]], group[keys[1]])
    BY <1>2, <2>1 DEF Beats
  <2> QED BY <1>5, <2>1, <2>2
<1>7. ASSUME NEW k \in 1..l, k - 1 \in P
      PROVE  k \in P
  <2>1. k \in Nat /\ (k - 1) + 1 = k /\ k + 1 \in 1..m /\ \A j \in 1..k : j \in 1..m
    BY <1>1 DEF l
  <2>2. \A j \in 1..(k + 1) : j \in 1..m
    BY <2>1
  <2>3. PICK i \in 1..k : /\ F[1..(k - 1)] = group[keys[i]]
                          /\ \A j \in 1..k : ~Beats(group[keys[j]], group[keys[i]])
    BY <1>7, <2>1
  <2> DEFINE x == group[keys[k + 1]]
  <2>4. F[1..k] = IF Beats(x, group[keys[i]]) THEN x ELSE group[keys[i]]
    <3>1. F[1..k] = Better(group, F[1..(k - 1)], rest[k]) /\ rest[k] = keys[k + 1]
      BY <1>1, <1>5
    <3>2. F[1..k] = Better(group, group[keys[i]], keys[k + 1])
      BY <2>3, <3>1, Zenon
    <3> QED BY <3>2, Zenon DEF Better
  <2>5. i \in 1..(k + 1) /\ k + 1 \in 1..(k + 1) /\ \A j \in 1..(k + 1) : j \in 1..k \/ j = k + 1
    BY <2>1
  <2>6. CASE Beats(x, group[keys[i]])
    <3>1. \A j \in 1..(k + 1) : ~Beats(group[keys[j]], x)
      <4> SUFFICES ASSUME NEW j \in 1..(k + 1)
                   PROVE  ~Beats(group[keys[j]], x)
        OBVIOUS
      <4>1. i \in 1..m /\ j \in 1..m /\ k + 1 \in 1..m
        BY <2>1, <2>2, <2>5
      <4>2. CASE j = k + 1
        BY <1>2, <4>1, <4>2, BeatsOrders
      <4>3. CASE j \in 1..k
        <5>1. ~Beats(group[keys[j]], group[keys[i]])
          BY <2>3, <4>3
        <5> QED BY <1>2, <2>6, <4>1, <5>1, BeatsOrders
      <4> QED BY <2>5, <4>2, <4>3
    <3>2. F[1..k] = group[keys[k + 1]]
      BY <2>4, <2>6
    <3>3. \E y \in 1..(k + 1) : /\ F[1..k] = group[keys[y]]
                                /\ \A j \in 1..(k + 1) : ~Beats(group[keys[j]], group[keys[y]])
      BY <2>5, <3>1, <3>2, Zenon
    <3> QED BY <2>1, <3>3
  <2>7. CASE ~Beats(x, group[keys[i]])
    <3>1. \A j \in 1..(k + 1) : ~Beats(group[keys[j]], group[keys[i]])
      BY <2>3, <2>5, <2>7, Zenon
    <3>2. F[1..k] = group[keys[i]]
      BY <2>4, <2>7
    <3>3. \E y \in 1..(k + 1) : /\ F[1..k] = group[keys[y]]
                                /\ \A j \in 1..(k + 1) : ~Beats(group[keys[j]], group[keys[y]])
      BY <2>5, <3>1, <3>2, Zenon
    <3> QED BY <2>1, <3>3
  <2> QED BY <2>6, <2>7
<1>8. l \in P
  <2> HIDE DEF P
  <2>1. \A k \in 0..l : k \in P
    BY <1>1, <1>6, <1>7, UpTo
  <2> QED BY <1>1, <2>1
<1>9. l + 1 = m
  BY DEF l
<1> QED BY <1>4, <1>8, <1>9

\* The class the vote goes to, by its counts alone: no class outnumbers it, and of those of
\* its size none has an earlier member.
Elected(cs, n, v) ==
  /\ v = [n |-> v.n, rep |-> v.rep] /\ v.rep \in 1..n
  /\ v.n = Cardinality(Alike(cs, n, v.rep))
  /\ \A i \in 1..n : /\ Cardinality(Alike(cs, n, i)) <= v.n
                     /\ Cardinality(Alike(cs, n, i)) = v.n => v.rep <= i

\* Only one class is like that.
LEMMA ElectedOnce ==
  ASSUME NEW cs, NEW n \in Nat, NEW v, NEW w, Elected(cs, n, v), Elected(cs, n, w)
  PROVE  v = w
<1>1. \A i \in 1..n : Cardinality(Alike(cs, n, i)) \in Nat
  <2>1. IsFiniteSet(1..n)
    <3>1. 1 \in Int /\ n \in Int
      OBVIOUS
    <3> QED BY <3>1, FS_Interval
  <2>2. \A i \in 1..n : Alike(cs, n, i) \in SUBSET (1..n)
    BY DEF Alike
  <2> QED BY <2>1, <2>2, FS_Subset, FS_CardinalityType
<1>2. /\ v.rep \in 1..n /\ w.rep \in 1..n
      /\ v.n = Cardinality(Alike(cs, n, v.rep)) /\ w.n = Cardinality(Alike(cs, n, w.rep))
  BY DEF Elected
<1>3. v.n \in Nat /\ w.n \in Nat
  BY <1>1, <1>2
<1>4. v.n <= w.n /\ w.n <= v.n
  BY <1>2 DEF Elected
<1>5. v.n = w.n
  BY <1>3, <1>4
<1>6. v.rep <= w.rep /\ w.rep <= v.rep
  BY <1>2, <1>5 DEF Elected
<1>7. v.rep = w.rep
  BY <1>2, <1>6
<1>8. v = [n |-> v.n, rep |-> v.rep] /\ w = [n |-> w.n, rep |-> w.rep]
  BY Zenon DEF Elected
<1> QED BY <1>5, <1>7, <1>8, Zenon

\* Whatever the order, the vote elects that class.
LEMMA VoteElects ==
  ASSUME NEW cs, NEW n \in Nat \ {0}, NEW o \in [1..n -> 1..n], IsInjective(o)
  PROVE  Elected(cs, n, Vote(cs, o))
<1>1. PICK keys, group : Tally(cs, o) = Classes(keys, group) /\ TallyIs(cs, o, n, keys, group)
  BY TallyRight
<1> DEFINE key(i) == TextKey[cs[i].source]
<1>2. \A z \in 1..n : \E j \in 1..n : o[j] = z
  BY Onto
<1>3. PICK m \in Nat : DOMAIN keys = 1..m /\ Len(keys) = m /\ keys \in Seq(DOMAIN group)
  BY <1>1 DEF TallyIs
<1>4. \A i \in 1..n : key(i) \in DOMAIN group /\ \E j \in 1..m : keys[j] = key(i)
  <2>1. DOMAIN group = {key(o[j]) : j \in 1..n} /\ {keys[j] : j \in DOMAIN keys} = DOMAIN group
    BY <1>1, Zenon DEF TallyIs
  <2> SUFFICES ASSUME NEW i \in 1..n
               PROVE  key(i) \in DOMAIN group /\ \E j \in 1..m : keys[j] = key(i)
    OBVIOUS
  <2>2. PICK l \in 1..n : o[l] = i
    BY <1>2
  <2>3. key(i) \in DOMAIN group
    BY <2>1, <2>2, Zenon
  <2> HIDE DEF key
  <2>4. \E j \in DOMAIN keys : key(i) = keys[j]
    BY <2>1, <2>3, Zenon
  <2> QED BY <1>3, <2>3, <2>4
<1>5. ASSUME NEW i \in 1..n
      PROVE  /\ group[key(i)] = [n |-> Cardinality(Alike(cs, n, i)), rep |-> group[key(i)].rep]
             /\ group[key(i)].n = Cardinality(Alike(cs, n, i))
             /\ group[key(i)].rep \in Alike(cs, n, i)
             /\ \A y \in Alike(cs, n, i) : group[key(i)].rep <= y
  <2>1. Members(cs, o, n, key(i)) = Alike(cs, n, i)
    BY WholeClass
  <2> HIDE DEF key
  <2>2. /\ group[key(i)] = [n |-> Cardinality(Alike(cs, n, i)), rep |-> group[key(i)].rep]
        /\ group[key(i)].rep \in Alike(cs, n, i)
        /\ \A y \in Alike(cs, n, i) : group[key(i)].rep <= y
    BY <1>1, <1>4, <2>1, Zenon DEF TallyIs
  <2>3. \A a, b : [n |-> a, rep |-> b].n = a
    OBVIOUS
  <2> QED BY <2>2, <2>3, Zenon
<1>6. \A i \in 1..n : /\ Cardinality(Alike(cs, n, i)) \in Nat /\ i \in Alike(cs, n, i)
                      /\ Alike(cs, n, i) \subseteq 1..n
  <2>1. IsFiniteSet(1..n)
    <3>1. 1 \in Int /\ n \in Int
      OBVIOUS
    <3> QED BY <3>1, FS_Interval
  <2>2. \A i \in 1..n : Alike(cs, n, i) \in SUBSET (1..n) /\ i \in Alike(cs, n, i)
    BY DEF Alike
  <2> QED BY <2>1, <2>2, FS_Subset, FS_CardinalityType
<1>7. \A i \in 1..n, j \in 1..n : j \in Alike(cs, n, i) => key(j) = key(i) /\ Alike(cs, n, j) = Alike(cs, n, i)
  BY DEF Alike
<1>8. \A q \in DOMAIN group : \E i \in 1..n : q = key(i)
  <2>1. DOMAIN group = {key(o[j]) : j \in 1..n}
    BY <1>1, Zenon DEF TallyIs
  <2>2. \A j \in 1..n : o[j] \in 1..n
    OBVIOUS
  <2> HIDE DEF key
  <2> QED BY <2>1, <2>2, Zenon
<1> HIDE DEF key
<1>9. \A q \in DOMAIN group : group[q].n \in Int /\ group[q].rep \in Int
  <2> SUFFICES ASSUME NEW q \in DOMAIN group
               PROVE  group[q].n \in Int /\ group[q].rep \in Int
    OBVIOUS
  <2>1. PICK i \in 1..n : q = key(i)
    BY <1>8
  <2>2. group[q].n = Cardinality(Alike(cs, n, i)) /\ group[q].rep \in 1..n
    <3>1. group[q].n = Cardinality(Alike(cs, n, i)) /\ group[q].rep \in Alike(cs, n, i)
      BY <1>5, <2>1, Zenon
    <3> QED BY <1>6, <3>1, Zenon
  <2>3. Cardinality(Alike(cs, n, i)) \in Int /\ \A z \in 1..n : z \in Int
    BY <1>6
  <2> QED BY <2>2, <2>3, Zenon
<1>10. m \in Nat \ {0}
  <2>1. 1 \in 1..n
    OBVIOUS
  <2>2. \E j \in 1..m : TRUE
    BY <1>4, <2>1
  <2> QED BY <2>2
<1>11. PICK b \in 1..m : /\ Leader(Classes(keys, group)) = group[keys[b]]
                         /\ \A j \in 1..m : ~Beats(group[keys[j]], group[keys[b]])
  BY <1>3, <1>9, <1>10, BestRight
<1>12. PICK w \in 1..n : keys[b] = key(w)
  BY <1>3, <1>8
<1> DEFINE v == group[key(w)]
<1>13. Vote(cs, o) = v
  BY <1>1, <1>11, <1>12, Zenon DEF Vote
<1>14. /\ v = [n |-> v.n, rep |-> v.rep] /\ v.rep \in 1..n
       /\ v.n = Cardinality(Alike(cs, n, v.rep))
  <2>1. v = [n |-> v.n, rep |-> v.rep]
    BY <1>5, Zenon
  <2>2. v.n = Cardinality(Alike(cs, n, w)) /\ v.rep \in Alike(cs, n, w) /\ v.rep \in 1..n
    BY <1>5, <1>6
  <2> QED BY <1>7, <2>1, <2>2, Zenon
<1>15. ASSUME NEW i \in 1..n
       PROVE  /\ Cardinality(Alike(cs, n, i)) <= v.n
              /\ Cardinality(Alike(cs, n, i)) = v.n => v.rep <= i
  <2> DEFINE g == group[key(i)]
  <2>1. ~Beats(g, v)
    BY <1>4, <1>11, <1>12, Zenon
  <2>2. g.n = Cardinality(Alike(cs, n, i)) /\ g.rep \in 1..n /\ g.rep <= i
    <3>1. /\ g.n = Cardinality(Alike(cs, n, i)) /\ g.rep \in Alike(cs, n, i)
          /\ \A y \in Alike(cs, n, i) : g.rep <= y
      BY <1>5, Zenon
    <3> HIDE DEF g
    <3> QED BY <1>6, <3>1, Zenon
  <2>3. g.n \in Nat /\ v.n \in Nat /\ v.rep \in 1..n
    <3> HIDE DEF g, v
    <3> QED BY <1>6, <1>14, <2>2, Zenon
  <2> HIDE DEF g, v
  <2>4. g.n <= v.n /\ (g.n = v.n => v.rep <= g.rep)
    <3>1. g.n \in Int /\ v.n \in Int /\ g.rep \in Int /\ v.rep \in Int
      <4>1. (\A z \in Nat : z \in Int) /\ \A z \in 1..n : z \in Int
        OBVIOUS
      <4> QED BY <2>2, <2>3, <4>1, Zenon
    <3> QED BY <2>1, <3>1, NotBeaten
  <2>5. \A x, y, z \in Int : x <= y /\ y <= z => x <= z
    OBVIOUS
  <2>6. g.rep \in Int /\ v.rep \in Int /\ i \in Int
    <3>1. \A z \in 1..n : z \in Int
      OBVIOUS
    <3> QED BY <2>2, <2>3, <3>1, Zenon
  <2> QED BY <2>2, <2>4, <2>5, <2>6, Zenon
<1> HIDE DEF v
<1> QED BY <1>13, <1>14, <1>15 DEF Elected

\* The rival vote on texts is the same whatever order the samples came in, and no class
\* outnumbers the one it goes to: it is the one class that its counts elect.
THEOREM VoteIsOrderFree == Spec => []VoteIgnoresOrder
<1> DEFINE T == cands \in Seq(Candidates) /\ Len(cands) <= MaxSamples
<1>1. Init => T
  BY ConfigsAssumption DEF Init
<1>2. T /\ [Next]_cands => T'
  BY ConfigsAssumption DEF Next, Draw
<1>3. T => VoteIgnoresOrder
  <2> SUFFICES ASSUME T, cands # <<>>
               PROVE  LET v == Vote(cands, [i \in DOMAIN cands |-> i])
                          votes(k) == Cardinality({i \in DOMAIN cands : TextKey[cands[i].source] = k})
                      IN /\ \A o \in Orders[Len(cands)] : Vote(cands, o) = v
                         /\ v.n = votes(TextKey[cands[v.rep].source])
                         /\ \A i \in DOMAIN cands : votes(TextKey[cands[i].source]) <= v.n
    BY Zenon DEF VoteIgnoresOrder
  <2> DEFINE n == Len(cands)
             id == [i \in DOMAIN cands |-> i]
             v == Vote(cands, id)
  <2>1. n \in Nat \ {0} /\ n \in 1..MaxSamples /\ DOMAIN cands = 1..n
    BY ConfigsAssumption
  <2>2. id \in [1..n -> 1..n] /\ IsInjective(id)
    BY <2>1 DEF IsInjective
  <2> HIDE DEF n, id
  <2>3. Elected(cands, n, v)
    BY <2>1, <2>2, VoteElects
  <2>4. \A o \in Orders[n] : o \in [1..n -> 1..n] /\ IsInjective(o)
    BY <2>1 DEF Orders
  <2>5. \A o \in Orders[n] : Elected(cands, n, Vote(cands, o))
    BY <2>1, <2>4, VoteElects
  <2>6. \A o \in Orders[n] : Vote(cands, o) = v
    BY <2>1, <2>3, <2>5, ElectedOnce
  <2>7. \A i : Alike(cands, n, i)
                 = {j \in DOMAIN cands : TextKey[cands[j].source] = TextKey[cands[i].source]}
    BY <2>1 DEF Alike
  <2> HIDE DEF v
  <2>8. /\ v.n = Cardinality(Alike(cands, n, v.rep))
        /\ \A i \in DOMAIN cands : Cardinality(Alike(cands, n, i)) <= v.n
    BY <2>1, <2>3, Zenon DEF Elected
  <2>9. \A o \in Orders[Len(cands)] : Vote(cands, o) = v
    BY <2>6 DEF n
  <2> QED BY <2>7, <2>8, <2>9, Zenon DEF v, id
<1> QED BY <1>1, <1>2, <1>3, PTL DEF Spec
=============================================================================
