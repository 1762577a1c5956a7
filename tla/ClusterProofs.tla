----------------------------- MODULE ClusterProofs -----------------------------
(***************************************************************************)
(* Facts about the clustering and the score, for fan-outs of any width.    *)
(***************************************************************************)
EXTENDS Cluster, WellFoundedInduction, FiniteSetTheorems, TLAPS

\* A non-empty set of naturals has a least member.
LEMMA NatMin ==
  ASSUME NEW T \in SUBSET Nat, T # {}
  PROVE  \E m \in T : \A n \in T : m <= n
<1>1. PICK m \in T : \A n \in T : ~(<<n, m>> \in OpToRel(<, Nat))
  BY WFMin, NatLessThanWellFounded
<1>2. \A n \in T : ~(n < m)
  BY <1>1 DEF OpToRel
<1>3. \A n \in T : n \in Int /\ m \in Int
  OBVIOUS
<1> QED BY <1>2, <1>3

\* Among the positions in a non-empty set there is a first one of least value.
LEMMA FirstLeast ==
  ASSUME NEW I \in SUBSET Nat, I # {}, NEW f \in [I -> Nat]
  PROVE  \E i \in I : \A j \in I : f[i] < f[j] \/ (f[i] = f[j] /\ i <= j)
<1> DEFINE V == {f[i] : i \in I}
<1>1. PICK v \in V : \A w \in V : v <= w
  <2> HIDE DEF V
  <2>1. V \in SUBSET Nat /\ V # {}
    BY DEF V
  <2> QED BY <2>1, NatMin
<1> DEFINE J == {i \in I : f[i] = v}
<1>2. PICK i \in J : \A j \in J : i <= j
  <2> HIDE DEF J
  <2>1. J \in SUBSET Nat /\ J # {}
    BY <1>1 DEF J
  <2> QED BY <2>1, NatMin
<1>3. \A j \in I : f[i] < f[j] \/ (f[i] = f[j] /\ i <= j)
  <2> TAKE j \in I
  <2>1. f[i] = v /\ v <= f[j] /\ f[j] \in Nat /\ v \in Nat
    BY <1>1, <1>2
  <2>2. CASE f[j] = v
    BY <2>1, <2>2, <1>2
  <2>3. CASE f[j] # v
    BY <2>1, <2>3
  <2> QED BY <2>2, <2>3
<1> QED BY <1>2, <1>3

LEMMA IntervalSize ==
  ASSUME NEW n \in Nat
  PROVE  IsFiniteSet(1..n) /\ Cardinality(1..n) = n
<1>1. 1 \in Int /\ n \in Int
  OBVIOUS
<1>2. IsFiniteSet(1..n) /\ Cardinality(1..n) = IF 1 > n THEN 0 ELSE n - 1 + 1
  BY <1>1, FS_Interval, Zenon
<1> QED BY <1>2

-----------------------------------------------------------------------------
\* The percents that k successes in n clear.
Cleared(k, n) ==
  {c \in 1..99 :
     /\ c * n <= 100 * k
     /\ 1000 * (100*k - c*n) * (100*k - c*n) >= 2706 * n * c * (100 - c)}

LEMMA ClearedIsFinite ==
  ASSUME NEW k, NEW n
  PROVE  IsFiniteSet(Cleared(k, n)) /\ Cardinality(Cleared(k, n)) \in 0..99
<1>1. IsFiniteSet(1..99) /\ Cardinality(1..99) = 99
  BY IntervalSize
<1>2. Cleared(k, n) \subseteq 1..99
  BY DEF Cleared
<1> HIDE DEF Cleared
<1>3. IsFiniteSet(Cleared(k, n)) /\ Cardinality(Cleared(k, n)) <= 99
  BY <1>1, <1>2, FS_Subset
<1>4. Cardinality(Cleared(k, n)) \in Nat
  BY <1>3, FS_CardinalityType
<1> QED BY <1>3, <1>4

\* The score of a tier is a percentage, whatever the tier returned.
LEMMA WilsonIsPercentage ==
  ASSUME NEW k, NEW n
  PROVE  WilsonLCB(k, n) \in 0..100
<1>1. CASE n <= 0
  BY <1>1 DEF WilsonLCB
<1>2. CASE ~(n <= 0)
  <2>1. WilsonLCB(k, n) = Cardinality(Cleared(k, n))
    BY <1>2 DEF WilsonLCB, Cleared
  <2> QED BY <2>1, ClearedIsFinite
<1> QED BY <1>1, <1>2

LEMMA ScoreIsPercentage ==
  ASSUME NEW cs
  PROVE  Score(cs) \in 0..100
BY WilsonIsPercentage DEF Score

\* More survivors in as many samples never score less (cluster.go:142-144).
LEMMA WilsonMonotone ==
  ASSUME NEW k \in Nat, NEW l \in Nat, k <= l, NEW n \in Nat, l <= n
  PROVE  WilsonLCB(k, n) <= WilsonLCB(l, n)
<1>1. CASE n = 0
  BY <1>1 DEF WilsonLCB
<1>2. CASE n # 0
  <2>1. ASSUME NEW c \in Cleared(k, n) PROVE c \in Cleared(l, n)
    <3> DEFINE a == 100*k - c*n
               b == 100*l - c*n
    <3>1. c \in 1..99 /\ a \in Int /\ b \in Int /\ 0 <= a /\ a <= b
      BY <2>1 DEF Cleared
    <3>2. 1000 * a * a >= 2706 * n * c * (100 - c)
      BY <2>1 DEF Cleared
    <3>3. c * n <= 100 * l
      BY <3>1
    <3> DEFINE d == 2706 * n * c * (100 - c)
    <3>4. d \in Int
      BY <3>1
    <3>5. 1000 * b * b >= d
      <4> HIDE DEF a, b, d
      <4>1. a * a <= b * b
        BY <3>1
      <4> QED BY <3>1, <3>2, <3>4, <4>1 DEF d
    <3> QED BY <3>1, <3>3, <3>5 DEF Cleared
  <2>2. Cleared(k, n) \subseteq Cleared(l, n)
    BY <2>1
  <2>3. WilsonLCB(k, n) = Cardinality(Cleared(k, n)) /\ WilsonLCB(l, n) = Cardinality(Cleared(l, n))
    BY <1>2 DEF WilsonLCB, Cleared
  <2> QED BY <2>2, <2>3, ClearedIsFinite, FS_Subset
<1> QED BY <1>1, <1>2

\* As many survivors among more samples never score more.
LEMMA WilsonAntitone ==
  ASSUME NEW k \in Nat, NEW m \in Nat \ {0}, NEW n \in Nat, m <= n
  PROVE  WilsonLCB(k, n) <= WilsonLCB(k, m)
<1>1. ASSUME NEW c \in Cleared(k, n) PROVE c \in Cleared(k, m)
  <2> DEFINE a == 100*k - c*n
             b == 100*k - c*m
             e == c * (100 - c)
  <2>1. c \in 1..99 /\ c*n <= 100*k
    BY <1>1 DEF Cleared
  <2>2. c*m <= c*n
    BY <2>1
  <2>3. a \in Int /\ b \in Int /\ 0 <= a /\ a <= b /\ e \in Nat
    BY <2>1, <2>2
  <2>4. 1000 * a * a >= 2706 * n * c * (100 - c)
    BY <1>1 DEF Cleared
  <2>5. 2706 * n * c * (100 - c) = 2706 * (n * e) /\ 2706 * m * c * (100 - c) = 2706 * (m * e)
    BY <2>1
  <2>6. m * e <= n * e
    <3> HIDE DEF e
    <3> QED BY <2>3
  <2>7. a * a <= b * b
    <3> HIDE DEF a, b
    <3> QED BY <2>3
  <2>8. 1000 * a * a = 1000 * (a * a) /\ 1000 * b * b = 1000 * (b * b)
    <3> HIDE DEF a, b
    <3> QED BY <2>3
  <2>9. a * a \in Int /\ b * b \in Int /\ m * e \in Int /\ n * e \in Int
    <3> HIDE DEF a, b, e
    <3> QED BY <2>3
  <2>10. 1000 * b * b >= 2706 * m * c * (100 - c)
    <3> HIDE DEF a, b, e
    <3> QED BY <2>4, <2>5, <2>6, <2>7, <2>8, <2>9
  <2> QED BY <2>1, <2>2, <2>10 DEF Cleared
<1>2. Cleared(k, n) \subseteq Cleared(k, m)
  BY <1>1
<1>3. WilsonLCB(k, n) = Cardinality(Cleared(k, n)) /\ WilsonLCB(k, m) = Cardinality(Cleared(k, m))
  BY DEF WilsonLCB, Cleared
<1> QED BY <1>2, <1>3, ClearedIsFinite, FS_Subset

-----------------------------------------------------------------------------
\* Every member of a winning class survived (cluster.go:104-115): its
\* representative is never a refuted candidate.
LEMMA WinnersSurvived ==
  ASSUME NEW cs, NEW w \in Winners(cs)
  PROVE  /\ w \subseteq DOMAIN cs
         /\ w # {}
         /\ \A i \in w : cs[i].report.ok
<1>1. PICK i \in DOMAIN cs : w = ClusterOf(cs, i)
  BY DEF Winners, Group
<1>2. PICK j \in w : cs[j].report.ok
  BY DEF Winners, Verified
<1>3. ASSUME NEW l \in w PROVE cs[l].report.ok
  <2>1. Behaviour(cs[l]) = Behaviour(cs[j])
    BY <1>1, <1>2 DEF ClusterOf
  <2>2. Behaviour(cs[j])[1] = "ok"
    BY <1>2 DEF Behaviour
  <2> QED BY <2>1, <2>2 DEF Behaviour
<1> QED BY <1>1, <1>2, <1>3 DEF ClusterOf

\* A fan-out with a survivor has a winning class (cluster.go:104-115).
LEMMA SurvivorWins ==
  ASSUME NEW S, NEW cs \in Seq(S), NEW s \in DOMAIN cs, cs[s].report.ok
  PROVE  Winners(cs) # {}
<1> DEFINE I == {i \in DOMAIN cs : cs[i].report.ok}
           size(i) == Cardinality(ClusterOf(cs, i))
           f == [i \in I |-> Len(cs) - size(i)]
<1>1. Len(cs) \in Nat /\ DOMAIN cs = 1..Len(cs)
  OBVIOUS
<1>2. ASSUME NEW i
      PROVE  size(i) \in Nat /\ size(i) <= Len(cs)
  <2>1. ClusterOf(cs, i) \subseteq 1..Len(cs)
    BY <1>1 DEF ClusterOf
  <2>2. IsFiniteSet(1..Len(cs)) /\ Cardinality(1..Len(cs)) = Len(cs)
    BY <1>1, IntervalSize
  <2> QED BY <2>1, <2>2, FS_Subset, FS_CardinalityType
<1>3. I \in SUBSET Nat /\ I # {}
  BY <1>1
<1>4. f \in [I -> Nat]
  <2> HIDE DEF size
  <2> QED BY <1>1, <1>2
<1>5. PICK i \in I : \A j \in I : f[i] < f[j] \/ (f[i] = f[j] /\ i <= j)
  <2> HIDE DEF I, f
  <2> QED BY <1>3, <1>4, FirstLeast
<1>6. ASSUME NEW j \in I
      PROVE  size(j) <= size(i)
  <2>1. f[i] = Len(cs) - size(i) /\ f[j] = Len(cs) - size(j)
    OBVIOUS
  <2>2. f[i] < f[j] \/ f[i] = f[j]
    BY <1>5
  <2> HIDE DEF f, size
  <2> QED BY <1>1, <1>2, <2>1, <2>2
<1>7. ClusterOf(cs, i) \in Group(cs) /\ Verified(cs, ClusterOf(cs, i))
  BY DEF Group, Verified, ClusterOf
<1>8. ASSUME NEW d \in Group(cs), Verified(cs, d)
      PROVE  Cardinality(d) <= Cardinality(ClusterOf(cs, i))
  <2>1. PICK j \in DOMAIN cs : d = ClusterOf(cs, j)
    BY DEF Group
  <2>2. PICK l \in d : cs[l].report.ok
    BY <1>8 DEF Verified
  <2>3. l \in I /\ Behaviour(cs[l]) = Behaviour(cs[j])
    BY <2>1, <2>2 DEF ClusterOf
  <2>4. d = ClusterOf(cs, l)
    BY <2>1, <2>3 DEF ClusterOf
  <2> HIDE DEF I
  <2> QED BY <1>6, <2>3, <2>4
<1> QED BY <1>7, <1>8 DEF Winners

\* One survivor in two or more is worth less than one half.
LEMMA OneInMany ==
  ASSUME NEW n \in Nat, n >= 2
  PROVE  WilsonLCB(1, n) \in 0..49
<1>1. ASSUME NEW c \in Cleared(1, n)
      PROVE  c \in 1..49
  <2>1. /\ c \in 1..99 /\ c * n <= 100
        /\ 1000 * (100 - c*n) * (100 - c*n) >= 2706 * n * c * (100 - c)
    BY DEF Cleared
  <2> SUFFICES ASSUME c >= 50
               PROVE  FALSE
    BY <2>1
  <2>2. c * n >= 50 * n
    BY <2>1
  <2>3. c * n = 100
    BY <2>1, <2>2
  <2>4. 2706 * n * c * (100 - c) = 270600 * (100 - c)
    <3>1. 2706 * n * c = 2706 * (c * n)
      BY <2>1
    <3> QED BY <2>3, <3>1
  <2> QED BY <2>1, <2>3, <2>4
<1>2. Cleared(1, n) \subseteq 1..49
  BY <1>1
<1>3. IsFiniteSet(1..49) /\ Cardinality(1..49) = 49
  BY IntervalSize
<1>4. Cardinality(Cleared(1, n)) \in 0..49
  <2>1. IsFiniteSet(Cleared(1, n)) /\ Cardinality(Cleared(1, n)) <= 49
    BY <1>2, <1>3, FS_Subset
  <2>2. Cardinality(Cleared(1, n)) \in Nat
    BY <2>1, FS_CardinalityType
  <2> QED BY <2>1, <2>2
<1>5. WilsonLCB(1, n) = Cardinality(Cleared(1, n))
  BY DEF WilsonLCB, Cleared
<1> QED BY <1>4, <1>5

\* A fan-out of refuted candidates and one that is not, which is what a repair leaves
\* behind (cascade.go:925-938): its score is that of one survivor, if it has one.
LEMMA LoneScore ==
  ASSUME NEW S, NEW cs \in Seq(S), \A i \in DOMAIN cs : ~cs[i].report.ok, NEW d \in S
  PROVE  Score(Append(cs, d)) \in {0, WilsonLCB(1, Len(cs) + 1)}
<1> DEFINE u == Append(cs, d)
           n == Len(cs) + 1
<1>1. /\ n \in Nat /\ Len(u) = n /\ DOMAIN u = 1..n
      /\ \A i \in DOMAIN u : i # n => i \in DOMAIN cs /\ u[i] = cs[i]
  OBVIOUS
<1> HIDE DEF u, n
<1>2. ASSUME NEW w \in Winners(u)
      PROVE  Cardinality(w) = 1
  <2>1. w \subseteq DOMAIN u /\ w # {} /\ \A i \in w : u[i].report.ok
    BY WinnersSurvived
  <2>2. \A i \in w : i = n
    BY <1>1, <2>1
  <2>3. w = {n}
    BY <2>1, <2>2
  <2> QED BY <2>3, FS_Singleton
<1>3. CASE Winners(u) = {}
  BY <1>3 DEF Score, u
<1>4. CASE Winners(u) # {}
  <2>1. Cardinality(CHOOSE cl \in Winners(u) : TRUE) = 1
    BY <1>2, <1>4
  <2>2. Score(u) = WilsonLCB(1, n)
    BY <1>1, <1>4, <2>1 DEF Score
  <2> QED BY <2>2 DEF u, n
<1> QED BY <1>3, <1>4

\* It is less than one half.
LEMMA LoneSurvivor ==
  ASSUME NEW S, NEW cs \in Seq(S), cs # <<>>, \A i \in DOMAIN cs : ~cs[i].report.ok, NEW d \in S
  PROVE  Score(Append(cs, d)) \in 0..49
<1>1. Len(cs) + 1 \in Nat /\ Len(cs) + 1 >= 2
  OBVIOUS
<1>2. WilsonLCB(1, Len(cs) + 1) \in 0..49
  BY <1>1, OneInMany
<1>3. Score(Append(cs, d)) \in {0, WilsonLCB(1, Len(cs) + 1)}
  BY LoneScore
<1> QED BY <1>2, <1>3

\* The representative of a class is one of its members.
LEMMA RepIsMember ==
  ASSUME NEW cs, NEW w, w \in SUBSET Nat, w # {},
         \A i \in w : Weight[cs[i].source] \in Nat
  PROVE  Rep(cs, w) \in w
<1> DEFINE f == [i \in w |-> Weight[cs[i].source]]
<1>1. \E i \in w : \A j \in w : f[i] < f[j] \/ (f[i] = f[j] /\ i <= j)
  <2> HIDE DEF f
  <2>1. f \in [w -> Nat]
    BY DEF f
  <2> QED BY <2>1, FirstLeast
<1> QED BY <1>1 DEF Rep

\* A positive factor on both sides of an inequality.
LEMMA Cancel ==
  ASSUME NEW a \in Nat \ {0}, NEW p \in Int, NEW q \in Int, a * p >= a * q
  PROVE  p >= q
<1> SUFFICES ASSUME p + 1 <= q
             PROVE  FALSE
  OBVIOUS
<1>1. a * (p + 1) <= a * q
  OBVIOUS
<1>2. a * (p + 1) = a * p + a
  OBVIOUS
<1>3. a * p \in Int /\ a * q \in Int
  OBVIOUS
<1> QED BY <1>1, <1>2, <1>3

LEMMA Scale ==
  ASSUME NEW a \in Nat, NEW p \in Int, NEW q \in Int, p >= q
  PROVE  a * p >= a * q
OBVIOUS

\* The scores of two fan-outs compare as the percents they clear do.
LEMMA ByPercents ==
  ASSUME NEW k, NEW m \in Nat \ {0}, NEW l, NEW n \in Nat \ {0},
         Cleared(k, m) \subseteq Cleared(l, n)
  PROVE  WilsonLCB(k, m) <= WilsonLCB(l, n)
<1>1. WilsonLCB(k, m) = Cardinality(Cleared(k, m)) /\ WilsonLCB(l, n) = Cardinality(Cleared(l, n))
  BY DEF WilsonLCB, Cleared
<1> QED BY <1>1, ClearedIsFinite, FS_Subset

\* A wider unanimous fan-out never scores less (config.go:302-306).
LEMMA UnanimityGrows ==
  ASSUME NEW m \in Nat \ {0}, NEW n \in Nat, m <= n
  PROVE  UnanimousScore(m) <= UnanimousScore(n)
<1>1. ASSUME NEW c \in Cleared(m, m)
      PROVE  c \in Cleared(n, n)
  <2> DEFINE x == 100 - c
             a == m * x
             b == n * x
  <2>1. c \in 1..99 /\ x \in 1..99
    BY DEF Cleared
  <2>2. 100*m - c*m = a /\ 100*n - c*n = b
    BY <2>1
  <2>3. a \in Nat \ {0} /\ b \in Nat \ {0} /\ a <= b
    BY <2>1
  <2>4. 2706 * m * c * (100 - c) = a * (2706 * c) /\ 2706 * n * c * (100 - c) = b * (2706 * c)
    BY <2>1
  <2>5. a * (1000 * a) >= a * (2706 * c)
    <3>1. 1000 * (100*m - c*m) * (100*m - c*m) >= 2706 * m * c * (100 - c)
      BY DEF Cleared
    <3>2. 1000 * a * a = a * (1000 * a)
      <4> HIDE DEF a
      <4> QED BY <2>3
    <3> HIDE DEF a, x
    <3> QED BY <2>2, <2>4, <3>1, <3>2
  <2>6. 1000 * a >= 2706 * c
    <3> HIDE DEF a, x
    <3>1. 1000 * a \in Int /\ 2706 * c \in Int
      BY <2>1, <2>3
    <3> QED BY <2>3, <2>5, <3>1, Cancel
  <2>7. b * (1000 * b) >= b * (2706 * c)
    <3> HIDE DEF a, b, x
    <3>1. 1000 * b \in Int /\ 2706 * c \in Int /\ 1000 * b >= 2706 * c
      BY <2>1, <2>3, <2>6
    <3> QED BY <2>3, <3>1, Scale
  <2>8. 1000 * (100*n - c*n) * (100*n - c*n) >= 2706 * n * c * (100 - c)
    <3>1. 1000 * b * b = b * (1000 * b)
      <4> HIDE DEF b
      <4> QED BY <2>3
    <3> HIDE DEF b, x
    <3> QED BY <2>2, <2>4, <2>7, <3>1
  <2>9. c * n <= 100 * n
    BY <2>1
  <2> QED BY <2>1, <2>8, <2>9 DEF Cleared
<1> QED BY <1>1, ByPercents DEF UnanimousScore

\* No fan-out scores more than a unanimous one of its width (cluster.go:161-170):
\* a threshold above it can never be met there.
THEOREM UnanimityBounds ==
  ASSUME NEW S, NEW cs \in Seq(S)
  PROVE  Score(cs) <= UnanimousScore(Len(cs))
<1>1. CASE Winners(cs) = {}
  <2>1. Score(cs) = 0
    BY <1>1 DEF Score
  <2>2. UnanimousScore(Len(cs)) \in 0..100
    BY WilsonIsPercentage DEF UnanimousScore
  <2>3. \A u \in 0..100 : 0 <= u
    OBVIOUS
  <2> QED BY <2>1, <2>2, <2>3, Zenon
<1>2. CASE Winners(cs) # {}
  <2> DEFINE w == CHOOSE cl \in Winners(cs) : TRUE
  <2>1. w \in Winners(cs)
    BY <1>2
  <2>2. w \subseteq 1..Len(cs) /\ Len(cs) \in Nat
    BY <2>1, WinnersSurvived
  <2> HIDE DEF w
  <2>3. IsFiniteSet(1..Len(cs)) /\ Cardinality(1..Len(cs)) = Len(cs)
    BY <2>2, IntervalSize
  <2>4. Cardinality(w) \in Nat /\ Cardinality(w) <= Len(cs)
    BY <2>2, <2>3, FS_Subset, FS_CardinalityType
  <2>5. WilsonLCB(Cardinality(w), Len(cs)) <= WilsonLCB(Len(cs), Len(cs))
    BY <2>2, <2>4, WilsonMonotone
  <2>6. Score(cs) = WilsonLCB(Cardinality(w), Len(cs))
    BY <1>2 DEF Score, w
  <2> QED BY <2>5, <2>6 DEF UnanimousScore
<1> QED BY <1>1, <1>2
\* It is worth no more than agreement in a fan-out of any width.
LEMMA LoneIsWithinReach ==
  ASSUME NEW S, NEW cs \in Seq(S), \A i \in DOMAIN cs : ~cs[i].report.ok, NEW d \in S,
         NEW n \in Nat \ {0}
  PROVE  Score(Append(cs, d)) <= UnanimousScore(n)
<1> DEFINE m == Len(cs) + 1
<1>1. m \in Nat \ {0} /\ 1 <= m /\ 1 <= n
  OBVIOUS
<1>2. /\ WilsonLCB(1, m) \in 0..100 /\ WilsonLCB(1, 1) \in 0..100
      /\ UnanimousScore(n) \in 0..100 /\ UnanimousScore(1) = WilsonLCB(1, 1)
  BY WilsonIsPercentage DEF UnanimousScore
<1>3. Score(Append(cs, d)) \in {0, WilsonLCB(1, m)}
  BY LoneScore
<1> HIDE DEF m
<1>4. WilsonLCB(1, m) <= WilsonLCB(1, 1)
  BY <1>1, WilsonAntitone
<1>5. UnanimousScore(1) <= UnanimousScore(n)
  BY <1>1, UnanimityGrows
<1>6. Score(Append(cs, d)) \in 0..100
  BY ScoreIsPercentage
<1> DEFINE s == Score(Append(cs, d))
           l == WilsonLCB(1, m)
           u == UnanimousScore(1)
           v == UnanimousScore(n)
<1>7. s \in {0, l} /\ l <= u /\ u <= v /\ s \in 0..100 /\ l \in 0..100 /\ u \in 0..100 /\ v \in 0..100
  BY <1>2, <1>3, <1>4, <1>5, <1>6, Zenon
<1> HIDE DEF s, l, u, v
<1>8. s <= v
  BY <1>7
<1> QED BY <1>8 DEF s, v
=============================================================================
