-------------------------- MODULE VectorIndexProofs --------------------------
(***************************************************************************)
(* An index is of one piece, a search that probes every partition is       *)
(* exact, and one probe finds a stored vector again: for any vectors,      *)
(* metrics, numbers of partitions and probes, and any sequence of builds,  *)
(* failed builds, saves, loads and restarts.                               *)
(***************************************************************************)
EXTENDS VectorIndex, FiniteSetTheorems, WellFoundedInduction, SequenceTheorems, TLAPS

-----------------------------------------------------------------------------
(* Numbers, orders and sums *)

\* Induction, with a set of numbers for the property.
LEMMA SetInduction ==
  ASSUME NEW T, 0 \in T, \A n \in Nat : n \in T => n + 1 \in T
  PROVE  Nat \subseteq T
<1> SUFFICES ASSUME Nat \ T # {} PROVE FALSE
  OBVIOUS
<1>1. PICK m \in Nat \ T : \A y \in Nat \ T : ~(<<y, m>> \in OpToRel(<, Nat))
  BY NatLessThanWellFounded, WFMin
<1>2. m # 0 /\ m - 1 \in Nat /\ m - 1 < m /\ (m - 1) + 1 = m
  OBVIOUS
<1>3. m - 1 \in T
  BY <1>1, <1>2 DEF OpToRel
<1> QED
  BY <1>2, <1>3

\* A sequence that SetToSeqs gives has every element of the set, once.
LEMMA PermFacts ==
  ASSUME NEW S, IsFiniteSet(S), NEW s \in SetToSeqs(S)
  PROVE  /\ s \in Seq(S) /\ DOMAIN s = 1..Len(s) /\ Len(s) = Cardinality(S) /\ Len(s) \in Nat
         /\ \A j, k \in 1..Len(s) : s[j] = s[k] => j = k
         /\ \A x \in S : \E k \in 1..Len(s) : s[k] = x
<1>1. Cardinality(S) \in Nat
  BY FS_CardinalityType
<1>2. PICK n : n = Cardinality(S)
  OBVIOUS
<1>3. s \in [1..n -> S] /\ \A j, k \in 1..n : j # k => s[j] # s[k]
  BY <1>2 DEF SetToSeqs
<1>4. s \in Seq(S) /\ Len(s) = n /\ DOMAIN s = 1..n
  BY <1>1, <1>2, <1>3
<1>5. s \in Injection(1..n, S)
  BY <1>3 DEF Injection, IsInjective
<1>6. IsFiniteSet(1..n) /\ Cardinality(1..n) = n
  BY <1>1, <1>2, FS_Interval
<1>7. s \in Surjection(1..n, S)
  BY <1>2, <1>5, <1>6, FS_Injection
<1>8. \A x \in S : \E k \in 1..n : s[k] = x
  BY <1>7 DEF Surjection
<1> QED
  BY <1>1, <1>2, <1>3, <1>4, <1>8

\* A sequence of the elements of S, each once, is one that SetToSeqs gives.
LEMMA MakePerm ==
  ASSUME NEW S, NEW n \in Nat, NEW f \in Bijection(1..n, S)
  PROVE  f \in SetToSeqs(S)
<1>1. Cardinality(S) = n
  BY FS_CountingElements DEF ExistsBijection
<1>2. f \in [1..n -> S] /\ \A j, k \in 1..n : j # k => f[j] # f[k]
  BY DEF Bijection, Injection, IsInjective
<1> QED
  BY <1>1, <1>2 DEF SetToSeqs

\* What is sorted step by step is sorted.
LEMMA Ascending ==
  ASSUME NEW n \in Nat, NEW f, \A k \in 1..n : f[k] \in Int,
         \A k \in 1..(n - 1) : f[k] <= f[k + 1],
         NEW j \in 1..n, NEW l \in 1..n, j <= l
  PROVE  f[j] <= f[l]
<1> DEFINE T == {d \in Nat : j + d \in 1..n => f[j] <= f[j + d]}
<1>1. 0 \in T
  OBVIOUS
<1>2. ASSUME NEW d \in Nat, d \in T PROVE d + 1 \in T
  <2> SUFFICES ASSUME j + (d + 1) \in 1..n PROVE f[j] <= f[j + (d + 1)]
    OBVIOUS
  <2>1. j + d \in 1..n /\ j + d \in 1..(n - 1) /\ (j + d) + 1 = j + (d + 1)
    OBVIOUS
  <2>2. f[j] <= f[j + d]
    BY <1>2, <2>1
  <2>3. f[j + d] <= f[(j + d) + 1]
    BY <2>1
  <2>4. f[j] \in Int /\ f[j + d] \in Int /\ f[j + (d + 1)] \in Int
    BY <2>1
  <2> HIDE DEF T
  <2> QED
    BY <2>1, <2>2, <2>3, <2>4
<1> HIDE DEF T
<1>3. l - j \in T
  BY <1>1, <1>2, SetInduction
<1>4. j + (l - j) = l
  OBVIOUS
<1> QED
  BY <1>3, <1>4 DEF T

\* The element that MapThenSumSet takes next.
Pick(s) == CHOOSE x \in s : TRUE

\* g sums the weights w of every set in D, where D has s \ {Pick(s)} when it has s.
SumsOn(g, w, D) ==
  g = [s \in D |-> IF s = {} THEN 0 ELSE w[Pick(s)] + g[s \ {Pick(s)}]]

Small(S, n) == {s \in SUBSET S : Cardinality(s) <= n}

\* The set without the element taken is smaller.
LEMMA PickFacts ==
  ASSUME NEW s, IsFiniteSet(s), s # {}, NEW x \in s
  PROVE  /\ Pick(s) \in s
         /\ IsFiniteSet(s \ {x}) /\ Cardinality(s) \in Nat \ {0}
         /\ Cardinality(s \ {x}) = Cardinality(s) - 1
<1>1. Cardinality(s) \in Nat /\ Cardinality(s \ {x}) \in Nat /\ IsFiniteSet(s \ {x})
      /\ Cardinality(s \ {x}) = Cardinality(s) - 1
  BY FS_RemoveElement, FS_CardinalityType
<1> QED
  BY <1>1 DEF Pick

\* Subsets of a finite set are finite.
LEMMA SubsetFacts ==
  ASSUME NEW S, IsFiniteSet(S), NEW s \in SUBSET S
  PROVE  IsFiniteSet(s) /\ Cardinality(s) \in Nat /\ Cardinality(s) <= Cardinality(S)
BY FS_Subset, FS_CardinalityType

\* The same for a subset of a finite set.
LEMMA SubsetPick ==
  ASSUME NEW S, IsFiniteSet(S), NEW s \in SUBSET S, NEW x \in s
  PROVE  /\ Cardinality(s) \in Nat \ {0} /\ s \ {x} \in SUBSET S
         /\ Cardinality(s \ {x}) = Cardinality(s) - 1
<1>1. IsFiniteSet(s)
  BY SubsetFacts
<1>2. s # {} /\ s \ {x} \in SUBSET S
  OBVIOUS
<1> QED
  BY <1>1, <1>2, PickFacts

\* A subset of a finite set with no elements is empty.
LEMMA SubsetEmpty ==
  ASSUME NEW S, IsFiniteSet(S), NEW s \in SUBSET S, Cardinality(s) = 0
  PROVE  s = {}
<1> SUFFICES ASSUME NEW x \in s PROVE FALSE
  OBVIOUS
<1>1. Cardinality(s) \in Nat \ {0}
  BY SubsetPick
<1> QED
  BY <1>1

\* The sums of larger and larger sets.
LEMMA SumsExist ==
  ASSUME NEW S, IsFiniteSet(S), NEW w PROVE \E g : SumsOn(g, w, SUBSET S)
<1> DEFINE T == {n \in Nat : \E g : SumsOn(g, w, Small(S, n))}
<1>1. 0 \in T
  <2> DEFINE g == [s \in Small(S, 0) |-> 0]
  <2>1. \A s \in Small(S, 0) : s = {}
    <3> SUFFICES ASSUME NEW s \in Small(S, 0), s # {} PROVE FALSE
      OBVIOUS
    <3>1. IsFiniteSet(s) /\ Cardinality(s) <= 0
      BY SubsetFacts DEF Small
    <3>2. PICK x : x \in s
      OBVIOUS
    <3>3. Cardinality(s) \in Nat \ {0}
      BY <3>1, <3>2, PickFacts
    <3> QED
      BY <3>1, <3>3
  <2>2. g = [s \in Small(S, 0) |-> IF s = {} THEN 0 ELSE w[Pick(s)] + g[s \ {Pick(s)}]]
    BY <2>1
  <2> QED
    BY <2>2 DEF SumsOn
<1>2. ASSUME NEW n \in Nat, n \in T PROVE n + 1 \in T
  <2>1. PICK g : SumsOn(g, w, Small(S, n))
    BY <1>2
  <2> DEFINE h == [s \in Small(S, n + 1) |-> IF s = {} THEN 0 ELSE w[Pick(s)] + g[s \ {Pick(s)}]]
  <2>2. ASSUME NEW s \in Small(S, n + 1), s # {}
        PROVE  s \ {Pick(s)} \in Small(S, n) /\ s \ {Pick(s)} \in Small(S, n + 1)
    <3>1. IsFiniteSet(s) /\ Cardinality(s) <= n + 1 /\ s \in SUBSET S
      BY <2>2, SubsetFacts DEF Small
    <3>2. Pick(s) \in s
      BY <2>2, <3>1, PickFacts
    <3>3. Cardinality(s \ {Pick(s)}) = Cardinality(s) - 1 /\ Cardinality(s) \in Nat
      BY <2>2, <3>1, <3>2, PickFacts
    <3> QED
      BY <3>1, <3>3 DEF Small
  <2>3. \A s \in Small(S, n) : s \in Small(S, n + 1) /\ h[s] = g[s]
    <3>1. \A s \in Small(S, n) : s \in Small(S, n + 1)
      BY SubsetFacts DEF Small
    <3>2. \A s \in Small(S, n) : g[s] = IF s = {} THEN 0 ELSE w[Pick(s)] + g[s \ {Pick(s)}]
      BY <2>1 DEF SumsOn
    <3> QED
      BY <3>1, <3>2
  <2>4. \A s \in Small(S, n + 1) :
          h[s] = IF s = {} THEN 0 ELSE w[Pick(s)] + h[s \ {Pick(s)}]
    BY <2>2, <2>3
  <2>5. h = [s \in Small(S, n + 1) |-> h[s]]
    OBVIOUS
  <2> HIDE DEF h
  <2>6. SumsOn(h, w, Small(S, n + 1))
    BY <2>4, <2>5 DEF SumsOn
  <2> QED
    BY <2>6
<1> HIDE DEF T
<1>3. Nat \subseteq T
  BY <1>1, <1>2, SetInduction
<1>4. Small(S, Cardinality(S)) = SUBSET S
  BY SubsetFacts DEF Small
<1>5. Cardinality(S) \in T
  BY <1>3, FS_CardinalityType
<1> QED
  BY <1>4, <1>5 DEF T

\* What the sums of a set and of the set without one element have to do with each
\* other, in the order of Pick.
LEMMA SumsPick ==
  ASSUME NEW S, NEW g, NEW w, SumsOn(g, w, SUBSET S), NEW s \in SUBSET S
  PROVE  /\ s = {} => g[s] = 0
         /\ s # {} => g[s] = w[Pick(s)] + g[s \ {Pick(s)}] /\ Pick(s) \in s
<1>1. s # {} => Pick(s) \in s
  BY DEF Pick
<1> QED
  BY <1>1 DEF SumsOn

\* Sums of numbers are numbers.
LEMMA SumsTyped ==
  ASSUME NEW S, IsFiniteSet(S), NEW g, NEW w, SumsOn(g, w, SUBSET S),
         \A x \in S : w[x] \in Int
  PROVE  \A s \in SUBSET S : g[s] \in Int
<1>0. \A s \in SUBSET S : /\ s = {} => g[s] = 0
                          /\ s # {} => g[s] = w[Pick(s)] + g[s \ {Pick(s)}] /\ Pick(s) \in s
  BY SumsPick
<1> DEFINE T == {n \in Nat : \A s \in SUBSET S : Cardinality(s) = n => g[s] \in Int}
<1>1. 0 \in T
  <2>1. \A s \in SUBSET S : Cardinality(s) = 0 => s = {}
    BY SubsetEmpty
  <2>2. ASSUME NEW s \in SUBSET S, s = {} PROVE g[s] \in Int
    <3>1. g[s] = 0
      BY <2>2, <1>0
    <3> QED
      BY <3>1
  <2> QED
    BY <2>1, <2>2
<1>2. ASSUME NEW n \in Nat, n \in T PROVE n + 1 \in T
  <2> SUFFICES ASSUME NEW s \in SUBSET S, Cardinality(s) = n + 1 PROVE g[s] \in Int
    OBVIOUS
  <2>1. CASE s = {}
    <3>1. g[s] = 0
      BY <2>1, <1>0
    <3> QED
      BY <3>1
  <2>2. CASE s # {}
    <3>1. Pick(s) \in s /\ g[s] = w[Pick(s)] + g[s \ {Pick(s)}]
      BY <2>2, <1>0
    <3>2. Cardinality(s \ {Pick(s)}) = Cardinality(s) - 1 /\ s \ {Pick(s)} \in SUBSET S
      BY <3>1, SubsetPick
    <3>3. g[s \ {Pick(s)}] \in Int
      BY <1>2, <3>2
    <3>4. w[Pick(s)] \in Int
      BY <3>1
    <3> QED
      BY <3>1, <3>3, <3>4
  <2> QED
    BY <2>1, <2>2
<1> HIDE DEF T
<1>3. Nat \subseteq T
  BY <1>1, <1>2, SetInduction
<1> QED
  BY <1>3, SubsetFacts DEF T

\* The least of a set of natural numbers.
LEMMA LeastThere ==
  ASSUME NEW S \in SUBSET Nat, S # {}
  PROVE  Min(S) \in S /\ \A y \in S : Min(S) <= y
<1>1. PICK m \in S : \A y \in S : ~(<<y, m>> \in OpToRel(<, Nat))
  BY NatLessThanWellFounded, WFMin
<1>2. ASSUME NEW y \in S PROVE m <= y
  <2> SUFFICES ASSUME y < m PROVE FALSE
    OBVIOUS
  <2>1. <<y, m>> \in OpToRel(<, Nat)
    BY DEF OpToRel
  <2> QED
    BY <1>1, <2>1
<1> QED
  BY <1>2 DEF Min

\* Of two numbers, Min is the lower one.
LEMMA MinOfTwo ==
  ASSUME NEW a \in Nat, NEW b \in Nat
  PROVE  Min({a, b}) = (IF a <= b THEN a ELSE b)
BY LeastThere

\* Some place of a sequence of numbers has the least.
LEMMA SomeLeast ==
  ASSUME NEW n \in Nat \ {0}, NEW f, \A c \in 1..n : f[c] \in Int
  PROVE  \E c \in 1..n : \A d \in 1..n : f[c] <= f[d]
<1> DEFINE T == {m \in Nat : m + 1 <= n => \E c \in 1..(m + 1) : \A d \in 1..(m + 1) : f[c] <= f[d]}
<1>1. 0 \in T
  OBVIOUS
<1>2. ASSUME NEW m \in Nat, m \in T PROVE m + 1 \in T
  <2> SUFFICES ASSUME (m + 1) + 1 <= n
               PROVE  \E c \in 1..((m + 1) + 1) : \A d \in 1..((m + 1) + 1) : f[c] <= f[d]
    OBVIOUS
  <2>1. PICK c \in 1..(m + 1) : \A d \in 1..(m + 1) : f[c] <= f[d]
    BY <1>2
  <2>2. PICK l : l = (m + 1) + 1
    OBVIOUS
  <2>3. c \in 1..l /\ l \in 1..n /\ c \in 1..n /\ \A d \in 1..l : d = l \/ d \in 1..(m + 1)
    BY <2>2
  <2>4. f[c] \in Int /\ f[l] \in Int
    BY <2>3
  <2>5. CASE f[c] <= f[l]
    BY <2>1, <2>2, <2>3, <2>5
  <2>6. CASE f[l] < f[c]
    <3>1. \A d \in 1..(m + 1) : f[d] \in Int /\ f[c] <= f[d]
      BY <2>1, <2>3
    <3>2. \A d \in 1..l : f[l] <= f[d]
      BY <2>3, <2>4, <2>6, <3>1
    <3> QED
      BY <2>2, <2>3, <3>2
  <2> QED
    BY <2>4, <2>5, <2>6
<1> HIDE DEF T
<1>3. n - 1 \in T
  BY <1>1, <1>2, SetInduction
<1>4. (n - 1) + 1 = n
  OBVIOUS
<1> QED
  BY <1>3, <1>4 DEF T

\* The numbers of a set can be put in order.
LEMMA InOrderThere ==
  ASSUME NEW n \in Nat, NEW S \in SUBSET (1..n)
  PROVE  InOrder(S) # {}
<1> DEFINE T == {m \in Nat : \E s : s \in InOrder(S \cap (1..m))}
<1>1. 0 \in T
  <2>1. <<>> \in Bijection(1..0, {})
    BY DEF Bijection, Injection, Surjection, IsInjective
  <2>2. <<>> \in SetToSeqs({}) /\ S \cap (1..0) = {}
    BY <2>1, MakePerm
  <2>3. <<>> \in InOrder({})
    BY <2>2 DEF InOrder
  <2> QED
    BY <2>2, <2>3
<1>2. ASSUME NEW m \in Nat, m \in T PROVE m + 1 \in T
  <2>1. PICK s : s \in InOrder(S \cap (1..m))
    BY <1>2
  <2>2. CASE m + 1 \notin S
    <3>1. S \cap (1..(m + 1)) = S \cap (1..m)
      BY <2>2
    <3>2. s \in InOrder(S \cap (1..(m + 1)))
      BY <2>1, <3>1
    <3> QED
      BY <3>2
  <2>3. CASE m + 1 \in S
    <3>1. PICK R, Q : R = S \cap (1..m) /\ Q = S \cap (1..(m + 1))
      OBVIOUS
    <3>2. Q = R \cup {m + 1} /\ \A x \in R : x \in Nat /\ x < m + 1
      BY <2>3, <3>1
    <3>3. IsFiniteSet(R)
      <4>1. IsFiniteSet(1..m) /\ R \in SUBSET (1..m)
        BY <3>1, FS_Interval
      <4> QED
        BY <4>1, FS_Subset
    <3>4. s \in SetToSeqs(R) /\ \A i \in 1..(Len(s) - 1) : s[i] < s[i + 1]
      BY <2>1, <3>1 DEF InOrder
    <3>5. PICK l : l = Len(s)
      OBVIOUS
    <3>6. /\ s \in Seq(R) /\ l \in Nat /\ \A j, k \in 1..l : s[j] = s[k] => j = k
          /\ \A x \in R : \E k \in 1..l : s[k] = x
      BY <3>3, <3>4, <3>5, PermFacts
    <3> DEFINE t == [k \in 1..(l + 1) |-> IF k <= l THEN s[k] ELSE m + 1]
    <3>7. \A k \in 1..l : s[k] \in R /\ t[k] = s[k]
      BY <3>5, <3>6
    <3>8. t[l + 1] = m + 1 /\ \A k \in 1..(l + 1) : k \in 1..l \/ k = l + 1
      BY <3>6
    <3>9. t \in Bijection(1..(l + 1), Q)
      <4>1. \A k \in 1..(l + 1) : t[k] \in Q
        BY <3>2, <3>7, <3>8
      <4>2. ASSUME NEW j \in 1..(l + 1), NEW k \in 1..(l + 1), t[j] = t[k] PROVE j = k
        <5>1. \A x \in 1..l : t[x] = s[x] /\ t[x] # m + 1
          BY <3>2, <3>7
        <5>2. (j \in 1..l \/ j = l + 1) /\ (k \in 1..l \/ k = l + 1)
          BY <3>8
        <5> HIDE DEF t
        <5> QED
          BY <3>6, <3>8, <4>2, <5>1, <5>2
      <4>3. \A x \in Q : \E k \in 1..(l + 1) : t[k] = x
        <5> SUFFICES ASSUME NEW x \in Q PROVE \E k \in 1..(l + 1) : t[k] = x
          OBVIOUS
        <5>1. CASE x = m + 1
          BY <3>6, <3>8, <5>1
        <5>2. CASE x \in R
          <6>1. PICK k \in 1..l : s[k] = x
            BY <3>6, <5>2
          <6>2. k \in 1..(l + 1) /\ t[k] = x
            BY <3>6, <3>7, <6>1
          <6> QED
            BY <6>2
        <5> QED
          BY <3>2, <5>1, <5>2
      <4>4. t = [k \in 1..(l + 1) |-> t[k]]
        OBVIOUS
      <4> HIDE DEF t
      <4> QED
        BY <4>1, <4>2, <4>3, <4>4 DEF Bijection, Injection, Surjection, IsInjective
    <3>10. t \in SetToSeqs(Q) /\ Len(t) = l + 1
      BY <3>6, <3>9, MakePerm
    <3>11. ASSUME NEW i \in 1..(Len(t) - 1) PROVE t[i] < t[i + 1]
      <4>1. i \in 1..l /\ (i + 1 \in 1..l \/ i = l)
        BY <3>6, <3>10, <3>11
      <4>2. CASE i = l
        BY <3>2, <3>7, <3>8, <4>1, <4>2
      <4>3. CASE i + 1 \in 1..l
        <5>1. i \in 1..(Len(s) - 1)
          BY <3>5, <3>6, <4>1, <4>3
        <5>2. s[i] < s[i + 1]
          BY <3>4, <5>1
        <5> HIDE DEF t
        <5> QED
          BY <3>7, <4>1, <4>3, <5>2
      <4> QED
        BY <4>1, <4>2, <4>3
    <3> HIDE DEF t
    <3>12. t \in InOrder(Q)
      BY <3>10, <3>11 DEF InOrder
    <3> QED
      BY <3>1, <3>12
  <2> QED
    BY <2>2, <2>3
<1> HIDE DEF T
<1>3. n \in T
  BY <1>1, <1>2, SetInduction
<1>4. S \cap (1..n) = S
  OBVIOUS
<1> QED
  BY <1>3, <1>4 DEF T

-----------------------------------------------------------------------------
(* Distances and centroids *)

\* Distances are numbers.
LEMMA DistanceTyped ==
  ASSUME NEW a \in Int, NEW b \in Int, NEW m \in Metrics
  PROVE  Distance(a, b, m) \in Int
<1>1. m \in {"cosine", "euclidean", "dot"}
  BY VectorIndexAssumption
<1>2. CASE m = "cosine"
  <2>1. \A x \in Int : Sign(x) \in {0, 1, -1}
    BY DEF Sign
  <2>2. Sign(a) * Sign(b) \in Int
    BY <2>1
  <2>3. Distance(a, b, m) = 1 - Sign(a) * Sign(b)
    BY <1>2 DEF Distance
  <2> QED
    BY <2>2, <2>3
<1>3. CASE m = "euclidean"
  BY <1>3 DEF Distance
<1>4. CASE m = "dot"
  <2>1. Distance(a, b, m) = -(a * b)
    BY <1>4 DEF Distance
  <2> QED
    BY <2>1
<1> QED
  BY <1>1, <1>2, <1>3, <1>4

\* A vector has a centroid nearest to it.
LEMMA NearestThere ==
  ASSUME NEW x \in Int, NEW cs \in Seq(Int), cs # <<>>, NEW m \in Metrics
  PROVE  /\ Nearest(x, cs, m) \in 1..Len(cs)
         /\ \A d \in 1..Len(cs) : Distance(x, cs[Nearest(x, cs, m)], m) <= Distance(x, cs[d], m)
<1>1. PICK n : n = Len(cs) /\ n \in Nat \ {0} /\ DOMAIN cs = 1..n
  OBVIOUS
<1>2. \A c \in 1..n : Distance(x, cs[c], m) \in Int
  BY <1>1, DistanceTyped
<1> DEFINE f == [c \in 1..n |-> Distance(x, cs[c], m)]
<1>3. \E c \in 1..n : \A d \in 1..n : f[c] <= f[d]
  <2>1. \A c \in 1..n : f[c] \in Int
    BY <1>2
  <2> HIDE DEF f
  <2> QED
    BY <1>1, <2>1, SomeLeast
<1>4. PICK N : N = {c \in 1..n : \A d \in 1..n : Distance(x, cs[c], m) <= Distance(x, cs[d], m)}
  OBVIOUS
<1>5. N \in SUBSET Nat /\ N # {}
  BY <1>1, <1>3, <1>4
<1>6. Nearest(x, cs, m) = Min(N)
  BY <1>1, <1>4 DEF Nearest
<1>7. Min(N) \in N
  BY <1>5, LeastThere
<1> QED
  BY <1>1, <1>4, <1>6, <1>7

\* The sums that Mean divides.
SumsVectors(g, S) ==
  g = [s \in SUBSET S |-> IF s = {} THEN 0
                          ELSE input[CHOOSE x \in s : TRUE].vector
                               + g[s \ {CHOOSE x \in s : TRUE}]]

\* The mean of some vectors is a number.
LEMMA MeanTyped ==
  ASSUME input \in Seq([row : Int, vector : Int]), NEW S \in SUBSET DOMAIN input, S # {}
  PROVE  Mean(S) \in Int
<1> DEFINE w == [v \in DOMAIN input |-> input[v].vector]
<1>1. \A v \in S : w[v] \in Int /\ w[v] = input[v].vector
  <2> SUFFICES ASSUME NEW v \in S PROVE input[v].vector \in Int
    OBVIOUS
  <2>1. v \in DOMAIN input /\ DOMAIN input = 1..Len(input)
    OBVIOUS
  <2>2. input[v] \in [row : Int, vector : Int]
    BY <2>1, ElementOfSeq
  <2> QED
    BY <2>2
<1> HIDE DEF w
<1>2. IsFiniteSet(S)
  <2>1. DOMAIN input = 1..Len(input) /\ Len(input) \in Nat
    OBVIOUS
  <2>2. IsFiniteSet(1..Len(input))
    BY <2>1, FS_Interval
  <2> QED
    BY <2>1, <2>2, FS_Subset
<1>3. \A s \in SUBSET S : s # {} => input[Pick(s)].vector = w[Pick(s)]
  <2> SUFFICES ASSUME NEW s \in SUBSET S, s # {} PROVE input[Pick(s)].vector = w[Pick(s)]
    OBVIOUS
  <2>1. Pick(s) \in s
    BY DEF Pick
  <2> QED
    BY <1>1, <2>1
<1>4. ASSUME NEW g PROVE SumsVectors(g, S) <=> SumsOn(g, w, SUBSET S)
  <2>1. [s \in SUBSET S |-> IF s = {} THEN 0 ELSE input[Pick(s)].vector + g[s \ {Pick(s)}]]
          = [s \in SUBSET S |-> IF s = {} THEN 0 ELSE w[Pick(s)] + g[s \ {Pick(s)}]]
    BY <1>3
  <2> QED
    BY <2>1 DEF SumsVectors, SumsOn, Pick
<1>5. PICK g : g = CHOOSE f : SumsVectors(f, S)
  OBVIOUS
<1>6. SumsVectors(g, S)
  BY <1>2, <1>4, <1>5, SumsExist
<1>7. g[S] \in Int
  BY <1>1, <1>2, <1>4, <1>6, SumsTyped
<1>8. MapThenSumSet(LAMBDA v : input[v].vector, S) = g[S]
  BY <1>5 DEF MapThenSumSet, MapThenFoldSet, SumsVectors
<1>9. Cardinality(S) \in Nat \ {0}
  BY <1>2, FS_CardinalityType, FS_EmptySet
<1>10. PICK a, n : a = g[S] /\ n = Cardinality(S)
  OBVIOUS
<1>11. a \in Int /\ n \in Int /\ n > 0
  BY <1>7, <1>9, <1>10
<1>12. a \div n \in Int
  BY <1>11
<1> QED
  BY <1>8, <1>10, <1>12 DEF Mean

-----------------------------------------------------------------------------
(* The invariant *)

\* The vectors nearest to centroid c of an index.
Part(ix, c) ==
  {v \in DOMAIN ix.vectors : Nearest(ix.vectors[v].vector, ix.centroids, ix.metric) = c}

\* The partitions are those of the centroids, in the order of the vectors.
Shaped(ix) ==
  /\ Len(ix.centroids) = ix.numPartitions /\ Len(ix.partitions) = ix.numPartitions
  /\ \A c \in 1..ix.numPartitions : ix.partitions[c] \in InOrder(Part(ix, c))

Indexes ==
  [vectors : Inputs \cup {<<>>}, centroids : Seq(Int), partitions : Seq(Seq(Nat)),
   numPartitions : Nat, metric : Metrics, nprobes : Int]

\* An index of kind k, built or not.
Sound(k, ix) ==
  /\ ix \in Indexes
  /\ k = "ivf" => ix.numPartitions > 0
  /\ k = "ivf" /\ ix.vectors # <<>> => Shaped(ix)

\* While Build runs it has vectors and centroids, and nothing was searched since.
BuildInv ==
  \/ pc = "idle"
  \/ /\ pc \in {"round", "assign"} /\ kind = "ivf" /\ call = NoCall
     /\ input \in Inputs /\ cents \in Seq(Int) /\ cents # <<>>

IndexInv ==
  /\ kind \in {"ivf", "flat"} /\ Sound(kind, index) /\ (file = Torn \/ Sound(kind, file))
  /\ BuildInv

\* The inputs of Build.
LEMMA InputFacts ==
  ASSUME NEW vs \in Inputs
  PROVE  /\ vs \in Seq([row : Int, vector : Int]) /\ vs # <<>>
         /\ Len(vs) \in Nat \ {0} /\ DOMAIN vs = 1..Len(vs)
         /\ \A v \in 1..Len(vs) : vs[v] \in [row : Int, vector : Int]
         /\ \A a, b \in 1..Len(vs) : vs[a].row = vs[b].row => a = b
<1>1. /\ vs \in Seq([row : Int, vector : Int]) /\ vs # <<>>
      /\ \A a, b \in DOMAIN vs : vs[a].row = vs[b].row => a = b
  BY VectorIndexAssumption
<1>2. Len(vs) \in Nat \ {0} /\ DOMAIN vs = 1..Len(vs)
  BY <1>1
<1>3. \A v \in 1..Len(vs) : vs[v] \in [row : Int, vector : Int]
  BY <1>1, ElementOfSeq
<1> QED
  BY <1>1, <1>2, <1>3

\* A new index is empty.
LEMMA NewSound ==
  ASSUME kind \in {"ivf", "flat"}, NEW ix \in NewIndexes PROVE Sound(kind, ix)
<1>1. PICK k \in (IF kind = "flat" THEN {0} ELSE Requested), m \in Metrics : ix = NewIndex(k, m)
  BY DEF NewIndexes
<1>2. k \in Nat /\ (kind = "ivf" => k > 0)
  BY VectorIndexAssumption
<1>3. <<>> \in Seq(Int) /\ <<>> \in Seq(Seq(Nat)) /\ 0 \in Int
  OBVIOUS
<1>4. ix \in Indexes /\ ix.vectors = <<>> /\ ix.numPartitions = k
  BY <1>1, <1>2, <1>3 DEF Indexes, NewIndex
<1> QED
  BY <1>2, <1>4 DEF Sound

\* A function on 1..n is a sequence.
LEMMA FunctionSeq ==
  ASSUME NEW n \in Nat, NEW S, NEW f \in [1..n -> S]
  PROVE  f \in Seq(S) /\ Len(f) = n
OBVIOUS

\* What BuildCall starts from.
Starts(cs, vs, np) ==
  LET n == Len(vs)
      k == Min({np, n}) IN
  cs = [c \in 1..k |-> vs[((c - 1) * n) \div k + 1].vector]

\* The first centroids are vectors of the input.
LEMMA FirstCentroids ==
  ASSUME NEW vs \in Inputs, NEW np \in Nat \ {0}, NEW cs, Starts(cs, vs, np)
  PROVE  cs \in Seq(Int) /\ cs # <<>>
<1>0. PICK n, k : /\ n = Len(vs) /\ k = Min({np, n})
                  /\ cs = [c \in 1..k |-> vs[((c - 1) * n) \div k + 1].vector]
  BY DEF Starts
<1>1. n \in Nat \ {0} /\ k \in Nat \ {0}
  BY <1>0, InputFacts, MinOfTwo
<1>2. ASSUME NEW c \in 1..k PROVE vs[((c - 1) * n) \div k + 1].vector \in Int
  <2>1. PICK a : a = c - 1
    OBVIOUS
  <2>2. a \in Nat /\ a < k
    BY <1>1, <2>1
  <2>3. (a * n) \div k < n /\ (a * n) \div k >= 0 /\ (a * n) \div k \in Int
    BY <1>1, <2>2
  <2>4. (a * n) \div k + 1 \in 1..n
    BY <1>1, <2>3
  <2>5. vs[(a * n) \div k + 1] \in [row : Int, vector : Int]
    BY <1>0, <2>4, InputFacts
  <2> QED
    BY <2>1, <2>5
<1>3. cs \in [1..k -> Int]
  BY <1>0, <1>2
<1>4. cs \in Seq(Int) /\ Len(cs) = k
  BY <1>1, <1>3, FunctionSeq
<1> QED
  BY <1>1, <1>4

\* What Build leaves is of one piece.
LEMMA PlacedSound ==
  ASSUME Sound("ivf", index), input \in Inputs, cents \in Seq(Int), cents # <<>>
  PROVE  Sound("ivf", Placed)
<1>1. PICK ix, k, n, ps : /\ ix = Placed /\ k = Len(cents) /\ n = Len(input)
                          /\ ps = [c \in DOMAIN cents |-> CHOOSE s \in InOrder(Members(c)) : TRUE]
  OBVIOUS
<1>2. k \in Nat \ {0} /\ DOMAIN cents = 1..k /\ n \in Nat \ {0} /\ DOMAIN input = 1..n
  BY <1>1, InputFacts
<1>3. index \in Indexes
  BY DEF Sound
<1>4. ix = [index EXCEPT !.vectors = input, !.centroids = cents, !.partitions = ps,
                         !.numPartitions = k]
  BY <1>1 DEF Placed
<1>5. /\ ix.vectors = input /\ ix.centroids = cents /\ ix.partitions = ps
      /\ ix.numPartitions = k /\ ix.metric = index.metric
  BY <1>3, <1>4 DEF Indexes
<1>6. \A c \in 1..k : Members(c) = Part(ix, c)
  BY <1>5 DEF Members, Part, Assign
<1>7. ASSUME NEW c \in 1..k PROVE ps[c] \in InOrder(Part(ix, c)) /\ ps[c] \in Seq(Nat)
  <2>1. Members(c) \in SUBSET (1..n) /\ IsFiniteSet(Members(c))
    <3>1. Members(c) \in SUBSET (1..n) /\ IsFiniteSet(1..n)
      BY <1>2, FS_Interval DEF Members
    <3> QED
      BY <3>1, FS_Subset
  <2>2. InOrder(Members(c)) # {}
    BY <1>2, <2>1, InOrderThere
  <2>3. ps[c] \in InOrder(Members(c))
    BY <1>1, <1>2, <2>2
  <2>4. ps[c] \in Seq(Members(c))
    BY <2>1, <2>3, PermFacts DEF InOrder
  <2>5. ps[c] \in Seq(Nat)
    BY <2>1, <2>4
  <2> QED
    BY <1>6, <2>3, <2>5
<1>8. ps \in Seq(Seq(Nat)) /\ Len(ps) = k
  <2>1. ps \in [1..k -> Seq(Nat)]
    BY <1>1, <1>2, <1>7
  <2> QED
    BY <1>2, <2>1
<1>9. ix \in Indexes
  BY <1>2, <1>3, <1>4, <1>8 DEF Indexes
<1>10. Shaped(ix)
  BY <1>1, <1>5, <1>7, <1>8 DEF Shaped
<1> QED
  BY <1>1, <1>2, <1>5, <1>9, <1>10 DEF Sound

\* A round keeps the centroids numbers.
LEMMA RoundCentroids ==
  ASSUME Round, input \in Inputs, cents \in Seq(Int), cents # <<>>
  PROVE  cents' \in Seq(Int) /\ cents' # <<>>
<1>1. PICK k, Empty : /\ k = Len(cents) /\ Empty = {c \in DOMAIN cents : Members(c) = {}}
  OBVIOUS
<1>2. k \in Nat \ {0} /\ DOMAIN cents = 1..k
  BY <1>1
<1>3. PICK random \in [Empty -> DOMAIN input] :
        cents' = [c \in DOMAIN cents |->
                    IF c \in Empty THEN input[random[c]].vector ELSE Mean(Members(c))]
  BY <1>1 DEF Round
<1>4. ASSUME NEW c \in 1..k
      PROVE  (IF c \in Empty THEN input[random[c]].vector ELSE Mean(Members(c))) \in Int
  <2>1. CASE c \in Empty
    <3>1. random[c] \in 1..Len(input)
      BY <2>1, InputFacts
    <3>2. input[random[c]] \in [row : Int, vector : Int]
      BY <3>1, InputFacts
    <3> QED
      BY <2>1, <3>2
  <2>2. CASE c \notin Empty
    <3>1. Members(c) \in SUBSET DOMAIN input /\ Members(c) # {}
      BY <1>1, <1>2, <2>2 DEF Members
    <3>2. Mean(Members(c)) \in Int
      BY <3>1, InputFacts, MeanTyped
    <3> QED
      BY <2>2, <3>2
  <2> QED
    BY <2>1, <2>2
<1>5. cents' \in [1..k -> Int]
  BY <1>2, <1>3, <1>4
<1> QED
  BY <1>2, <1>5

\* Every step keeps the invariant of the index.
LEMMA IndexNext ==
  ASSUME IndexInv, [Next]_vars PROVE IndexInv'
<1> USE DEF IndexInv
<1>0. index \in Indexes
  BY DEF Sound
<1>1. CASE BuildFlat
  <2>1. PICK vs \in Inputs : index' = [index EXCEPT !.vectors = vs]
    BY <1>1 DEF BuildFlat
  <2>2. index' \in Indexes /\ kind = "flat" /\ kind' = kind /\ pc' = "idle" /\ file' = file
    BY <1>0, <1>1, <2>1 DEF BuildFlat, Indexes
  <2> QED
    BY <2>2 DEF Sound, BuildInv
<1>2. CASE BuildCall
  <2>1. PICK vs \in Inputs :
          LET n == Len(vs)
              k == Min({index.numPartitions, n}) IN
          /\ input' = vs
          /\ cents' = [c \in 1..k |-> vs[((c - 1) * n) \div k + 1].vector]
    BY <1>2 DEF BuildCall
  <2>2. index.numPartitions \in Nat \ {0}
    BY <1>0, <1>2 DEF BuildCall, Sound, Indexes
  <2>3. cents' \in Seq(Int) /\ cents' # <<>>
    <3>1. PICK cs : cs = cents'
      OBVIOUS
    <3>2. Starts(cs, vs, index.numPartitions)
      BY <2>1, <3>1 DEF Starts
    <3> QED
      BY <2>2, <3>1, <3>2, FirstCentroids
  <2>4. pc' = "round" /\ kind = "ivf" /\ call' = NoCall /\ UNCHANGED <<kind, index, file>>
    BY <1>2 DEF BuildCall, NoSearch
  <2> QED
    BY <2>1, <2>3, <2>4 DEF BuildInv
<1>3. CASE Round
  <2>1. kind = "ivf" /\ call = NoCall /\ input \in Inputs /\ cents \in Seq(Int) /\ cents # <<>>
    BY <1>3 DEF Round, BuildInv
  <2>2. cents' \in Seq(Int) /\ cents' # <<>>
    BY <1>3, <2>1, RoundCentroids
  <2>3. pc' \in {"round", "assign"} /\ UNCHANGED <<kind, index, input, file, call>>
    BY <1>3 DEF Round, search
  <2> QED
    BY <2>1, <2>2, <2>3 DEF BuildInv
<1>4. CASE BuildDone
  <2>1. kind = "ivf" /\ input \in Inputs /\ cents \in Seq(Int) /\ cents # <<>>
    BY <1>4 DEF BuildDone, BuildInv
  <2>2. index' = Placed /\ pc' = "idle" /\ UNCHANGED <<kind, file>>
    BY <1>4 DEF BuildDone, EndBuild
  <2>3. Sound("ivf", Placed)
    BY <2>1, PlacedSound
  <2> QED
    BY <2>1, <2>2, <2>3 DEF BuildInv
<1>5. CASE BuildFails
  BY <1>5 DEF BuildFails, EndBuild, BuildInv
<1>6. CASE \E q \in QueryVectors, k \in Limits, m \in Metrics : Search(q, k, m)
  BY <1>6 DEF Search, build, BuildInv
<1>7. CASE SetNProbes
  <2>1. PICK n \in Probes : index' = [index EXCEPT !.nprobes = n]
    BY <1>7 DEF SetNProbes
  <2>2. n \in Int
    BY VectorIndexAssumption
  <2>3. /\ index' \in Indexes /\ index'.vectors = index.vectors /\ index'.metric = index.metric
        /\ index'.centroids = index.centroids /\ index'.partitions = index.partitions
        /\ index'.numPartitions = index.numPartitions
    BY <1>0, <2>1, <2>2 DEF Indexes
  <2>4. Sound(kind, index')
    BY <2>3 DEF Sound, Shaped, Part
  <2> QED
    BY <1>7, <2>4 DEF SetNProbes, BuildInv
<1>8. CASE Save
  BY <1>8 DEF Save, build, BuildInv
<1>9. CASE Load
  BY <1>9 DEF Load, build, BuildInv
<1>10. CASE Restart
  <2>1. Sound(kind, index')
    BY <1>10, NewSound DEF Restart
  <2> QED
    BY <1>10, <2>1 DEF Restart, EndBuild, BuildInv
<1>11. CASE UNCHANGED vars
  BY <1>11 DEF vars, build, search, BuildInv
<1> QED
  BY <1>1, <1>2, <1>3, <1>4, <1>5, <1>6, <1>7, <1>8, <1>9, <1>10, <1>11 DEF Next

\* The index is sound in every reachable state.
LEMMA IndexSafety == Spec => []IndexInv
<1>1. Init => IndexInv
  <2> SUFFICES ASSUME Init PROVE IndexInv
    OBVIOUS
  <2>1. kind \in {"ivf", "flat"}
    BY VectorIndexAssumption DEF Init
  <2>2. Sound(kind, index)
    BY <2>1, NewSound DEF Init
  <2> QED
    BY <2>1, <2>2 DEF Init, IndexInv, BuildInv
<1> QED
  BY <1>1, IndexNext, PTL DEF Spec

-----------------------------------------------------------------------------
(* What a search returns *)

\* The hit for vector v of an index.
HitOf(ix, q, m, v) ==
  [row |-> ix.vectors[v].row, score |-> Distance(q, ix.vectors[v].vector, m)]

\* s has the first k of the hits, in the order p of their scores.
Best(s, hits, k, p) ==
  LET n == Cardinality(DOMAIN hits) IN
  /\ n \in Nat /\ Len(s) = Min({k, n}) /\ DOMAIN s = 1..Len(s) /\ Len(s) \in Nat
  /\ \A i \in 1..n : p[i] \in DOMAIN hits
  /\ \A i, j \in 1..n : p[i] = p[j] => i = j
  /\ \A x \in DOMAIN hits : \E i \in 1..n : p[i] = x
  /\ \A i, j \in 1..n : i <= j => hits[p[i]].score <= hits[p[j]].score
  /\ \A i \in 1..Len(s) : s[i] = hits[p[i]]

\* p has every place of f, once, so that f grows along it.
Ordered(p, f) ==
  LET n == Cardinality(DOMAIN f) IN
  /\ n \in Nat /\ Len(p) = n /\ DOMAIN p = 1..n
  /\ \A i \in 1..n : p[i] \in DOMAIN f
  /\ \A i, j \in 1..n : p[i] = p[j] => i = j
  /\ \A x \in DOMAIN f : \E i \in 1..n : p[i] = x
  /\ \A i, j \in 1..n : i <= j => f[p[i]] <= f[p[j]]

\* An order of scores is a permutation of their places along which they grow.
LEMMA OrderFacts ==
  ASSUME NEW f, IsFiniteSet(DOMAIN f), \A x \in DOMAIN f : f[x] \in Int, NEW p \in Orders(f)
  PROVE  Ordered(p, f)
<1>0. PICK n : n = Cardinality(DOMAIN f)
  OBVIOUS
<1>1. p \in SetToSeqs(DOMAIN f) /\ \A i \in 1..(Len(p) - 1) : f[p[i]] <= f[p[i + 1]]
  BY DEF Orders
<1>2. /\ p \in Seq(DOMAIN f) /\ DOMAIN p = 1..n /\ Len(p) = n /\ n \in Nat
      /\ \A i, j \in 1..n : p[i] = p[j] => i = j
      /\ \A x \in DOMAIN f : \E i \in 1..n : p[i] = x
  BY <1>0, <1>1, PermFacts
<1>3. \A i \in 1..n : p[i] \in DOMAIN f
  BY <1>2, ElementOfSeq
<1>4. ASSUME NEW i \in 1..n, NEW j \in 1..n, i <= j PROVE f[p[i]] <= f[p[j]]
  <2>1. PICK g : g = [l \in 1..n |-> f[p[l]]]
    OBVIOUS
  <2>2. \A l \in 1..n : g[l] = f[p[l]] /\ g[l] \in Int
    BY <1>3, <2>1
  <2>3. \A l \in 1..(n - 1) : g[l] <= g[l + 1]
    <3> SUFFICES ASSUME NEW l \in 1..(n - 1) PROVE g[l] <= g[l + 1]
      OBVIOUS
    <3>1. l \in 1..n /\ l + 1 \in 1..n /\ l \in 1..(Len(p) - 1)
      BY <1>2
    <3> QED
      BY <1>1, <2>2, <3>1
  <2>4. g[i] <= g[j]
    BY <1>2, <1>4, <2>2, <2>3, Ascending
  <2> QED
    BY <2>2, <2>4
<1> QED
  BY <1>0, <1>2, <1>3, <1>4 DEF Ordered

\* TopK gives the first k hits.
LEMMA TopKFacts ==
  ASSUME NEW hits, IsFiniteSet(DOMAIN hits), \A x \in DOMAIN hits : hits[x].score \in Int,
         NEW k \in Nat, NEW s \in TopK(hits, k)
  PROVE  \E p : Best(s, hits, k, p)
<1>1. PICK f, X, n : f = [x \in X |-> hits[x].score] /\ X = DOMAIN hits /\ n = Cardinality(X)
  OBVIOUS
<1>2. PICK p \in Orders(f) : s = First([i \in DOMAIN p |-> hits[p[i]]], k)
  BY <1>1 DEF TopK
<1>3. DOMAIN f = X /\ IsFiniteSet(DOMAIN f) /\ \A x \in X : f[x] = hits[x].score /\ f[x] \in Int
  BY <1>1
<1>4. /\ n \in Nat /\ Len(p) = n /\ DOMAIN p = 1..n
      /\ \A i \in 1..n : p[i] \in X
      /\ \A i, j \in 1..n : p[i] = p[j] => i = j
      /\ \A x \in X : \E i \in 1..n : p[i] = x
      /\ \A i, j \in 1..n : i <= j => f[p[i]] <= f[p[j]]
  <2>1. Ordered(p, f)
    BY <1>2, <1>3, OrderFacts
  <2>2. n = Cardinality(DOMAIN f) /\ X = DOMAIN f
    BY <1>1, <1>3
  <2> QED
    BY <2>1, <2>2 DEF Ordered
<1>5. PICK all : all = [i \in 1..n |-> hits[p[i]]]
  OBVIOUS
<1>6. Len(all) = n
  BY <1>4, <1>5
<1>7. PICK l : l = Min({k, n})
  OBVIOUS
<1>8. l \in Nat /\ l <= n
  BY <1>4, <1>7, MinOfTwo
<1>9. s = [i \in 1..l |-> all[i]]
  BY <1>2, <1>4, <1>5, <1>6, <1>7 DEF First
<1>10. DOMAIN s = 1..l /\ Len(s) = l /\ \A i \in 1..l : s[i] = hits[p[i]]
  <2>1. DOMAIN s = 1..l /\ \A i \in 1..l : s[i] = all[i]
    BY <1>9
  <2>2. Len(s) = l
    BY <1>8, <1>9
  <2>3. \A i \in 1..l : i \in 1..n
    BY <1>4, <1>8
  <2>4. \A i \in 1..n : all[i] = hits[p[i]]
    BY <1>5
  <2> QED
    BY <2>1, <2>2, <2>3, <2>4
<1>11. \A i, j \in 1..n : i <= j => hits[p[i]].score <= hits[p[j]].score
  BY <1>3, <1>4
<1>12. Best(s, hits, k, p)
  <2>1. n = Cardinality(DOMAIN hits) /\ X = DOMAIN hits
    BY <1>1
  <2> QED
    BY <1>4, <1>7, <1>8, <1>10, <1>11, <2>1 DEF Best
<1> QED
  BY <1>12

\* s has every element of S, once, and nothing else.
Lists(s, S) ==
  /\ \A i \in DOMAIN s : s[i] \in S
  /\ \A i, j \in DOMAIN s : s[i] = s[j] => i = j
  /\ \A x \in S : \E i \in DOMAIN s : s[i] = x

\* A partition has the vectors nearest to its centroid, each once.
LEMMA PartFacts ==
  ASSUME NEW ix \in Indexes, Shaped(ix), ix.vectors # <<>>, NEW c \in 1..ix.numPartitions
  PROVE  Lists(ix.partitions[c], Part(ix, c)) /\ Part(ix, c) \in SUBSET (1..Len(ix.vectors))
<1>0. PICK s : s = ix.partitions[c]
  OBVIOUS
<1>1. s \in InOrder(Part(ix, c))
  BY <1>0 DEF Shaped
<1>2. ix.vectors \in Inputs
  BY DEF Indexes
<1>3. DOMAIN ix.vectors = 1..Len(ix.vectors) /\ Len(ix.vectors) \in Nat
  BY <1>2, InputFacts
<1>4. IsFiniteSet(1..Len(ix.vectors))
  BY <1>3, FS_Interval
<1>5. Part(ix, c) \in SUBSET (1..Len(ix.vectors))
  BY <1>3 DEF Part
<1>6. s \in SetToSeqs(Part(ix, c)) /\ IsFiniteSet(Part(ix, c))
  BY <1>1, <1>4, <1>5, FS_Subset DEF InOrder
<1>7. /\ s \in Seq(Part(ix, c)) /\ DOMAIN s = 1..Len(s)
      /\ \A j, k \in 1..Len(s) : s[j] = s[k] => j = k
      /\ \A x \in Part(ix, c) : \E k \in 1..Len(s) : s[k] = x
  BY <1>6, PermFacts
<1>8. \A i \in 1..Len(s) : s[i] \in Part(ix, c)
  BY <1>7, ElementOfSeq
<1> QED
  BY <1>0, <1>5, <1>7, <1>8 DEF Lists

\* Constant-level forms of Ranked, NumProbes and Scanned.
RankedOf(ix, q, m) == Orders([c \in 1..ix.numPartitions |-> Distance(q, ix.centroids[c], m)])

ProbesOf(ix) ==
  Min({ix.numPartitions, IF ix.nprobes <= 0 THEN MaxProbes ELSE ix.nprobes})

PlacesOf(ix, rank, np) ==
  UNION {{<<c, i>> : i \in DOMAIN ix.partitions[c]} : c \in {rank[p] : p \in 1..np}}

ScannedOf(ix, rank, np) == [x \in PlacesOf(ix, rank, np) |-> ix.partitions[x[1]][x[2]]]

\* An index that has been built.
Built(ix) == ix \in Indexes /\ Shaped(ix) /\ ix.vectors # <<>> /\ ix.numPartitions \in Nat \ {0}

\* The ranking has every partition once, a nearest one first.
RankingOf(rank, ix, q, m) ==
  /\ \A p \in 1..ix.numPartitions : rank[p] \in 1..ix.numPartitions
  /\ \A c \in 1..ix.numPartitions : \E p \in 1..ix.numPartitions : rank[p] = c
  /\ \A c \in 1..ix.numPartitions :
       Distance(q, ix.centroids[rank[1]], m) <= Distance(q, ix.centroids[c], m)

\* The order of the centroids by their distances is such a ranking.
LEMMA RankFacts ==
  ASSUME NEW ix, Built(ix), NEW q \in Int, NEW m \in Metrics, NEW rank \in RankedOf(ix, q, m)
  PROVE  RankingOf(rank, ix, q, m)
<1>0. PICK n, cs : n = ix.numPartitions /\ cs = ix.centroids
  OBVIOUS
<1>1. PICK f : f = [c \in 1..n |-> Distance(q, cs[c], m)]
  OBVIOUS
<1>2. n \in Nat \ {0} /\ cs \in Seq(Int) /\ Len(cs) = n
  BY <1>0 DEF Built, Shaped, Indexes
<1>3. \A c \in 1..n : cs[c] \in Int
  BY <1>2
<1>4. \A c \in 1..n : f[c] = Distance(q, cs[c], m) /\ f[c] \in Int
  BY <1>1, <1>3, DistanceTyped
<1>5. DOMAIN f = 1..n /\ IsFiniteSet(DOMAIN f) /\ Cardinality(DOMAIN f) = n
  BY <1>1, <1>2, FS_Interval
<1>6. rank \in Orders(f)
  BY <1>0, <1>1 DEF RankedOf
<1>6a. \A x \in DOMAIN f : f[x] \in Int
  BY <1>4, <1>5
<1>7. /\ \A p \in 1..n : rank[p] \in 1..n
      /\ \A c \in 1..n : \E p \in 1..n : rank[p] = c
      /\ \A i, j \in 1..n : i <= j => f[rank[i]] <= f[rank[j]]
  <2>1. Ordered(rank, f)
    BY <1>5, <1>6, <1>6a, OrderFacts
  <2> QED
    BY <1>5, <2>1 DEF Ordered
<1>8. ASSUME NEW c \in 1..n PROVE Distance(q, cs[rank[1]], m) <= Distance(q, cs[c], m)
  <2>1. PICK p \in 1..n : rank[p] = c
    BY <1>7
  <2>2. 1 \in 1..n /\ 1 <= p
    BY <1>2
  <2>3. f[rank[1]] <= f[rank[p]] /\ rank[1] \in 1..n
    BY <1>7, <2>2
  <2> QED
    BY <1>4, <2>1, <2>3
<1> QED
  BY <1>0, <1>7, <1>8 DEF RankingOf

\* At least one partition is looked at, and at most all of them.
LEMMA ProbesFacts ==
  ASSUME NEW ix, Built(ix) PROVE ProbesOf(ix) \in 1..ix.numPartitions
<1>1. PICK a, b : a = ix.numPartitions /\ b = IF ix.nprobes <= 0 THEN MaxProbes ELSE ix.nprobes
  OBVIOUS
<1>2. ix.nprobes \in Int
  BY DEF Built, Indexes
<1>3. a \in Nat \ {0} /\ b \in Nat \ {0}
  BY <1>1, <1>2, VectorIndexAssumption DEF Built
<1>4. Min({a, b}) \in 1..a
  BY <1>3, MinOfTwo
<1> QED
  BY <1>1, <1>4 DEF ProbesOf

\* vs gives every place of a finite set a vector of the index, none twice.
Places(vs, ix) ==
  /\ IsFiniteSet(DOMAIN vs)
  /\ vs \in Injection(DOMAIN vs, 1..Len(ix.vectors))

\* vs has np partitions of the ranking, the first one among them.
Reaches(vs, ix, rank, np) ==
  /\ \A v \in Part(ix, rank[1]) : \E x \in DOMAIN vs : vs[x] = v
  /\ np = ix.numPartitions =>
       \A v \in 1..Len(ix.vectors) : \E x \in DOMAIN vs : vs[x] = v

\* No vector is found at two places; all vectors are found when all partitions are
\* looked at, and those of the first partition of the ranking in any case.
LEMMA PlacesFacts ==
  ASSUME NEW ix, Built(ix), NEW q \in Int, NEW m \in Metrics, NEW rank, RankingOf(rank, ix, q, m),
         NEW np \in 1..ix.numPartitions, NEW vs, vs = ScannedOf(ix, rank, np)
  PROVE  Places(vs, ix) /\ Reaches(vs, ix, rank, np)
<1>1. PICK n, X, N : n = Len(ix.vectors) /\ X = DOMAIN vs /\ N = ix.numPartitions
  OBVIOUS
<1>2. /\ ix.vectors \in Inputs /\ ix.centroids \in Seq(Int) /\ Len(ix.centroids) = N
      /\ ix.metric \in Metrics /\ N \in Nat \ {0}
  BY <1>1 DEF Built, Indexes, Shaped
<1>3. n \in Nat /\ DOMAIN ix.vectors = 1..n /\ \A v \in 1..n : ix.vectors[v].vector \in Int
  BY <1>1, <1>2, InputFacts
<1>4. ASSUME NEW c \in 1..N
      PROVE  Lists(ix.partitions[c], Part(ix, c)) /\ Part(ix, c) \in SUBSET (1..n)
  BY <1>1, <1>4, PartFacts DEF Built
<1>5. ASSUME NEW x \in X
      PROVE  \E p \in 1..np : \E i \in DOMAIN ix.partitions[rank[p]] :
               x = <<rank[p], i>> /\ vs[x] = ix.partitions[rank[p]][i]
  <2>1. X = PlacesOf(ix, rank, np) /\ vs[x] = ix.partitions[x[1]][x[2]]
    BY <1>1, <1>5 DEF ScannedOf
  <2>2. PICK c \in {rank[p] : p \in 1..np} : x \in {<<c, i>> : i \in DOMAIN ix.partitions[c]}
    BY <1>5, <2>1 DEF PlacesOf
  <2>3. PICK i \in DOMAIN ix.partitions[c] : x = <<c, i>>
    BY <2>2
  <2>4. vs[x] = ix.partitions[c][i]
    BY <2>1, <2>3
  <2> QED
    BY <2>2, <2>3, <2>4
<1>6. ASSUME NEW p \in 1..np, NEW i \in DOMAIN ix.partitions[rank[p]]
      PROVE  <<rank[p], i>> \in X /\ vs[<<rank[p], i>>] = ix.partitions[rank[p]][i]
  BY <1>1 DEF ScannedOf, PlacesOf
<1>7. \A p \in 1..np : p \in 1..N /\ rank[p] \in 1..N
  <2>1. \A p \in 1..N : rank[p] \in 1..N
    BY <1>1 DEF RankingOf
  <2>2. np \in 1..N
    BY <1>1
  <2>3. \A p \in 1..np : p \in 1..N
    BY <1>2, <2>2
  <2> QED
    BY <2>1, <2>3
<1>8. \A x \in X : vs[x] \in 1..n
  <2> SUFFICES ASSUME NEW x \in X PROVE vs[x] \in 1..n
    OBVIOUS
  <2>1. PICK p \in 1..np :
          \E i \in DOMAIN ix.partitions[rank[p]] : vs[x] = ix.partitions[rank[p]][i]
    BY <1>5
  <2>2. vs[x] \in Part(ix, rank[p])
    BY <1>4, <1>7, <2>1 DEF Lists
  <2> QED
    BY <1>4, <1>7, <2>2
<1>9. ASSUME NEW x \in X, NEW y \in X, vs[x] = vs[y] PROVE x = y
  <2>1. PICK p \in 1..np : \E i \in DOMAIN ix.partitions[rank[p]] :
          x = <<rank[p], i>> /\ vs[x] = ix.partitions[rank[p]][i]
    BY <1>5
  <2>2. PICK r \in 1..np : \E j \in DOMAIN ix.partitions[rank[r]] :
          y = <<rank[r], j>> /\ vs[y] = ix.partitions[rank[r]][j]
    BY <1>5
  <2>3. vs[x] \in Part(ix, rank[p]) /\ vs[y] \in Part(ix, rank[r])
    BY <1>4, <1>7, <2>1, <2>2 DEF Lists
  <2>4. rank[p] = rank[r]
    BY <1>9, <2>3 DEF Part
  <2>5. Lists(ix.partitions[rank[p]], Part(ix, rank[p]))
    BY <1>4, <1>7
  <2>6. PICK i \in DOMAIN ix.partitions[rank[p]] :
          x = <<rank[p], i>> /\ vs[x] = ix.partitions[rank[p]][i]
    BY <2>1
  <2>7. PICK j \in DOMAIN ix.partitions[rank[p]] :
          y = <<rank[p], j>> /\ vs[y] = ix.partitions[rank[p]][j]
    BY <2>2, <2>4
  <2>8. i = j
    BY <1>9, <2>5, <2>6, <2>7 DEF Lists
  <2> QED
    BY <2>6, <2>7, <2>8
<1>10. Places(vs, ix)
  <2>1. vs = [x \in X |-> vs[x]]
    BY <1>1 DEF ScannedOf
  <2>2. vs \in Injection(X, 1..n)
    BY <1>8, <1>9, <2>1 DEF Injection, IsInjective
  <2>3. IsFiniteSet(1..n)
    BY <1>3, FS_Interval
  <2>4. IsFiniteSet(X)
    BY <2>2, <2>3, FS_Injection
  <2> QED
    BY <1>1, <2>2, <2>4 DEF Places
<1>11. ASSUME NEW p \in 1..np, NEW v \in Part(ix, rank[p]) PROVE \E x \in X : vs[x] = v
  <2>1. PICK i \in DOMAIN ix.partitions[rank[p]] : ix.partitions[rank[p]][i] = v
    BY <1>4, <1>7 DEF Lists
  <2> QED
    BY <1>6, <2>1
<1>12. 1 \in 1..np
  BY <1>1, <1>2
<1>13. ASSUME np = N, NEW v \in 1..n PROVE \E x \in X : vs[x] = v
  <2>1. PICK c : c = Nearest(ix.vectors[v].vector, ix.centroids, ix.metric)
    OBVIOUS
  <2>2. ix.centroids # <<>>
    BY <1>2
  <2>3. c \in 1..N
    BY <1>2, <1>3, <2>1, <2>2, NearestThere
  <2>4. PICK p \in 1..N : rank[p] = c
    BY <1>1, <2>3 DEF RankingOf
  <2>5. v \in Part(ix, rank[p])
    BY <1>3, <2>1, <2>4 DEF Part
  <2> QED
    BY <1>11, <1>13, <2>4, <2>5
<1> QED
  BY <1>1, <1>10, <1>11, <1>12, <1>13 DEF Reaches

\* The hits at the places of vs.
HitsAt(ix, q, m, vs) == [x \in DOMAIN vs |-> HitOf(ix, q, m, vs[x])]

\* Every hit is that of its vector, and no two have the row of the same vector.
LEMMA HitFacts ==
  ASSUME NEW ix, ix.vectors \in Inputs, NEW q \in Int, NEW m \in Metrics, NEW vs, Places(vs, ix),
         NEW hits, hits = HitsAt(ix, q, m, vs)
  PROVE  /\ DOMAIN hits = DOMAIN vs /\ IsFiniteSet(DOMAIN hits)
         /\ \A x \in DOMAIN vs : /\ vs[x] \in 1..Len(ix.vectors)
                                 /\ hits[x] = HitOf(ix, q, m, vs[x]) /\ hits[x].score \in Int
         /\ \A x, y \in DOMAIN vs : hits[x].row = hits[y].row => x = y
<1>1. PICK n, X : n = Len(ix.vectors) /\ X = DOMAIN vs
  OBVIOUS
<1>3. \A v \in 1..n : ix.vectors[v].vector \in Int
  BY <1>1, InputFacts
<1>4. \A a, b \in 1..n : ix.vectors[a].row = ix.vectors[b].row => a = b
  BY <1>1, InputFacts
<1>5. /\ \A x \in X : vs[x] \in 1..n
      /\ \A x, y \in X : vs[x] = vs[y] => x = y
  BY <1>1 DEF Places, Injection, IsInjective
<1>6. DOMAIN hits = X /\ \A x \in X : hits[x] = HitOf(ix, q, m, vs[x])
  BY <1>1 DEF HitsAt
<1>7. \A v \in 1..n : HitOf(ix, q, m, v).score \in Int
                      /\ HitOf(ix, q, m, v).row = ix.vectors[v].row
  BY <1>3, DistanceTyped DEF HitOf
<1>8. \A x \in X : hits[x].score \in Int
  BY <1>5, <1>6, <1>7
<1>9. ASSUME NEW x \in X, NEW y \in X, hits[x].row = hits[y].row PROVE x = y
  BY <1>4, <1>5, <1>6, <1>7, <1>9
<1> QED
  BY <1>1, <1>5, <1>6, <1>8, <1>9 DEF Places

\* The rows of some hits.
RowsOf(hits) == {hits[i].row : i \in DOMAIN hits}

\* What ExactWhenAllProbed says of an answer.
ExactFor(ix, c, hits) ==
  LET n == Len(ix.vectors) IN
  /\ Len(hits) = Min({c.k, n}) /\ Cardinality(RowsOf(hits)) = Len(hits)
  /\ \A i \in DOMAIN hits : \E v \in 1..n : hits[i] = HitOf(ix, c.query, c.metric, v)
  /\ \A i \in 1..(Len(hits) - 1) : hits[i].score <= hits[i + 1].score
  /\ \A v \in 1..n : ix.vectors[v].row \notin RowsOf(hits) =>
       \A i \in DOMAIN hits : hits[i].score <= HitOf(ix, c.query, c.metric, v).score

\* The first k of the hits of all vectors are the nearest.
LEMMA ExactScan ==
  ASSUME NEW ix, ix.vectors \in Inputs, NEW q \in Int, NEW m \in Metrics, NEW k \in Nat \ {0},
         NEW vs, Places(vs, ix), \A v \in 1..Len(ix.vectors) : \E x \in DOMAIN vs : vs[x] = v,
         NEW s \in TopK(HitsAt(ix, q, m, vs), k)
  PROVE  ExactFor(ix, [query |-> q, k |-> k, metric |-> m], s)
<1>1. PICK n, X, hits, l : /\ n = Len(ix.vectors) /\ X = DOMAIN vs
                           /\ hits = HitsAt(ix, q, m, vs) /\ l = Len(s)
  OBVIOUS
<1>2. n \in Nat
  BY <1>1, InputFacts
<1>3. /\ DOMAIN hits = X /\ IsFiniteSet(X)
      /\ \A x \in X : /\ vs[x] \in 1..n
                      /\ hits[x] = HitOf(ix, q, m, vs[x]) /\ hits[x].score \in Int
      /\ \A x, y \in X : hits[x].row = hits[y].row => x = y
  BY <1>1, HitFacts
<1>4. Cardinality(X) = n
  <2>1. vs \in Injection(X, 1..n)
    BY <1>1 DEF Places
  <2>2. vs \in Surjection(X, 1..n)
    BY <1>1, <2>1 DEF Injection, Surjection
  <2>3. IsFiniteSet(1..n) /\ Cardinality(1..n) = n
    BY <1>2, FS_Interval
  <2>4. Cardinality(X) = Cardinality(1..n)
    BY <2>1, <2>2, <2>3, FS_Injection
  <2> QED
    BY <2>3, <2>4
<1>5. PICK p : Best(s, hits, k, p)
  BY <1>1, <1>3, TopKFacts
<1>6. /\ l = Min({k, n}) /\ DOMAIN s = 1..l /\ l \in Nat
      /\ \A i \in 1..n : p[i] \in X
      /\ \A i, j \in 1..n : p[i] = p[j] => i = j
      /\ \A x \in X : \E i \in 1..n : p[i] = x
      /\ \A i, j \in 1..n : i <= j => hits[p[i]].score <= hits[p[j]].score
      /\ \A i \in 1..l : s[i] = hits[p[i]]
  <2>1. PICK c : c = Cardinality(X)
    OBVIOUS
  <2>2. /\ l = Min({k, c}) /\ DOMAIN s = 1..l /\ l \in Nat
        /\ \A i \in 1..c : p[i] \in X
        /\ \A i, j \in 1..c : p[i] = p[j] => i = j
        /\ \A x \in X : \E i \in 1..c : p[i] = x
        /\ \A i, j \in 1..c : i <= j => hits[p[i]].score <= hits[p[j]].score
        /\ \A i \in 1..l : s[i] = hits[p[i]]
    BY <1>1, <1>3, <1>5, <2>1 DEF Best
  <2>3. c = n
    BY <1>4, <2>1
  <2> QED
    BY <2>2, <2>3
<1>7. l <= n /\ \A i \in 1..l : i \in 1..n /\ p[i] \in X
  <2>1. l <= n
    BY <1>2, <1>6, MinOfTwo
  <2>2. \A i \in 1..l : i \in 1..n
    BY <1>2, <1>6, <2>1
  <2> QED
    BY <1>6, <2>1, <2>2
<1>8. Cardinality(RowsOf(s)) = l
  <2>1. PICK R, f : R = RowsOf(s) /\ f = [i \in 1..l |-> s[i].row]
    OBVIOUS
  <2>2. \A i \in 1..l : f[i] \in R /\ f[i] = hits[p[i]].row
    BY <1>6, <2>1 DEF RowsOf
  <2>3. ASSUME NEW i \in 1..l, NEW j \in 1..l, f[i] = f[j] PROVE i = j
    <3>1. hits[p[i]].row = hits[p[j]].row /\ p[i] \in X /\ p[j] \in X
      BY <1>7, <2>2, <2>3
    <3>2. p[i] = p[j]
      BY <1>3, <3>1
    <3> QED
      BY <1>6, <1>7, <3>2
  <2>4. ASSUME NEW r \in R PROVE \E i \in 1..l : f[i] = r
    <3>1. PICK i \in DOMAIN s : r = s[i].row
      BY <2>1 DEF RowsOf
    <3>2. i \in 1..l /\ f[i] = s[i].row
      BY <1>6, <2>1, <3>1
    <3> QED
      BY <3>1, <3>2
  <2>5. f = [i \in 1..l |-> f[i]]
    BY <2>1
  <2>6. f \in Bijection(1..l, R)
    BY <2>2, <2>3, <2>4, <2>5 DEF Bijection, Injection, Surjection, IsInjective
  <2>7. Cardinality(R) = l
    BY <1>6, <2>6, FS_CountingElements DEF ExistsBijection
  <2> QED
    BY <2>1, <2>7
<1>9. \A i \in 1..l : \E v \in 1..n : s[i] = HitOf(ix, q, m, v)
  <2> SUFFICES ASSUME NEW i \in 1..l PROVE \E v \in 1..n : s[i] = HitOf(ix, q, m, v)
    OBVIOUS
  <2>1. p[i] \in X /\ s[i] = hits[p[i]]
    BY <1>6, <1>7
  <2> QED
    BY <1>3, <2>1
<1>10. ASSUME NEW i \in 1..(l - 1) PROVE s[i].score <= s[i + 1].score
  <2>1. i \in 1..l /\ i + 1 \in 1..l /\ i <= i + 1
    BY <1>6
  <2>2. i \in 1..n /\ i + 1 \in 1..n
    BY <1>7, <2>1
  <2>3. hits[p[i]].score <= hits[p[i + 1]].score
    BY <1>6, <2>1, <2>2
  <2>4. s[i] = hits[p[i]] /\ s[i + 1] = hits[p[i + 1]]
    BY <1>6, <2>1
  <2> QED
    BY <2>3, <2>4
<1>11. ASSUME NEW v \in 1..n, ix.vectors[v].row \notin RowsOf(s), NEW i \in 1..l
       PROVE  s[i].score <= HitOf(ix, q, m, v).score
  <2>1. PICK x \in X : vs[x] = v
    BY <1>1
  <2>2. PICK j \in 1..n : p[j] = x
    BY <1>6, <2>1
  <2>3. hits[x] = HitOf(ix, q, m, v) /\ hits[x].row = ix.vectors[v].row
    BY <1>3, <2>1 DEF HitOf
  <2>4. j \notin 1..l
    <3> SUFFICES ASSUME j \in 1..l PROVE FALSE
      OBVIOUS
    <3>1. s[j].row \in RowsOf(s)
      BY <1>6 DEF RowsOf
    <3> QED
      BY <1>6, <1>11, <2>2, <2>3, <3>1
  <2>5. i \in 1..n /\ i <= j
    <3>1. i \in 1..n
      BY <1>7
    <3>2. j > l /\ i <= l
      BY <1>2, <1>6, <2>4
    <3> QED
      BY <1>2, <1>6, <3>1, <3>2
  <2>6. hits[p[i]].score <= hits[p[j]].score
    BY <1>6, <2>5
  <2> QED
    BY <1>6, <2>2, <2>3, <2>6
<1>12. PICK c : c = [query |-> q, k |-> k, metric |-> m]
  OBVIOUS
<1>13. c.query = q /\ c.k = k /\ c.metric = m
  BY <1>12
<1>14. ExactFor(ix, c, s)
  <2>1. Len(ix.vectors) = n /\ Len(s) = l /\ DOMAIN s = 1..l /\ l = Min({c.k, n})
    BY <1>1, <1>6, <1>13
  <2>2. \A i \in 1..l : \E v \in 1..n : s[i] = HitOf(ix, c.query, c.metric, v)
    BY <1>9, <1>13
  <2>3. \A v \in 1..n : ix.vectors[v].row \notin RowsOf(s) =>
          \A i \in 1..l : s[i].score <= HitOf(ix, c.query, c.metric, v).score
    BY <1>11, <1>13
  <2> QED
    BY <1>8, <1>10, <2>1, <2>2, <2>3 DEF ExactFor
<1> QED
  BY <1>12, <1>14

\* The first of the best hits is no farther than any of them.
LEMMA FirstScan ==
  ASSUME NEW ix, ix.vectors \in Inputs, NEW q \in Int, NEW m \in Metrics, NEW k \in Nat \ {0},
         NEW vs, Places(vs, ix), NEW x \in DOMAIN vs,
         NEW s \in TopK(HitsAt(ix, q, m, vs), k)
  PROVE  s # <<>> /\ s[1].score <= HitOf(ix, q, m, vs[x]).score
<1>1. PICK X, hits, l, n : /\ X = DOMAIN vs /\ hits = HitsAt(ix, q, m, vs) /\ l = Len(s)
                           /\ n = Cardinality(X)
  OBVIOUS
<1>2. DOMAIN hits = X /\ IsFiniteSet(X) /\ \A y \in X : hits[y].score \in Int
  BY <1>1, HitFacts
<1>3. hits[x] = HitOf(ix, q, m, vs[x])
  BY <1>1, HitFacts
<1>4. PICK p : Best(s, hits, k, p)
  BY <1>1, <1>2, TopKFacts
<1>5. /\ n \in Nat /\ l = Min({k, n}) /\ DOMAIN s = 1..l /\ l \in Nat
      /\ \A y \in X : \E i \in 1..n : p[i] = y
      /\ \A i, j \in 1..n : i <= j => hits[p[i]].score <= hits[p[j]].score
      /\ \A i \in 1..l : s[i] = hits[p[i]]
  BY <1>1, <1>2, <1>4 DEF Best
<1>6. PICK j \in 1..n : p[j] = x
  BY <1>1, <1>5
<1>7. n > 0 /\ 1 \in 1..n /\ 1 <= j
  BY <1>5, <1>6
<1>8. l > 0 /\ 1 \in 1..l
  BY <1>5, <1>7, MinOfTwo
<1>9. s # <<>>
  BY <1>1, <1>8
<1>10. hits[p[1]].score <= hits[p[j]].score /\ s[1] = hits[p[1]]
  BY <1>5, <1>7, <1>8
<1> QED
  BY <1>3, <1>6, <1>9, <1>10

\* A search that gets as far as the vectors fails, or returns the first k of their hits.
LEMMA ScanForms ==
  ASSUME NEW vs, NEW q, NEW k, NEW m, call' = [query |-> q, k |-> k, metric |-> m],
         Scan(vs, q, k, m)
  PROVE  \/ answer' = Error
         \/ \E s \in TopK(HitsAt(index, q, m, vs), k) : answer' = Hits(s)
<1>1. call'.query = q /\ call'.metric = m
  OBVIOUS
<1>2. [x \in DOMAIN vs |-> Hit(vs[x])] = HitsAt(index, q, m, vs)
  BY <1>1 DEF Hit, HitOf, HitsAt
<1> QED
  BY <1>2 DEF Scan

\* Constant-level forms of ExactWhenAllProbed and FindsSelf.
Answers(c, a) == c # NoCall /\ c.k > 0 /\ a.ok

ExactIn(kd, ix, c, a) ==
  Answers(c, a) /\ (kd = "flat" \/ ProbesOf(ix) = ix.numPartitions) => ExactFor(ix, c, a.hits)

Distinct(ix, c) ==
  \A i, j \in DOMAIN ix.centroids :
    i # j => Distance(c.query, ix.centroids[i], c.metric) #
             Distance(c.query, ix.centroids[j], c.metric)

FindsIn(kd, ix, c, a) ==
  Answers(c, a) /\ kd = "ivf" /\ c.metric = ix.metric =>
    \A v \in DOMAIN ix.vectors :
      ix.vectors[v].vector = c.query /\ Distinct(ix, c)
      => a.hits # <<>> /\ a.hits[1].score <= HitOf(ix, c.query, c.metric, v).score

\* They are the two properties, before and after a step.
LEMMA ExactForms ==
  /\ ExactWhenAllProbed <=> ExactIn(kind, index, call, answer)
  /\ ExactWhenAllProbed' <=> ExactIn(kind', index', call', answer')
<1>1. ExactWhenAllProbed <=> ExactIn(kind, index, call, answer)
  BY DEF ExactWhenAllProbed, ExactIn, Answered, Answers, NumProbes, ProbesOf, ExactFor, Returned,
         RowsOf, Score, HitOf
<1>2. ExactWhenAllProbed' <=> ExactIn(kind', index', call', answer')
  BY DEF ExactWhenAllProbed, ExactIn, Answered, Answers, NumProbes, ProbesOf, ExactFor, Returned,
         RowsOf, Score, HitOf
<1> QED
  BY <1>1, <1>2

\* The same for FindsSelf.
LEMMA FindsForms ==
  /\ FindsSelf <=> FindsIn(kind, index, call, answer)
  /\ FindsSelf' <=> FindsIn(kind', index', call', answer')
<1>1. FindsSelf <=> FindsIn(kind, index, call, answer)
  BY DEF FindsSelf, FindsIn, Answered, Answers, Distinct, Score, HitOf
<1>2. FindsSelf' <=> FindsIn(kind', index', call', answer')
  BY DEF FindsSelf, FindsIn, Answered, Answers, Distinct, Score, HitOf
<1> QED
  BY <1>1, <1>2

\* A search of all vectors finds the nearest.
LEMMA FlatAnswers ==
  ASSUME index.vectors \in Inputs, NEW q \in Int, NEW k \in Nat \ {0}, NEW m \in Metrics,
         call' = [query |-> q, k |-> k, metric |-> m], Scan(AllVectors, q, k, m)
  PROVE  answer' = Error \/ ExactFor(index, call', answer'.hits)
<1>1. PICK n, vs : n = Len(index.vectors) /\ vs = AllVectors
  OBVIOUS
<1>2. n \in Nat /\ DOMAIN index.vectors = 1..n
  BY <1>1, InputFacts
<1>3. vs = [v \in 1..n |-> v]
  BY <1>1, <1>2 DEF AllVectors
<1>4. DOMAIN vs = 1..n /\ \A v \in 1..n : vs[v] = v
  BY <1>3
<1>5. Places(vs, index)
  <2>1. IsFiniteSet(1..n)
    BY <1>2, FS_Interval
  <2>2. vs \in Injection(1..n, 1..n)
    BY <1>3 DEF Injection, IsInjective
  <2> QED
    BY <1>1, <1>4, <2>1, <2>2 DEF Places
<1>6. CASE answer' = Error
  BY <1>6
<1>7. CASE \E s \in TopK(HitsAt(index, q, m, vs), k) : answer' = Hits(s)
  <2>1. PICK s \in TopK(HitsAt(index, q, m, vs), k) : answer' = Hits(s)
    BY <1>7
  <2>2. \A v \in 1..Len(index.vectors) : \E x \in DOMAIN vs : vs[x] = v
    BY <1>1, <1>4
  <2>3. ExactFor(index, [query |-> q, k |-> k, metric |-> m], s)
    BY <1>5, <2>1, <2>2, ExactScan
  <2>4. answer'.hits = s
    BY <2>1 DEF Hits
  <2> QED
    BY <2>3, <2>4
<1> QED
  BY <1>1, <1>6, <1>7, ScanForms

\* A search of the partitions finds the nearest vectors when it looks at all of
\* them, and in any case none nearer than a vector that is its own query.
LEMMA ProbeAnswers ==
  ASSUME Built(index), NEW q \in Int, NEW k \in Nat \ {0}, NEW m \in Metrics,
         call' = [query |-> q, k |-> k, metric |-> m],
         NEW rank \in Ranked(q, m), Scan(Scanned(rank), q, k, m)
  PROVE  /\ answer' = Error \/ NumProbes # index.numPartitions
            \/ ExactFor(index, call', answer'.hits)
         /\ answer' = Error \/ FindsIn("ivf", index, call', answer')
<1>1. PICK vs, np, n, N : /\ vs = Scanned(rank) /\ np = NumProbes /\ n = Len(index.vectors)
                          /\ N = index.numPartitions
  OBVIOUS
<1>2. /\ index.vectors \in Inputs /\ index.centroids \in Seq(Int) /\ Len(index.centroids) = N
      /\ index.metric \in Metrics /\ N \in Nat \ {0}
  BY <1>1 DEF Built, Indexes, Shaped
<1>3. np = ProbesOf(index) /\ vs = ScannedOf(index, rank, np) /\ rank \in RankedOf(index, q, m)
  BY <1>1 DEF NumProbes, ProbesOf, Scanned, ScannedOf, PlacesOf, Ranked, RankedOf
<1>4. np \in 1..index.numPartitions
  BY <1>3, ProbesFacts
<1>5. RankingOf(rank, index, q, m)
  BY <1>3, RankFacts
<1>6. /\ Places(vs, index)
      /\ \A v \in Part(index, rank[1]) : \E x \in DOMAIN vs : vs[x] = v
      /\ np = index.numPartitions =>
           \A v \in 1..Len(index.vectors) : \E x \in DOMAIN vs : vs[x] = v
  <2>1. Places(vs, index) /\ Reaches(vs, index, rank, np)
    BY <1>3, <1>4, <1>5, PlacesFacts
  <2> QED
    BY <2>1 DEF Reaches
<1>7. CASE answer' = Error
  BY <1>7
<1>8. CASE \E s \in TopK(HitsAt(index, q, m, vs), k) : answer' = Hits(s)
  <2>1. PICK s \in TopK(HitsAt(index, q, m, vs), k) : answer' = Hits(s)
    BY <1>8
  <2>2. answer'.hits = s
    BY <2>1 DEF Hits
  <2>3. ASSUME np = index.numPartitions PROVE ExactFor(index, call', answer'.hits)
    <3>1. \A v \in 1..Len(index.vectors) : \E x \in DOMAIN vs : vs[x] = v
      BY <1>6, <2>3
    <3>2. ExactFor(index, [query |-> q, k |-> k, metric |-> m], s)
      BY <1>2, <1>6, <2>1, <3>1, ExactScan
    <3> QED
      BY <2>2, <3>2
  <2>4. ASSUME m = index.metric, NEW v \in DOMAIN index.vectors, index.vectors[v].vector = q,
               \A i, j \in 1..N : i # j => Distance(q, index.centroids[i], m) #
                                          Distance(q, index.centroids[j], m)
        PROVE  s # <<>> /\ s[1].score <= HitOf(index, q, m, v).score
    <3>1. PICK c, d : c = rank[1] /\ d = Nearest(q, index.centroids, m)
      OBVIOUS
    <3>2. 1 \in 1..N /\ c \in 1..N
      BY <1>1, <1>2, <1>5, <3>1 DEF RankingOf
    <3>3. /\ d \in 1..N
          /\ \A e \in 1..N : Distance(q, index.centroids[d], m) <= Distance(q, index.centroids[e], m)
      <4>1. index.centroids # <<>>
        BY <1>2
      <4> QED
        BY <1>2, <3>1, <4>1, NearestThere
    <3>4. Distance(q, index.centroids[c], m) <= Distance(q, index.centroids[d], m)
      BY <1>1, <1>5, <3>1, <3>3 DEF RankingOf
    <3>5. Distance(q, index.centroids[d], m) <= Distance(q, index.centroids[c], m)
      BY <3>2, <3>3
    <3>6. index.centroids[c] \in Int /\ index.centroids[d] \in Int
      BY <1>2, <3>2, <3>3
    <3>7. Distance(q, index.centroids[c], m) \in Int /\ Distance(q, index.centroids[d], m) \in Int
      BY <3>6, DistanceTyped
    <3>8. c = d
      BY <2>4, <3>2, <3>3, <3>4, <3>5, <3>7
    <3>9. v \in Part(index, rank[1])
      BY <2>4, <3>1, <3>8 DEF Part
    <3>10. PICK x \in DOMAIN vs : vs[x] = v
      BY <1>6, <3>9
    <3> QED
      BY <1>2, <1>6, <2>1, <3>10, FirstScan
  <2>5. FindsIn("ivf", index, call', answer')
    <3>1. call'.query = q /\ call'.metric = m
      OBVIOUS
    <3>2. DOMAIN index.centroids = 1..N
      BY <1>2
    <3> QED
      BY <2>2, <2>4, <3>1, <3>2 DEF FindsIn, Distinct
  <2> QED
    BY <1>1, <2>3, <2>5
<1> QED
  BY <1>1, <1>7, <1>8, ScanForms

\* What a search returns.
LEMMA SearchAnswers ==
  ASSUME IndexInv, NEW q \in QueryVectors, NEW k \in Limits, NEW m \in Metrics, Search(q, k, m)
  PROVE  ExactIn(kind, index, call', answer') /\ FindsIn(kind, index, call', answer')
<1>1. index \in Indexes /\ kind \in {"ivf", "flat"} /\ Sound(kind, index)
  BY DEF IndexInv, Sound
<1>2. q \in Int /\ k \in Int
  BY VectorIndexAssumption
<1>3. call' = [query |-> q, k |-> k, metric |-> m] /\ call'.k = k
  BY DEF Search
<1>4. CASE answer' = Error
  BY <1>4 DEF Error, ExactIn, FindsIn, Answers
<1>5. CASE k <= 0
  <2>1. ~(call'.k > 0)
    BY <1>2, <1>3, <1>5
  <2> QED
    BY <2>1 DEF ExactIn, FindsIn, Answers
<1>6. CASE index.vectors # <<>> /\ k > 0 /\ kind = "flat" /\ Scan(AllVectors, q, k, m)
  <2>1. index.vectors \in Inputs /\ k \in Nat \ {0}
    BY <1>1, <1>2, <1>6 DEF Indexes
  <2>2. answer' = Error \/ ExactFor(index, call', answer'.hits)
    BY <1>2, <1>3, <1>6, <2>1, FlatAnswers
  <2>3. kind # "ivf"
    BY <1>6
  <2> QED
    BY <1>4, <2>2, <2>3 DEF ExactIn, FindsIn
<1>7. CASE /\ index.vectors # <<>> /\ k > 0 /\ kind = "ivf"
           /\ \E rank \in Ranked(q, m) : Scan(Scanned(rank), q, k, m)
  <2>1. PICK rank \in Ranked(q, m) : Scan(Scanned(rank), q, k, m)
    BY <1>7
  <2>2. Built(index) /\ k \in Nat \ {0}
    BY <1>1, <1>2, <1>7 DEF Built, Sound, Indexes
  <2>3. /\ answer' = Error \/ NumProbes # index.numPartitions
           \/ ExactFor(index, call', answer'.hits)
        /\ answer' = Error \/ FindsIn("ivf", index, call', answer')
    BY <1>2, <1>3, <2>1, <2>2, ProbeAnswers
  <2>4. NumProbes = ProbesOf(index) /\ kind = "ivf"
    BY <1>7 DEF NumProbes, ProbesOf
  <2> QED
    BY <1>4, <2>3, <2>4 DEF ExactIn
<1> QED
  BY <1>4, <1>5, <1>6, <1>7 DEF Search

\* Every step keeps what the last answer says, or forgets the answer.
LEMMA AnswersNext ==
  ASSUME IndexInv, [Next]_vars,
         ExactIn(kind, index, call, answer), FindsIn(kind, index, call, answer)
  PROVE  ExactIn(kind', index', call', answer') /\ FindsIn(kind', index', call', answer')
<1>1. CASE call' = NoCall
  BY <1>1 DEF ExactIn, FindsIn, Answers
<1>2. CASE UNCHANGED <<kind, index, call, answer>>
  BY <1>2
<1>3. CASE BuildFlat \/ BuildCall \/ SetNProbes \/ Save \/ Load \/ Restart
  BY <1>1, <1>3 DEF BuildFlat, BuildCall, SetNProbes, Save, Load, Restart, NoSearch
<1>4. CASE BuildDone
  <2>1. call = NoCall
    BY <1>4 DEF BuildDone, IndexInv, BuildInv
  <2> QED
    BY <1>1, <1>4, <2>1 DEF BuildDone, search
<1>5. CASE Round \/ BuildFails \/ UNCHANGED vars
  BY <1>2, <1>5 DEF Round, BuildFails, vars, search
<1>6. CASE \E q \in QueryVectors, k \in Limits, m \in Metrics : Search(q, k, m)
  <2>1. PICK q \in QueryVectors, k \in Limits, m \in Metrics : Search(q, k, m)
    BY <1>6
  <2>2. UNCHANGED <<kind, index>>
    BY <2>1 DEF Search
  <2> QED
    BY <2>1, <2>2, SearchAnswers
<1> QED
  BY <1>3, <1>4, <1>5, <1>6 DEF Next

\* ivf_flat.go:77-178, 275-299.  Through any builds, failed builds, saves that
\* break off, loads and restarts, a built index has as many partitions as
\* centroids, and every vector once, in the partition of its nearest centroid.
THEOREM IndexOfOnePiece == Spec => []IndexCoherent
<1>1. ASSUME IndexInv PROVE IndexCoherent
  <2> SUFFICES ASSUME kind = "ivf", index.vectors # <<>>
               PROVE  /\ Len(index.centroids) = index.numPartitions
                      /\ Len(index.partitions) = index.numPartitions
                      /\ \A v \in DOMAIN index.vectors : \A p \in DOMAIN index.partitions :
                           Cardinality({i \in DOMAIN index.partitions[p] :
                                          index.partitions[p][i] = v}) =
                             (IF p = Nearest(index.vectors[v].vector, index.centroids, index.metric)
                              THEN 1 ELSE 0)
    BY DEF IndexCoherent
  <2>1. Shaped(index) /\ index \in Indexes
    BY <1>1 DEF IndexInv, Sound
  <2>2. Len(index.partitions) = index.numPartitions /\ Len(index.centroids) = index.numPartitions
        /\ DOMAIN index.partitions = 1..index.numPartitions
    BY <2>1 DEF Shaped, Indexes
  <2>3. ASSUME NEW v \in DOMAIN index.vectors, NEW p \in DOMAIN index.partitions
        PROVE  Cardinality({i \in DOMAIN index.partitions[p] : index.partitions[p][i] = v}) =
                 (IF p = Nearest(index.vectors[v].vector, index.centroids, index.metric)
                  THEN 1 ELSE 0)
    <3>1. PICK s, K : s = index.partitions[p] /\ K = {i \in DOMAIN s : s[i] = v}
      OBVIOUS
    <3>2. p \in 1..index.numPartitions
      BY <2>2
    <3>3. Lists(s, Part(index, p))
      BY <2>1, <3>1, <3>2, PartFacts
    <3>4. CASE p = Nearest(index.vectors[v].vector, index.centroids, index.metric)
      <4>1. v \in Part(index, p)
        BY <3>4 DEF Part
      <4>2. PICK k \in DOMAIN s : s[k] = v
        BY <3>3, <4>1 DEF Lists
      <4>3. K = {k}
        <5>1. ASSUME NEW i \in K PROVE i = k
          <6>1. i \in DOMAIN s /\ s[i] = s[k]
            BY <3>1, <4>2
          <6> QED
            BY <3>3, <4>2, <6>1 DEF Lists
        <5>2. k \in K
          BY <3>1, <4>2
        <5> QED
          BY <5>1, <5>2
      <4>4. Cardinality(K) = 1
        BY <4>3, FS_Singleton
      <4> QED
        BY <3>1, <3>4, <4>4
    <3>5. CASE p # Nearest(index.vectors[v].vector, index.centroids, index.metric)
      <4>1. v \notin Part(index, p)
        BY <3>5 DEF Part
      <4>2. \A i \in DOMAIN s : s[i] \in Part(index, p)
        BY <3>3 DEF Lists
      <4>3. K = {}
        BY <3>1, <4>1, <4>2
      <4>4. Cardinality(K) = 0
        BY <4>3, FS_EmptySet
      <4> QED
        BY <3>1, <3>5, <4>4
    <3> QED
      BY <3>4, <3>5
  <2> QED
    BY <2>2, <2>3
<1> QED
  BY <1>1, IndexSafety, PTL

\* Every answer of a search is what the two properties say.
LEMMA AnswersSafety == Spec => [](ExactWhenAllProbed /\ FindsSelf)
<1>1. Init => ExactIn(kind, index, call, answer) /\ FindsIn(kind, index, call, answer)
  BY DEF Init, ExactIn, FindsIn, Answers
<1>2. Init => ExactWhenAllProbed /\ FindsSelf
  BY <1>1, ExactForms, FindsForms
<1>3. ASSUME IndexInv, [Next]_vars, ExactWhenAllProbed /\ FindsSelf
      PROVE  (ExactWhenAllProbed /\ FindsSelf)'
  BY <1>3, ExactForms, FindsForms, AnswersNext
<1> QED
  BY <1>2, <1>3, IndexSafety, PTL DEF Spec

\* ivf_flat.go:181-236, flat.go:66-90; ivf_flat_test.go:98-122.  When a search
\* of an IVF index looks at every partition, and in every search of a flat one,
\* the answer has the k nearest vectors, the nearest first, and each once.
THEOREM AllProbedIsExact == Spec => []ExactWhenAllProbed
BY AnswersSafety, PTL

\* ivf_flat.go:58-75, 160-168, 201-229; ivf_flat_test.go:58-96.  Whatever the
\* number of probes, a search for a stored vector with the metric of the index
\* finds it, or one as near, if no two centroids are equally far from it.
THEOREM StoredVectorFound == Spec => []FindsSelf
BY AnswersSafety, PTL
==============================================================================
