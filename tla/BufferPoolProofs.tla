-------------------------- MODULE BufferPoolProofs --------------------------
(***************************************************************************)
(* The counter, the map and the list of the buffer pool keep in step, and  *)
(* the pool behaves as LRUCache, for any keys, buffers and capacities.     *)
(*                                                                         *)
(* The counter is compared with a sum over the entries, and the cache with *)
(* one over the listing.  The first part says what such a sum is,          *)
(* independently of the order in which it is taken; it is by induction on  *)
(* the size of the set, for which the least counterexample among the       *)
(* numbers serves.                                                         *)
(***************************************************************************)
EXTENDS BufferPool, FiniteSetTheorems, SequenceTheorems, WellFoundedInduction, TLAPS

-----------------------------------------------------------------------------
(* Sums *)

\* Induction, with a set of numbers for the property.
LEMMA SetInduction ==
  ASSUME NEW T, 0 \in T, \A n \in Nat : n \in T => n + 1 \in T
  PROVE  Nat \subseteq T
<1> SUFFICES ASSUME Nat \ T # {} PROVE FALSE
  OBVIOUS
<1>1. PICK m \in Nat \ T : \A y \in Nat \ T : ~(<<y, m>> \in OpToRel(<, Nat))
  BY NatLessThanWellFounded, WFMin
<1>2. m # 0 /\ m - 1 \in Nat /\ m - 1 < m /\ (m - 1) + 1 = m
  OBVIOUS
<1>3. m - 1 \in T
  BY <1>1, <1>2 DEF OpToRel
<1> QED
  BY <1>2, <1>3

\* The element that MapThenSumSet takes next.
Pick(s) == CHOOSE x \in s : TRUE

\* g sums the weights w of every set in D, where D has s \ {Pick(s)} when it has s.
SumsOn(g, w, D) ==
  g = [s \in D |-> IF s = {} THEN 0 ELSE w[Pick(s)] + g[s \ {Pick(s)}]]

Small(S, n) == {s \in SUBSET S : Cardinality(s) <= n}

\* The set without the element taken is smaller.
LEMMA PickFacts ==
  ASSUME NEW s, IsFiniteSet(s), s # {}, NEW x \in s
  PROVE  /\ Pick(s) \in s
         /\ IsFiniteSet(s \ {x}) /\ Cardinality(s) \in Nat \ {0}
         /\ Cardinality(s \ {x}) = Cardinality(s) - 1
<1>1. Cardinality(s) \in Nat /\ Cardinality(s \ {x}) \in Nat /\ IsFiniteSet(s \ {x})
      /\ Cardinality(s \ {x}) = Cardinality(s) - 1
  BY FS_RemoveElement, FS_CardinalityType
<1> QED
  BY <1>1 DEF Pick

\* Subsets of a finite set are finite.
LEMMA SubsetFacts ==
  ASSUME NEW S, IsFiniteSet(S), NEW s \in SUBSET S
  PROVE  IsFiniteSet(s) /\ Cardinality(s) \in Nat /\ Cardinality(s) <= Cardinality(S)
BY FS_Subset, FS_CardinalityType

\* The same for a subset of a finite set.
LEMMA SubsetPick ==
  ASSUME NEW S, IsFiniteSet(S), NEW s \in SUBSET S, NEW x \in s
  PROVE  /\ Cardinality(s) \in Nat \ {0} /\ s \ {x} \in SUBSET S
         /\ Cardinality(s \ {x}) = Cardinality(s) - 1
<1>1. IsFiniteSet(s)
  BY SubsetFacts
<1>2. s # {} /\ s \ {x} \in SUBSET S
  OBVIOUS
<1> QED
  BY <1>1, <1>2, PickFacts

\* A subset of a finite set with no elements is empty.
LEMMA SubsetEmpty ==
  ASSUME NEW S, IsFiniteSet(S), NEW s \in SUBSET S, Cardinality(s) = 0
  PROVE  s = {}
<1> SUFFICES ASSUME NEW x \in s PROVE FALSE
  OBVIOUS
<1>1. Cardinality(s) \in Nat \ {0}
  BY SubsetPick
<1> QED
  BY <1>1

\* The sums of larger and larger sets.
LEMMA SumsExist ==
  ASSUME NEW S, IsFiniteSet(S), NEW w PROVE \E g : SumsOn(g, w, SUBSET S)
<1> DEFINE T == {n \in Nat : \E g : SumsOn(g, w, Small(S, n))}
<1>1. 0 \in T
  <2> DEFINE g == [s \in Small(S, 0) |-> 0]
  <2>1. \A s \in Small(S, 0) : s = {}
    <3> SUFFICES ASSUME NEW s \in Small(S, 0), s # {} PROVE FALSE
      OBVIOUS
    <3>1. IsFiniteSet(s) /\ Cardinality(s) <= 0
      BY SubsetFacts DEF Small
    <3>2. PICK x : x \in s
      OBVIOUS
    <3>3. Cardinality(s) \in Nat \ {0}
      BY <3>1, <3>2, PickFacts
    <3> QED
      BY <3>1, <3>3
  <2>2. g = [s \in Small(S, 0) |-> IF s = {} THEN 0 ELSE w[Pick(s)] + g[s \ {Pick(s)}]]
    BY <2>1
  <2> QED
    BY <2>2 DEF SumsOn
<1>2. ASSUME NEW n \in Nat, n \in T PROVE n + 1 \in T
  <2>1. PICK g : SumsOn(g, w, Small(S, n))
    BY <1>2
  <2> DEFINE h == [s \in Small(S, n + 1) |-> IF s = {} THEN 0 ELSE w[Pick(s)] + g[s \ {Pick(s)}]]
  <2>2. ASSUME NEW s \in Small(S, n + 1), s # {}
        PROVE  s \ {Pick(s)} \in Small(S, n) /\ s \ {Pick(s)} \in Small(S, n + 1)
    <3>1. IsFiniteSet(s) /\ Cardinality(s) <= n + 1 /\ s \in SUBSET S
      BY <2>2, SubsetFacts DEF Small
    <3>2. Pick(s) \in s
      BY <2>2, <3>1, PickFacts
    <3>3. Cardinality(s \ {Pick(s)}) = Cardinality(s) - 1 /\ Cardinality(s) \in Nat
      BY <2>2, <3>1, <3>2, PickFacts
    <3> QED
      BY <3>1, <3>3 DEF Small
  <2>3. \A s \in Small(S, n) : s \in Small(S, n + 1) /\ h[s] = g[s]
    <3>1. \A s \in Small(S, n) : s \in Small(S, n + 1)
      BY SubsetFacts DEF Small
    <3>2. \A s \in Small(S, n) : g[s] = IF s = {} THEN 0 ELSE w[Pick(s)] + g[s \ {Pick(s)}]
      BY <2>1 DEF SumsOn
    <3> QED
      BY <3>1, <3>2
  <2>4. \A s \in Small(S, n + 1) :
          h[s] = IF s = {} THEN 0 ELSE w[Pick(s)] + h[s \ {Pick(s)}]
    BY <2>2, <2>3
  <2>5. h = [s \in Small(S, n + 1) |-> h[s]]
    OBVIOUS
  <2> HIDE DEF h
  <2>6. SumsOn(h, w, Small(S, n + 1))
    BY <2>4, <2>5 DEF SumsOn
  <2> QED
    BY <2>6
<1> HIDE DEF T
<1>3. Nat \subseteq T
  BY <1>1, <1>2, SetInduction
<1>4. Small(S, Cardinality(S)) = SUBSET S
  BY SubsetFacts DEF Small
<1>5. Cardinality(S) \in T
  BY <1>3, FS_CardinalityType
<1> QED
  BY <1>4, <1>5 DEF T

\* What the sums of a set and of the set without one element have to do with each
\* other, in the order of Pick.
LEMMA SumsPick ==
  ASSUME NEW S, NEW g, NEW w, SumsOn(g, w, SUBSET S), NEW s \in SUBSET S
  PROVE  /\ s = {} => g[s] = 0
         /\ s # {} => g[s] = w[Pick(s)] + g[s \ {Pick(s)}] /\ Pick(s) \in s
<1>1. s # {} => Pick(s) \in s
  BY DEF Pick
<1> QED
  BY <1>1 DEF SumsOn

\* Sums of numbers are numbers.
LEMMA SumsTyped ==
  ASSUME NEW S, IsFiniteSet(S), NEW g, NEW w, SumsOn(g, w, SUBSET S),
         \A x \in S : w[x] \in Nat
  PROVE  \A s \in SUBSET S : g[s] \in Nat
<1>0. \A s \in SUBSET S : /\ s = {} => g[s] = 0
                          /\ s # {} => g[s] = w[Pick(s)] + g[s \ {Pick(s)}] /\ Pick(s) \in s
  BY SumsPick
<1> DEFINE T == {n \in Nat : \A s \in SUBSET S : Cardinality(s) = n => g[s] \in Nat}
<1>1. 0 \in T
  <2>1. \A s \in SUBSET S : Cardinality(s) = 0 => s = {}
    BY SubsetEmpty
  <2>2. ASSUME NEW s \in SUBSET S, s = {} PROVE g[s] \in Nat
    <3>1. g[s] = 0
      BY <2>2, <1>0
    <3> QED
      BY <3>1
  <2> QED
    BY <2>1, <2>2
<1>2. ASSUME NEW n \in Nat, n \in T PROVE n + 1 \in T
  <2> SUFFICES ASSUME NEW s \in SUBSET S, Cardinality(s) = n + 1 PROVE g[s] \in Nat
    OBVIOUS
  <2>1. CASE s = {}
    <3>1. g[s] = 0
      BY <2>1, <1>0
    <3> QED
      BY <3>1
  <2>2. CASE s # {}
    <3>1. Pick(s) \in s /\ g[s] = w[Pick(s)] + g[s \ {Pick(s)}]
      BY <2>2, <1>0
    <3>2. Cardinality(s \ {Pick(s)}) = Cardinality(s) - 1 /\ s \ {Pick(s)} \in SUBSET S
      BY <3>1, SubsetPick
    <3>3. g[s \ {Pick(s)}] \in Nat
      BY <1>2, <3>2
    <3>4. w[Pick(s)] \in Nat
      BY <3>1
    <3> QED
      BY <3>1, <3>3, <3>4
  <2> QED
    BY <2>1, <2>2
<1> HIDE DEF T
<1>3. Nat \subseteq T
  BY <1>1, <1>2, SetInduction
<1> QED
  BY <1>3, SubsetFacts DEF T

\* Any element may be taken first.
LEMMA SumsAny ==
  ASSUME NEW S, IsFiniteSet(S), NEW g, NEW w, SumsOn(g, w, SUBSET S),
         \A x \in S : w[x] \in Nat,
         NEW r \in SUBSET S, NEW y \in r
  PROVE  g[r] = w[y] + g[r \ {y}]
<1>0. \A s \in SUBSET S : /\ s = {} => g[s] = 0
                          /\ s # {} => g[s] = w[Pick(s)] + g[s \ {Pick(s)}] /\ Pick(s) \in s
  BY SumsPick
<1> DEFINE T == {n \in Nat : \A s \in SUBSET S : Cardinality(s) = n =>
                               \A x \in s : g[s] = w[x] + g[s \ {x}]}
<1>1. 0 \in T
  <2>1. \A s \in SUBSET S : Cardinality(s) = 0 => s = {}
    BY SubsetEmpty
  <2> QED
    BY <2>1
<1>2. ASSUME NEW n \in Nat, n \in T PROVE n + 1 \in T
  <2> SUFFICES ASSUME NEW s \in SUBSET S, Cardinality(s) = n + 1, NEW x \in s
               PROVE  g[s] = w[x] + g[s \ {x}]
    OBVIOUS
  <2>1. PICK p : p = Pick(s)
    OBVIOUS
  <2>2. p \in s /\ g[s] = w[p] + g[s \ {p}]
    BY <2>1, <1>0
  <2>3. CASE x = p
    BY <2>2, <2>3
  <2>4. CASE x # p
    <3>1. \A z \in s : s \ {z} \in SUBSET S /\ Cardinality(s \ {z}) = Cardinality(s) - 1
      BY SubsetPick
    <3>2. x \in s \ {p} /\ p \in s \ {x}
      BY <2>2, <2>4
    <3>7. \A t \in SUBSET S : Cardinality(t) = n => \A z \in t : g[t] = w[z] + g[t \ {z}]
      BY <1>2
    <3>8. Cardinality(s \ {p}) = n /\ Cardinality(s \ {x}) = n
      BY <2>2, <3>1
    <3>3. g[s \ {p}] = w[x] + g[(s \ {p}) \ {x}]
      BY <3>1, <3>2, <3>7, <3>8, <2>2
    <3>4. g[s \ {x}] = w[p] + g[(s \ {x}) \ {p}]
      BY <3>1, <3>2, <3>7, <3>8
    <3>5. (s \ {p}) \ {x} = (s \ {x}) \ {p} /\ (s \ {x}) \ {p} \in SUBSET S
      OBVIOUS
    <3>6. g[(s \ {x}) \ {p}] \in Nat /\ w[x] \in Nat /\ w[p] \in Nat
      BY <2>2, <3>5, SumsTyped
    <3>9. g[s \ {p}] = w[x] + g[(s \ {x}) \ {p}]
      BY <3>3, <3>5
    <3> HIDE DEF T
    <3> QED
      BY <2>2, <3>4, <3>6, <3>9
  <2> QED
    BY <2>3, <2>4
<1> HIDE DEF T
<1>3. Nat \subseteq T
  BY <1>1, <1>2, SetInduction
<1> QED
  BY <1>3, SubsetFacts DEF T

\* The weights w and v agree on s, in S and in R, and are summed by g and h there.
AgreeOn(s, S, g, w, R, h, v) ==
  /\ IsFiniteSet(S) /\ SumsOn(g, w, SUBSET S) /\ SumsOn(h, v, SUBSET R)
  /\ s \in SUBSET (S \cap R) /\ \A x \in s : w[x] = v[x]

\* Sums of the same weights are the same, wherever they were taken.
LEMMA SumsAgree ==
  ASSUME NEW S, NEW g, NEW w, NEW R, NEW h, NEW v, NEW r, AgreeOn(r, S, g, w, R, h, v)
  PROVE  g[r] = h[r]
<1> IsFiniteSet(S) /\ SumsOn(g, w, SUBSET S) /\ SumsOn(h, v, SUBSET R)
  BY DEF AgreeOn
<1>0. /\ \A s \in SUBSET (S \cap R) : s = {} => g[s] = 0 /\ h[s] = 0
      /\ \A s \in SUBSET (S \cap R) : s # {} =>
           /\ g[s] = w[Pick(s)] + g[s \ {Pick(s)}] /\ Pick(s) \in s
           /\ h[s] = v[Pick(s)] + h[s \ {Pick(s)}]
  <2>1. \A s \in SUBSET S : /\ s = {} => g[s] = 0
                            /\ s # {} => g[s] = w[Pick(s)] + g[s \ {Pick(s)}] /\ Pick(s) \in s
    BY SumsPick
  <2>2. \A s \in SUBSET R : /\ s = {} => h[s] = 0
                            /\ s # {} => h[s] = v[Pick(s)] + h[s \ {Pick(s)}] /\ Pick(s) \in s
    BY SumsPick
  <2> QED
    BY <2>1, <2>2
<1> DEFINE T == {n \in Nat : \A s \in SUBSET (S \cap R) :
                    Cardinality(s) = n /\ (\A x \in s : w[x] = v[x]) => g[s] = h[s]}
<1>1. 0 \in T
  <2>1. \A s \in SUBSET S : Cardinality(s) = 0 => s = {}
    BY SubsetEmpty
  <2> QED
    BY <2>1, <1>0
<1>2. ASSUME NEW n \in Nat, n \in T PROVE n + 1 \in T
  <2> SUFFICES ASSUME NEW s \in SUBSET (S \cap R), Cardinality(s) = n + 1,
                      \A x \in s : w[x] = v[x]
               PROVE  g[s] = h[s]
    OBVIOUS
  <2>1. CASE s = {}
    BY <2>1, <1>0
  <2>2. CASE s # {}
    <3>1. PICK p : p = Pick(s)
      OBVIOUS
    <3>2. p \in s /\ g[s] = w[p] + g[s \ {p}] /\ h[s] = v[p] + h[s \ {p}]
      BY <2>2, <3>1, <1>0
    <3>3. Cardinality(s \ {p}) = Cardinality(s) - 1 /\ s \ {p} \in SUBSET (S \cap R)
      BY <3>2, SubsetPick
    <3>4. g[s \ {p}] = h[s \ {p}]
      BY <1>2, <3>3
    <3> QED
      BY <3>2, <3>4
  <2> QED
    BY <2>1, <2>2
<1> HIDE DEF T
<1>3. Nat \subseteq T
  BY <1>1, <1>2, SetInduction
<1> QED
  BY <1>3, SubsetFacts DEF T, AgreeOn

\* The sum of the weights w of the elements of S.
Sum(w, S) == (CHOOSE g : SumsOn(g, w, SUBSET S))[S]

\* A sum is a number, none is 0, and it is the sum over the set without an element
\* and that element's weight.
LEMMA SumFacts ==
  ASSUME NEW S, IsFiniteSet(S), NEW w, \A x \in S : w[x] \in Nat
  PROVE  /\ Sum(w, S) \in Nat
         /\ S = {} => Sum(w, S) = 0
<1>1. PICK g : g = CHOOSE f : SumsOn(f, w, SUBSET S)
  OBVIOUS
<1>2. SumsOn(g, w, SUBSET S)
  BY <1>1, SumsExist
<1>3. Sum(w, S) = g[S] /\ S \in SUBSET S
  BY <1>1 DEF Sum
<1>4. g[S] \in Nat
  BY <1>2, <1>3, SumsTyped
<1>5. S = {} => g[S] = 0
  BY <1>2, <1>3, SumsPick
<1> QED
  BY <1>3, <1>4, <1>5

\* v has weights for S and for x besides, and those of w for S.
Adds(v, w, S, x) ==
  /\ IsFiniteSet(S) /\ x \notin S
  /\ \A y \in S \cup {x} : v[y] \in Nat
  /\ \A y \in S : v[y] = w[y]

\* With one element more, weights that agree on the old ones, the sum grows by its weight.
LEMMA SumAdd ==
  ASSUME NEW S, NEW x, NEW v, NEW w, Adds(v, w, S, x)
  PROVE  Sum(v, S \cup {x}) = v[x] + Sum(w, S)
<1> /\ IsFiniteSet(S) /\ x \notin S
    /\ \A y \in S \cup {x} : v[y] \in Nat
    /\ \A y \in S : v[y] = w[y]
  BY DEF Adds
<1>0. PICK R : R = S \cup {x}
  OBVIOUS
<1>1. IsFiniteSet(R)
  BY <1>0, FS_AddElement
<1>2. PICK g : g = CHOOSE f : SumsOn(f, w, SUBSET S)
  OBVIOUS
<1>3. SumsOn(g, w, SUBSET S) /\ Sum(w, S) = g[S]
  BY <1>2, SumsExist DEF Sum
<1>4. PICK h : h = CHOOSE f : SumsOn(f, v, SUBSET R)
  OBVIOUS
<1>5. SumsOn(h, v, SUBSET R) /\ Sum(v, R) = h[R]
  BY <1>1, <1>4, SumsExist DEF Sum
<1>6. x \in R /\ R \in SUBSET R /\ R \ {x} = S /\ S \in SUBSET (S \cap R)
  BY <1>0
<1>7. \A y \in R : v[y] \in Nat
  BY <1>0
<1>8. h[R] = v[x] + h[S]
  <2>1. h[R] = v[x] + h[R \ {x}]
    BY <1>1, <1>5, <1>6, <1>7, SumsAny
  <2> QED
    BY <1>6, <2>1
<1>9. g[S] = h[S]
  <2>1. AgreeOn(S, S, g, w, R, h, v)
    BY <1>3, <1>5, <1>6 DEF AgreeOn
  <2> QED
    BY <2>1, SumsAgree
<1> QED
  BY <1>0, <1>3, <1>5, <1>8, <1>9

-----------------------------------------------------------------------------
(* Lists *)

\* s has each element of S once.
Lists(s, S) ==
  /\ IsFiniteSet(S) /\ s \in Seq(S) /\ ToSet(s) = S /\ Len(s) = Cardinality(S)
  /\ \A i, j \in 1 .. Len(s) : s[i] = s[j] => i = j

\* The elements that RemoveAt leaves.
LEMMA RemoveAtFacts ==
  ASSUME NEW S, NEW s \in Seq(S), NEW i \in 1 .. Len(s)
  PROVE  LET r == RemoveAt(s, i) IN
         /\ r \in Seq(S) /\ Len(r) = Len(s) - 1
         /\ \A j \in 1 .. Len(r) : r[j] = s[IF j < i THEN j ELSE j + 1]
<1>0. PICK a, b : a = SubSeq(s, 1, i - 1) /\ b = SubSeq(s, i + 1, Len(s))
  OBVIOUS
<1>1. a \in Seq(S) /\ Len(a) = i - 1 /\ \A j \in 1 .. i - 1 : a[j] = s[j]
  BY <1>0
<1>2. b \in Seq(S) /\ Len(b) = Len(s) - i /\ \A j \in 1 .. Len(s) - i : b[j] = s[j + i]
  BY <1>0
<1>3. RemoveAt(s, i) = a \o b
  BY <1>0 DEF RemoveAt
<1> DEFINE r == a \o b
<1>4. r \in Seq(S) /\ Len(r) = Len(s) - 1
  <2>1. a \in Seq(S) /\ b \in Seq(S)
    BY <1>1, <1>2
  <2>2. r \in Seq(S) /\ Len(r) = Len(a) + Len(b)
    BY <2>1
  <2>3. Len(a) + Len(b) = Len(s) - 1
    BY <1>1, <1>2
  <2> QED
    BY <2>2, <2>3
<1>5. ASSUME NEW j \in 1 .. Len(r) PROVE r[j] = s[IF j < i THEN j ELSE j + 1]
  <2>1. CASE j < i
    BY <1>1, <1>2, <1>4, <2>1
  <2>2. CASE ~(j < i)
    <3>1. r[j] = b[j - (i - 1)] /\ j - (i - 1) \in 1 .. Len(s) - i
      BY <1>1, <1>2, <1>4, <2>2
    <3>2. b[j - (i - 1)] = s[(j - (i - 1)) + i] /\ (j - (i - 1)) + i = j + 1
      BY <1>2, <3>1
    <3> QED
      BY <2>2, <3>1, <3>2
  <2> QED
    BY <2>1, <2>2
<1> HIDE DEF r
<1> QED
  BY <1>3, <1>4, <1>5 DEF r

\* Removing the element of k from a list of S leaves a list of the others.
LEMMA Unlist ==
  ASSUME NEW s, NEW S, Lists(s, S), NEW k \in S
  PROVE  Lists(RemoveAt(s, CHOOSE i \in DOMAIN s : s[i] = k), S \ {k})
<1>0. /\ IsFiniteSet(S) /\ s \in Seq(S) /\ ToSet(s) = S /\ Len(s) = Cardinality(S)
      /\ \A i, j \in 1 .. Len(s) : s[i] = s[j] => i = j
  BY DEF Lists
<1>1. \E i \in 1 .. Len(s) : s[i] = k
  BY <1>0 DEF ToSet
<1>2. DOMAIN s = 1 .. Len(s)
  BY <1>0
<1>3. PICK n : n = CHOOSE i \in DOMAIN s : s[i] = k
  OBVIOUS
<1>4. n \in 1 .. Len(s) /\ s[n] = k
  BY <1>1, <1>2, <1>3
<1>5. PICK r : r = RemoveAt(s, n)
  OBVIOUS
<1>6. /\ r \in Seq(S) /\ Len(r) = Len(s) - 1 /\ Len(s) \in Nat
      /\ \A j \in 1 .. Len(r) : r[j] = s[IF j < n THEN j ELSE j + 1]
  BY <1>0, <1>4, <1>5, RemoveAtFacts
<1>7. \A j \in 1 .. Len(r) : r[j] # k
  BY <1>0, <1>4, <1>6
<1>8. \A x \in S \ {k} : \E j \in 1 .. Len(r) : r[j] = x
  <2> SUFFICES ASSUME NEW x \in S \ {k} PROVE \E j \in 1 .. Len(r) : r[j] = x
    OBVIOUS
  <2>1. PICK m \in 1 .. Len(s) : s[m] = x
    BY <1>0, <1>2 DEF ToSet
  <2>2. m # n
    BY <1>4, <2>1
  <2>3. CASE m < n
    <3>1. m \in 1 .. Len(r)
      BY <1>4, <1>6, <2>3
    <3> QED
      BY <1>6, <2>1, <2>3, <3>1
  <2>4. CASE m > n
    <3>1. m - 1 \in 1 .. Len(r) /\ ~(m - 1 < n) /\ (m - 1) + 1 = m
      BY <1>4, <1>6, <2>4
    <3>2. r[m - 1] = s[m]
      BY <1>6, <3>1
    <3> QED
      BY <2>1, <3>1, <3>2
  <2> QED
    BY <1>4, <2>2, <2>3, <2>4
<1>9. \A i, j \in 1 .. Len(r) : r[i] = r[j] => i = j
  <2> SUFFICES ASSUME NEW i \in 1 .. Len(r), NEW j \in 1 .. Len(r), r[i] = r[j] PROVE i = j
    OBVIOUS
  <2> DEFINE Old(x) == IF x < n THEN x ELSE x + 1
  <2>1. Old(i) \in 1 .. Len(s) /\ Old(j) \in 1 .. Len(s)
    BY <1>4, <1>6
  <2>2. s[Old(i)] = s[Old(j)]
    BY <1>6
  <2>3. Old(i) = Old(j)
    <3> HIDE DEF Old
    <3> QED
      BY <1>0, <2>1, <2>2
  <2> QED
    BY <1>4, <1>6, <2>3
<1>10. \A j \in 1 .. Len(r) : r[j] \in S \ {k}
  BY <1>6, <1>7
<1>11. r \in Seq(S \ {k}) /\ ToSet(r) = S \ {k}
  <2>1. r \in Seq(S \ {k})
    BY <1>6, <1>10
  <2>2. DOMAIN r = 1 .. Len(r)
    BY <1>6
  <2> QED
    BY <1>8, <1>10, <2>1, <2>2 DEF ToSet
<1>12. IsFiniteSet(S \ {k}) /\ Cardinality(S \ {k}) = Cardinality(S) - 1
  BY <1>0, FS_RemoveElement
<1>13. Lists(r, S \ {k})
  BY <1>0, <1>6, <1>9, <1>11, <1>12 DEF Lists
<1> QED
  BY <1>3, <1>5, <1>13

\* A new element in front of a list of S makes a list of S with it.
LEMMA Enlist ==
  ASSUME NEW s, NEW S, Lists(s, S), NEW k, k \notin S
  PROVE  Lists(<<k>> \o s, S \cup {k})
<1>0. /\ IsFiniteSet(S) /\ s \in Seq(S) /\ ToSet(s) = S /\ Len(s) = Cardinality(S)
      /\ \A i, j \in 1 .. Len(s) : s[i] = s[j] => i = j
  BY DEF Lists
<1>1. PICK r : r = <<k>> \o s
  OBVIOUS
<1>2. PICK R : R = S \cup {k}
  OBVIOUS
<1>3. s \in Seq(R) /\ <<k>> \in Seq(R) /\ Len(<<k>>) = 1 /\ <<k>>[1] = k /\ Len(s) \in Nat
  BY <1>0, <1>2
<1>4. r \in Seq(R) /\ Len(r) = Len(s) + 1
  BY <1>1, <1>3
<1>5. r[1] = k /\ \A j \in 1 .. Len(s) : r[j + 1] = s[j]
  BY <1>1, <1>3
<1>6. \A j \in 1 .. Len(s) : s[j] \in S
  BY <1>0
<1>7. \A j \in 1 .. Len(r) : \/ j = 1 /\ r[j] = k
                            \/ /\ j # 1 /\ j - 1 \in 1 .. Len(s)
                               /\ r[j] = s[j - 1] /\ r[j] \in S
  <2> SUFFICES ASSUME NEW j \in 1 .. Len(r), j # 1
               PROVE  j - 1 \in 1 .. Len(s) /\ r[j] = s[j - 1] /\ r[j] \in S
    BY <1>5
  <2>1. j - 1 \in 1 .. Len(s) /\ (j - 1) + 1 = j
    BY <1>3, <1>4
  <2>2. r[(j - 1) + 1] = s[j - 1]
    BY <1>5, <2>1
  <2> QED
    BY <1>6, <2>1, <2>2
<1>8. \A i, j \in 1 .. Len(r) : r[i] = r[j] => i = j
  <2> SUFFICES ASSUME NEW i \in 1 .. Len(r), NEW j \in 1 .. Len(r), r[i] = r[j] PROVE i = j
    OBVIOUS
  <2>1. i = 1 <=> j = 1
    BY <1>7
  <2>2. i # 1 /\ j # 1 => i - 1 = j - 1
    BY <1>0, <1>7
  <2>3. i \in Int /\ j \in Int
    OBVIOUS
  <2> QED
    BY <2>1, <2>2, <2>3
<1>9. ToSet(r) = R
  <2>1. DOMAIN r = 1 .. Len(r)
    BY <1>4
  <2>2. \A j \in 1 .. Len(r) : r[j] \in R
    BY <1>2, <1>7
  <2>3. ASSUME NEW x \in R PROVE \E j \in 1 .. Len(r) : r[j] = x
    <3>1. CASE x = k
      <4>1. 1 \in 1 .. Len(r)
        BY <1>3, <1>4
      <4> QED
        BY <1>5, <3>1, <4>1
    <3>2. CASE x \in S
      <4>1. PICK m \in 1 .. Len(s) : s[m] = x
        BY <1>0, <3>2 DEF ToSet
      <4>2. m + 1 \in 1 .. Len(r)
        BY <1>3, <1>4
      <4> QED
        BY <1>5, <4>1, <4>2
    <3> QED
      BY <1>2, <3>1, <3>2
  <2> QED
    BY <2>1, <2>2, <2>3 DEF ToSet
<1>10. IsFiniteSet(R) /\ Cardinality(R) = Cardinality(S) + 1
  BY <1>0, <1>2, FS_AddElement
<1>11. Lists(r, R)
  BY <1>0, <1>4, <1>8, <1>9, <1>10 DEF Lists
<1> QED
  BY <1>1, <1>2, <1>11

-----------------------------------------------------------------------------
(* The pool *)

\* The sizes that the counter adds up.
Weights(es) == [k \in DOMAIN es |-> Size[es[k]]]

Total(es) == Sum(Weights(es), DOMAIN es)

\* The community modules' sum over the entries is that sum.
LEMMA TotalIs ==
  ASSUME NEW es, IsFiniteSet(DOMAIN es)
  PROVE  MapThenSumSet(LAMBDA k : Size[es[k]], DOMAIN es) = Total(es)
<1> DEFINE S == DOMAIN es
           G == CHOOSE g : g = [s \in SUBSET S |->
                  IF s = {} THEN 0
                  ELSE Size[es[CHOOSE x \in s : TRUE]] + g[s \ {CHOOSE x \in s : TRUE}]]
<1>1. MapThenSumSet(LAMBDA k : Size[es[k]], S) = G[S]
  BY DEF MapThenSumSet, MapThenFoldSet
<1>2. \A s \in SUBSET S : s # {} => Weights(es)[Pick(s)] = Size[es[Pick(s)]]
  BY DEF Pick, Weights
<1>3. PICK h : SumsOn(h, Weights(es), SUBSET S)
  BY SumsExist
<1>4. h = [s \in SUBSET S |->
             IF s = {} THEN 0
             ELSE Size[es[CHOOSE x \in s : TRUE]] + h[s \ {CHOOSE x \in s : TRUE}]]
  BY <1>2, <1>3 DEF SumsOn, Pick
<1>5. G = [s \in SUBSET S |->
             IF s = {} THEN 0
             ELSE Size[es[CHOOSE x \in s : TRUE]] + G[s \ {CHOOSE x \in s : TRUE}]]
  BY <1>4
<1> HIDE DEF G
<1>6. PICK g : g = G
  OBVIOUS
<1>7. SumsOn(g, Weights(es), SUBSET S)
  <2>1. g = [s \in SUBSET S |->
               IF s = {} THEN 0
               ELSE Size[es[CHOOSE x \in s : TRUE]] + g[s \ {CHOOSE x \in s : TRUE}]]
    BY <1>5, <1>6
  <2> QED
    BY <1>2, <2>1 DEF SumsOn, Pick
<1>8. PICK f : f = CHOOSE d : SumsOn(d, Weights(es), SUBSET S)
  OBVIOUS
<1>9. SumsOn(f, Weights(es), SUBSET S)
  BY <1>3, <1>8
<1>10. AgreeOn(S, S, g, Weights(es), S, f, Weights(es))
  BY <1>7, <1>9 DEF AgreeOn
<1>11. g[S] = f[S]
  BY <1>10, SumsAgree
<1> QED
  BY <1>1, <1>6, <1>8, <1>11 DEF Total, Sum

\* The three pieces of state agree.
InStep(es, l, u) ==
  /\ DOMAIN es \subseteq Keys /\ es \in [DOMAIN es -> Buffers]
  /\ Lists(l, DOMAIN es)
  /\ u = Total(es)

\* Without k the total is less by the size of its data.
LEMMA TotalDrop ==
  ASSUME NEW es, NEW fs, NEW k \in DOMAIN es, es \in [DOMAIN es -> Buffers],
         IsFiniteSet(DOMAIN es), DOMAIN fs = DOMAIN es \ {k},
         \A x \in DOMAIN fs : fs[x] = es[x]
  PROVE  /\ Total(es) = Size[es[k]] + Total(fs)
         /\ Total(fs) \in Nat /\ Size[es[k]] \in Nat
<1>1. PICK S : S = DOMAIN fs
  OBVIOUS
<1>2. IsFiniteSet(S) /\ k \notin S /\ S \cup {k} = DOMAIN es
  BY <1>1, FS_RemoveElement
<1>3. \A y \in S \cup {k} : Weights(es)[y] \in Nat /\ Weights(es)[y] = Size[es[y]]
  BY <1>2, BufferPoolAssumption DEF Weights
<1>4. \A y \in S : Weights(es)[y] = Weights(fs)[y]
  BY <1>1, <1>2 DEF Weights
<1>5. PICK v, w : v = Weights(es) /\ w = Weights(fs)
  OBVIOUS
<1>6. Sum(v, S \cup {k}) = v[k] + Sum(w, S)
  <2>1. \A y \in S \cup {k} : v[y] \in Nat
    BY <1>3, <1>5
  <2>2. \A y \in S : v[y] = w[y]
    BY <1>4, <1>5
  <2>3. Adds(v, w, S, k)
    BY <1>2, <2>1, <2>2 DEF Adds
  <2> QED
    BY <2>3, SumAdd
<1>7. Sum(w, S) \in Nat
  BY <1>2, <1>3, <1>4, <1>5, SumFacts
<1> QED
  BY <1>1, <1>2, <1>3, <1>5, <1>6, <1>7 DEF Total

\* The counter is a number.
LEMMA UsedTyped ==
  ASSUME NEW es, NEW l, NEW u, InStep(es, l, u) PROVE u \in Nat
<1>1. /\ es \in [DOMAIN es -> Buffers] /\ u = Total(es) /\ IsFiniteSet(DOMAIN es)
  BY DEF InStep, Lists
<1>2. \A x \in DOMAIN es : Weights(es)[x] \in Nat
  BY <1>1, BufferPoolAssumption DEF Weights
<1> QED
  BY <1>1, <1>2, SumFacts DEF Total

\* Drop, from any of its callers.
LEMMA DropInStep ==
  ASSUME NEW es, NEW fs, NEW l, NEW u, InStep(es, l, u), NEW k \in DOMAIN es,
         fs = [x \in DOMAIN es \ {k} |-> es[x]]
  PROVE  InStep(fs, RemoveAt(l, CHOOSE i \in DOMAIN l : l[i] = k), u - Size[es[k]])
<1>1. /\ DOMAIN es \subseteq Keys /\ es \in [DOMAIN es -> Buffers]
      /\ Lists(l, DOMAIN es) /\ u = Total(es)
  BY DEF InStep
<1>2. DOMAIN fs = DOMAIN es \ {k} /\ \A x \in DOMAIN fs : fs[x] = es[x]
  OBVIOUS
<1>3. Lists(RemoveAt(l, CHOOSE i \in DOMAIN l : l[i] = k), DOMAIN fs)
  BY <1>1, <1>2, Unlist
<1>4. Total(es) = Size[es[k]] + Total(fs) /\ Total(fs) \in Nat /\ Size[es[k]] \in Nat
  <2>1. IsFiniteSet(DOMAIN es)
    BY <1>1 DEF Lists
  <2> QED
    BY <1>1, <1>2, <2>1, TotalDrop
<1>5. u - Size[es[k]] = Total(fs)
  BY <1>1, <1>4
<1>6. DOMAIN fs \subseteq Keys /\ fs \in [DOMAIN fs -> Buffers]
  BY <1>1
<1> QED
  BY <1>3, <1>5, <1>6 DEF InStep

\* Put under a key that is new.
LEMMA EnterInStep ==
  ASSUME NEW es, NEW fs, NEW l, NEW u, InStep(es, l, u), NEW k \in Keys, k \notin DOMAIN es,
         NEW data \in Buffers,
         fs = [x \in DOMAIN es \cup {k} |-> IF x = k THEN data ELSE es[x]]
  PROVE  InStep(fs, <<k>> \o l, u + Size[data])
<1>1. /\ DOMAIN es \subseteq Keys /\ es \in [DOMAIN es -> Buffers]
      /\ Lists(l, DOMAIN es) /\ u = Total(es)
  BY DEF InStep
<1>2. /\ DOMAIN fs = DOMAIN es \cup {k} /\ DOMAIN es = DOMAIN fs \ {k}
      /\ fs[k] = data /\ \A x \in DOMAIN es : es[x] = fs[x]
  OBVIOUS
<1>3. Lists(<<k>> \o l, DOMAIN fs)
  BY <1>1, <1>2, Enlist
<1>4. DOMAIN fs \subseteq Keys /\ fs \in [DOMAIN fs -> Buffers]
  BY <1>1
<1>5. Total(fs) = Size[fs[k]] + Total(es) /\ Total(es) \in Nat /\ Size[fs[k]] \in Nat
  <2>1. IsFiniteSet(DOMAIN fs) /\ k \in DOMAIN fs
    BY <1>2, <1>3 DEF Lists
  <2> QED
    BY <1>2, <1>4, <2>1, TotalDrop
<1>6. u + Size[data] = Total(fs)
  BY <1>1, <1>2, <1>5
<1> QED
  BY <1>3, <1>4, <1>6 DEF InStep

\* A hit, and Put under a key that is there: as dropping the entry and entering it again.
LEMMA ReplaceInStep ==
  ASSUME NEW es, NEW fs, NEW l, NEW u, InStep(es, l, u), NEW k \in DOMAIN es,
         NEW data \in Buffers, fs = [x \in DOMAIN es |-> IF x = k THEN data ELSE es[x]]
  PROVE  InStep(fs, <<k>> \o RemoveAt(l, CHOOSE i \in DOMAIN l : l[i] = k),
                (u - Size[es[k]]) + Size[data])
<1>1. PICK ds, m, d : /\ ds = [x \in DOMAIN es \ {k} |-> es[x]]
                      /\ m = RemoveAt(l, CHOOSE i \in DOMAIN l : l[i] = k)
                      /\ d = u - Size[es[k]]
  OBVIOUS
<1>2. InStep(ds, m, d)
  BY <1>1, DropInStep
<1>3. k \in Keys
  BY DEF InStep
<1>4. k \notin DOMAIN ds /\ fs = [x \in DOMAIN ds \cup {k} |-> IF x = k THEN data ELSE ds[x]]
  BY <1>1
<1>5. InStep(fs, <<k>> \o m, d + Size[data])
  BY <1>2, <1>3, <1>4, EnterInStep
<1> QED
  BY <1>1, <1>5

\* What holds of the pool at any time.
PoolInv ==
  /\ capacity \in Int /\ evicting \in BOOLEAN
  /\ InStep(entries, lru, used)
  /\ ~evicting => used <= capacity \/ Cached = {}

\* A new pool is empty, and a counter of 0 is its total.
LEMMA InitPool == Init => PoolInv
<1> SUFFICES ASSUME Init PROVE PoolInv
  OBVIOUS
<1>1. DOMAIN entries = {} /\ IsFiniteSet(DOMAIN entries) /\ Cardinality(DOMAIN entries) = 0
  BY FS_EmptySet DEF Init
<1>2. Lists(lru, DOMAIN entries)
  <2>1. lru \in Seq({}) /\ Len(lru) = 0 /\ DOMAIN lru = {}
    BY DEF Init
  <2> QED
    BY <1>1, <2>1 DEF Lists, ToSet
<1>3. Total(entries) = 0
  <2>1. \A x \in DOMAIN entries : Weights(entries)[x] \in Nat
    BY <1>1
  <2> QED
    BY <1>1, <2>1, SumFacts DEF Total
<1>4. entries \in [DOMAIN entries -> Buffers]
  BY <1>1 DEF Init
<1>5. InStep(entries, lru, used)
  BY <1>1, <1>2, <1>3, <1>4 DEF Init, InStep
<1> QED
  BY <1>1, <1>5, BufferPoolAssumption DEF Init, PoolInv, Cached

\* Each operation, and each round of evict, keeps the three in step.
LEMMA NextPool == PoolInv /\ [Next]_vars => PoolInv'
<1> SUFFICES ASSUME PoolInv, [Next]_vars PROVE PoolInv'
  OBVIOUS
<1>0. InStep(entries, lru, used) /\ capacity \in Int /\ evicting \in BOOLEAN
  BY DEF PoolInv
<1>1. ASSUME NEW k \in Keys, Get(k) PROVE PoolInv'
  <2>1. /\ ~evicting /\ k \in DOMAIN entries /\ UNCHANGED <<capacity, entries, used, evicting>>
        /\ lru' = <<k>> \o RemoveAt(lru, CHOOSE i \in DOMAIN lru : lru[i] = k)
    BY <1>1 DEF Get, Cached, MoveToFront, Without
  <2>2. Lists(lru, DOMAIN entries) /\ entries \in [DOMAIN entries -> Buffers]
    BY <1>0 DEF InStep
  <2>3. Lists(<<k>> \o RemoveAt(lru, CHOOSE i \in DOMAIN lru : lru[i] = k), DOMAIN entries)
    <3>1. PICK m : m = RemoveAt(lru, CHOOSE i \in DOMAIN lru : lru[i] = k)
      OBVIOUS
    <3>2. PICK S : S = DOMAIN entries \ {k}
      OBVIOUS
    <3>3. Lists(m, S) /\ k \notin S /\ S \cup {k} = DOMAIN entries
      <4>1. Lists(RemoveAt(lru, CHOOSE i \in DOMAIN lru : lru[i] = k), DOMAIN entries \ {k})
        BY <2>1, <2>2, Unlist
      <4> QED
        BY <2>1, <3>1, <3>2, <4>1
    <3>4. Lists(<<k>> \o m, S \cup {k})
      BY <3>3, Enlist
    <3> QED
      BY <3>1, <3>3, <3>4
  <2>4. InStep(entries', lru', used')
    BY <1>0, <2>1, <2>3 DEF InStep
  <2> QED
    BY <2>1, <2>4 DEF PoolInv, Cached
<1>2. ASSUME NEW k \in Keys, NEW data \in Buffers, Put(k, data) PROVE PoolInv'
  <2>1. UNCHANGED capacity /\ evicting' = TRUE
    BY <1>2 DEF Put
  <2>2. InStep(entries', lru', used')
    <3>1. CASE k \in DOMAIN entries
      <4>1. entries' = [x \in DOMAIN entries |-> IF x = k THEN data ELSE entries[x]]
        BY <1>2, <3>1 DEF Put, Cached
      <4>2. lru' = <<k>> \o RemoveAt(lru, CHOOSE i \in DOMAIN lru : lru[i] = k)
        BY <1>2, <3>1 DEF Put, Cached, MoveToFront, Without
      <4>3. used' = used + (Size[data] - Size[entries[k]])
        BY <1>2, <3>1 DEF Put, Growth, Cached
      <4>4. used \in Int /\ Size[data] \in Int /\ Size[entries[k]] \in Int
        <5>1. entries[k] \in Buffers
          BY <1>0, <3>1 DEF InStep
        <5>2. Size[data] \in Int /\ Size[entries[k]] \in Int
          BY <5>1, BufferPoolAssumption
        <5>3. used \in Int
          BY <1>0, UsedTyped
        <5> QED
          BY <5>2, <5>3
      <4>5. used' = (used - Size[entries[k]]) + Size[data]
        BY <4>3, <4>4
      <4>6. PICK es, fs, l, u : es = entries /\ fs = entries' /\ l = lru /\ u = used
        OBVIOUS
      <4>7. InStep(fs, <<k>> \o RemoveAt(l, CHOOSE i \in DOMAIN l : l[i] = k),
                   (u - Size[es[k]]) + Size[data])
        <5>1. InStep(es, l, u)
          BY <1>0, <4>6
        <5>2. fs = [x \in DOMAIN es |-> IF x = k THEN data ELSE es[x]] /\ k \in DOMAIN es
          BY <3>1, <4>1, <4>6
        <5> QED
          BY <5>1, <5>2, ReplaceInStep
      <4> QED
        BY <4>2, <4>5, <4>6, <4>7
    <3>2. CASE k \notin DOMAIN entries
      <4>1. /\ entries' = [x \in DOMAIN entries \cup {k} |-> IF x = k THEN data ELSE entries[x]]
            /\ lru' = <<k>> \o lru
        BY <1>2, <3>2 DEF Put, Cached
      <4>2. used' = used + (Size[data] - 0) /\ Size[data] \in Int
        BY <1>2, <3>2, BufferPoolAssumption DEF Put, Growth, Cached
      <4>3. used' = used + Size[data]
        BY <4>2
      <4> QED
        BY <1>0, <3>2, <4>1, <4>3, EnterInStep
    <3> QED
      BY <3>1, <3>2
  <2> QED
    BY <1>0, <2>1, <2>2 DEF PoolInv
<1>3. ASSUME NEW k, k \in DOMAIN entries, Drop(k) PROVE InStep(entries', lru', used')
  <2>1. /\ entries' = [x \in DOMAIN entries \ {k} |-> entries[x]]
        /\ lru' = RemoveAt(lru, CHOOSE i \in DOMAIN lru : lru[i] = k)
        /\ used' = used - Size[entries[k]]
    BY <1>3 DEF Drop, Without, Cached
  <2> QED
    BY <1>0, <1>3, <2>1, DropInStep
<1>4. CASE Evict
  <2>1. evicting /\ lru # <<>> /\ Drop(Last(lru)) /\ UNCHANGED <<capacity, evicting>>
    BY <1>4 DEF Evict
  <2>2. Last(lru) \in DOMAIN entries
    <3>1. lru \in Seq(DOMAIN entries)
      BY <1>0 DEF InStep, Lists
    <3> QED
      BY <2>1, <3>1 DEF Last
  <2>3. InStep(entries', lru', used')
    BY <1>3, <2>1, <2>2
  <2> QED
    BY <1>0, <2>1, <2>3 DEF PoolInv
<1>5. CASE EvictDone
  <2>1. used <= capacity \/ lru = <<>>
    BY <1>5 DEF EvictDone
  <2>2. lru = <<>> => DOMAIN entries = {}
    BY <1>0 DEF InStep, Lists, ToSet
  <2>3. UNCHANGED <<capacity, entries, lru, used>> /\ evicting' = FALSE
    BY <1>5 DEF EvictDone
  <2> QED
    BY <1>0, <2>1, <2>2, <2>3 DEF PoolInv, Cached
<1>6. ASSUME NEW k \in Keys, RemoveKey(k) PROVE PoolInv'
  <2>1. /\ ~evicting /\ k \in DOMAIN entries /\ Drop(k) /\ UNCHANGED <<capacity, evicting>>
        /\ used' = used - Size[entries[k]]
    BY <1>6 DEF RemoveKey, Drop, Cached
  <2>2. InStep(entries', lru', used')
    BY <1>3, <2>1
  <2>3. used \in Int /\ Size[entries[k]] \in Nat
    <3>1. entries[k] \in Buffers
      BY <1>0, <2>1 DEF InStep
    <3>2. used \in Int
      BY <1>0, UsedTyped
    <3> QED
      BY <3>1, <3>2, BufferPoolAssumption
  <2>4. used <= capacity
    BY <2>1 DEF PoolInv, Cached
  <2>5. used' <= capacity
    BY <1>0, <2>1, <2>3, <2>4
  <2> QED
    BY <1>0, <2>1, <2>2, <2>5 DEF PoolInv
<1>7. CASE UNCHANGED vars
  BY <1>7 DEF vars, PoolInv, Cached
<1> QED
  BY <1>1, <1>2, <1>4, <1>5, <1>6, <1>7 DEF Next

\* buffer_pool.go:56-73, 76-87, 96-108.  The counter, the map and the list agree, and
\* between calls the pool is within its budget, for any keys, sizes and capacities.
THEOREM BudgetKept == Spec => []WithinBudget
<1>1. PoolInv => WithinBudget
  <2> SUFFICES ASSUME PoolInv PROVE WithinBudget
    OBVIOUS
  <2>1. Lists(lru, Cached) /\ used = Total(entries)
    BY DEF PoolInv, InStep, Cached
  <2>2. MapThenSumSet(LAMBDA k : Size[entries[k]], DOMAIN entries) = Total(entries)
    BY <2>1, TotalIs DEF Lists, Cached
  <2> QED
    BY <2>1, <2>2 DEF WithinBudget, PoolInv, Lists, Cached
<1> QED
  BY InitPool, NextPool, <1>1, PTL DEF Spec

-----------------------------------------------------------------------------
(* The least recently used *)

\* Contents and Fitting, of any entries, list and capacity.
Listing(es, l) == [i \in DOMAIN l |-> [key |-> l[i], data |-> es[l[i]]]]

Bytes(s) == FoldSeq(LAMBDA e, sum : Size[e.data] + sum, 0, s)

Fits(cap, s) == {n \in 0..Len(s) : n = 0 \/ Bytes(SubSeq(s, 1, n)) <= cap}

Fit(cap, s) == SubSeq(s, 1, Max(Fits(cap, s)))

Position(s, k) == CHOOSE i \in DOMAIN s : s[i] = k

\* The contents without the entry of k.
Rest(s, k) == RemoveFirstMatch(s, LAMBDA e : e.key = k)

\* The first m keys of a list, and their places.
LEMMA BytesOfPlaces ==
  ASSUME NEW es, NEW l, NEW S, Lists(l, S), DOMAIN es = S, es \in [S -> Buffers],
         NEW v, v = [i \in 1..Len(l) |-> Size[es[l[i]]]]
  PROVE  Sum(v, 1..Len(l)) = Total(es)
<1>0. PICK n, w : n = Len(l) /\ w = Weights(es)
  OBVIOUS
<1>1. /\ IsFiniteSet(S) /\ l \in Seq(S) /\ ToSet(l) = S /\ n \in Nat /\ DOMAIN l = 1..n
      /\ \A i, j \in 1..n : l[i] = l[j] => i = j
  BY <1>0 DEF Lists
<1>2. \A i \in 1..n : l[i] \in S
  BY <1>0, <1>1
<1>3. \A x \in S : w[x] = Size[es[x]] /\ w[x] \in Nat
  BY <1>0, BufferPoolAssumption DEF Weights
<1>4. \A i \in 1..n : v[i] = w[l[i]] /\ v[i] \in Nat
  BY <1>0, <1>2, <1>3
<1> DEFINE K(m) == {l[i] : i \in 1..m}
           T == {m \in Nat : m <= n => IsFiniteSet(K(m)) /\ Sum(v, 1..m) = Sum(w, K(m))}
<1>5. 0 \in T
  <2>1. 1..0 = {} /\ K(0) = {} /\ IsFiniteSet({})
    BY FS_EmptySet
  <2>2. Sum(v, {}) = 0 /\ Sum(w, {}) = 0
    BY <2>1, SumFacts
  <2> QED
    BY <2>1, <2>2
<1>6. ASSUME NEW m \in Nat, m \in T PROVE m + 1 \in T
  <2> SUFFICES ASSUME m + 1 <= n
               PROVE  IsFiniteSet(K(m + 1)) /\ Sum(v, 1..(m + 1)) = Sum(w, K(m + 1))
    OBVIOUS
  <2>1. IsFiniteSet(K(m)) /\ Sum(v, 1..m) = Sum(w, K(m))
    BY <1>1, <1>6
  <2>2. /\ m + 1 \in 1..n /\ 1..(m + 1) = (1..m) \cup {m + 1} /\ m + 1 \notin 1..m
        /\ \A i \in 1..m : i \in 1..n /\ i # m + 1
    BY <1>1
  <2>3. K(m + 1) = K(m) \cup {l[m + 1]}
    BY <2>2
  <2>4. l[m + 1] \notin K(m)
    BY <1>1, <2>2
  <2>5. \A x \in K(m) \cup {l[m + 1]} : w[x] \in Nat
    BY <1>2, <1>3, <2>2
  <2>6. \A i \in (1..m) \cup {m + 1} : v[i] \in Nat
    BY <1>4, <2>2
  <2>7. IsFiniteSet(1..m)
    BY FS_Interval
  <2>8. PICK P, Q, x, y : P = 1..m /\ Q = K(m) /\ x = m + 1 /\ y = l[m + 1]
    OBVIOUS
  <2> HIDE DEF T, K
  <2>9. Sum(v, P \cup {x}) = v[x] + Sum(v, P)
    <3>1. Adds(v, v, P, x)
      BY <2>2, <2>6, <2>7, <2>8 DEF Adds
    <3> QED
      BY <3>1, SumAdd
  <2>10. Sum(w, Q \cup {y}) = w[y] + Sum(w, Q)
    <3>1. Adds(w, w, Q, y)
      BY <2>1, <2>4, <2>5, <2>8 DEF Adds
    <3> QED
      BY <3>1, SumAdd
  <2>11. v[x] = w[y]
    BY <1>4, <2>2, <2>8
  <2>12. IsFiniteSet(Q \cup {y})
    BY <2>1, <2>8, FS_AddElement
  <2> QED
    BY <2>1, <2>2, <2>3, <2>8, <2>9, <2>10, <2>11, <2>12
<1>7. K(n) = S
  BY <1>1 DEF ToSet
<1> HIDE DEF T, K
<1>8. n \in T
  BY <1>1, <1>5, <1>6, SetInduction
<1> QED
  BY <1>0, <1>1, <1>7, <1>8 DEF T, Total

\* The community modules' fold over a sequence is a sum over its places.
LEMMA BytesAre ==
  ASSUME NEW s, IsFiniteSet(DOMAIN s),
         NEW v, v = [i \in DOMAIN s |-> Size[s[i].data]]
  PROVE  Bytes(s) = Sum(v, DOMAIN s)
<1> DEFINE S == DOMAIN s
           G == CHOOSE g : g = [r \in SUBSET S |->
                  IF r = {} THEN 0
                  ELSE Size[s[CHOOSE x \in r : TRUE].data] + g[r \ {CHOOSE x \in r : TRUE}]]
<1>1. Bytes(s) = G[S]
  BY DEF Bytes, FoldSeq, FoldFunction, FoldFunctionOnSet, MapThenFoldSet
<1>2. \A r \in SUBSET S : r # {} => v[Pick(r)] = Size[s[Pick(r)].data]
  BY DEF Pick
<1>3. PICK h : SumsOn(h, v, SUBSET S)
  BY SumsExist
<1>4. h = [r \in SUBSET S |->
             IF r = {} THEN 0
             ELSE Size[s[CHOOSE x \in r : TRUE].data] + h[r \ {CHOOSE x \in r : TRUE}]]
  BY <1>2, <1>3 DEF SumsOn, Pick
<1>5. G = [r \in SUBSET S |->
             IF r = {} THEN 0
             ELSE Size[s[CHOOSE x \in r : TRUE].data] + G[r \ {CHOOSE x \in r : TRUE}]]
  BY <1>4
<1> HIDE DEF G
<1>6. PICK g : g = G
  OBVIOUS
<1>7. SumsOn(g, v, SUBSET S)
  <2>1. g = [r \in SUBSET S |->
               IF r = {} THEN 0
               ELSE Size[s[CHOOSE x \in r : TRUE].data] + g[r \ {CHOOSE x \in r : TRUE}]]
    BY <1>5, <1>6
  <2> QED
    BY <1>2, <2>1 DEF SumsOn, Pick
<1>8. PICK f : f = CHOOSE d : SumsOn(d, v, SUBSET S)
  OBVIOUS
<1>9. SumsOn(f, v, SUBSET S)
  BY <1>3, <1>8
<1>10. AgreeOn(S, S, g, v, S, f, v)
  BY <1>7, <1>9 DEF AgreeOn
<1>11. g[S] = f[S]
  BY <1>10, SumsAgree
<1> QED
  BY <1>1, <1>6, <1>8, <1>11 DEF Sum

\* The listing of a pool in step holds as many bytes as its counter says.
LEMMA BytesUsed ==
  ASSUME NEW es, NEW l, NEW u, InStep(es, l, u) PROVE Bytes(Listing(es, l)) = u
<1>1. Lists(l, DOMAIN es) /\ es \in [DOMAIN es -> Buffers] /\ u = Total(es)
  BY DEF InStep
<1>2. DOMAIN l = 1..Len(l) /\ Len(l) \in Nat
  BY <1>1 DEF Lists
<1>3. PICK s : s = Listing(es, l)
  OBVIOUS
<1>4. DOMAIN s = 1..Len(l) /\ \A i \in 1..Len(l) : s[i].data = es[l[i]]
  BY <1>2, <1>3 DEF Listing
<1>5. PICK v : v = [i \in DOMAIN s |-> Size[s[i].data]]
  OBVIOUS
<1>6. v = [i \in 1..Len(l) |-> Size[es[l[i]]]]
  BY <1>4, <1>5
<1>7. Sum(v, 1..Len(l)) = Total(es)
  BY <1>1, <1>6, BytesOfPlaces
<1>8. IsFiniteSet(DOMAIN s)
  BY <1>2, <1>4, FS_Interval
<1>9. Bytes(s) = Sum(v, DOMAIN s)
  BY <1>5, <1>8, BytesAre
<1> QED
  BY <1>1, <1>3, <1>4, <1>7, <1>9

\* A set of numbers with a bound has a greatest one.
LEMMA GreatestThere ==
  ASSUME NEW n \in Nat, NEW S \in SUBSET (0..n), S # {}
  PROVE  Max(S) \in S /\ \A y \in S : Max(S) >= y
<1> DEFINE T == {m \in Nat : \A R \in SUBSET (0..m) : R # {} => \E x \in R : \A y \in R : x >= y}
<1>1. 0 \in T
  <2>1. ASSUME NEW R \in SUBSET (0..0), R # {} PROVE \E x \in R : \A y \in R : x >= y
    <3>1. \A y \in R : y = 0
      OBVIOUS
    <3>2. PICK x \in R : TRUE
      BY <2>1
    <3>3. \A y \in R : x >= y
      BY <3>1
    <3> QED
      BY <3>3
  <2> QED
    BY <2>1
<1>2. ASSUME NEW m \in Nat, m \in T PROVE m + 1 \in T
  <2> SUFFICES ASSUME NEW R \in SUBSET (0..(m + 1)), R # {}
               PROVE  \E x \in R : \A y \in R : x >= y
    OBVIOUS
  <2>1. CASE m + 1 \in R
    BY <2>1
  <2>2. CASE m + 1 \notin R
    <3>1. R \in SUBSET (0..m)
      BY <2>2
    <3> QED
      BY <1>2, <3>1
  <2> QED
    BY <2>1, <2>2
<1> HIDE DEF T
<1>3. n \in T
  BY <1>1, <1>2, SetInduction
<1>4. \E x \in S : \A y \in S : x >= y
  BY <1>3 DEF T
<1> QED
  BY <1>4 DEF Max

\* The places up to which a sequence fits have a greatest one.
LEMMA FitsUpTo ==
  ASSUME NEW cap, NEW E, NEW s \in Seq(E)
  PROVE  /\ Max(Fits(cap, s)) \in Fits(cap, s) /\ Max(Fits(cap, s)) \in 0..Len(s)
         /\ \A n \in Fits(cap, s) : Max(Fits(cap, s)) >= n
<1>1. Len(s) \in Nat /\ Fits(cap, s) \in SUBSET (0..Len(s)) /\ 0 \in Fits(cap, s)
  BY DEF Fits
<1>2. PICK F : F = Fits(cap, s)
  OBVIOUS
<1>3. F \in SUBSET (0..Len(s)) /\ F # {}
  BY <1>1, <1>2
<1>4. Max(F) \in F /\ \A y \in F : Max(F) >= y
  BY <1>1, <1>3, GreatestThere
<1> QED
  BY <1>1, <1>2, <1>4

\* What is within the capacity fits as a whole.
LEMMA FitAll ==
  ASSUME NEW cap, NEW E, NEW s \in Seq(E), Bytes(s) <= cap \/ Len(s) = 0
  PROVE  Fit(cap, s) = s
<1>1. SubSeq(s, 1, Len(s)) = s
  BY SubSeqFull
<1>2. Len(s) \in Nat /\ Len(s) \in Fits(cap, s)
  <2>1. PICK n : n = Len(s)
    OBVIOUS
  <2>2. n \in Nat /\ n \in 0..n
    BY <2>1
  <2>3. n = 0 \/ Bytes(SubSeq(s, 1, n)) <= cap
    BY <1>1, <2>1
  <2> QED
    BY <2>1, <2>2, <2>3 DEF Fits
<1>3. Max(Fits(cap, s)) = Len(s)
  <2>1. Max(Fits(cap, s)) \in 0..Len(s) /\ Max(Fits(cap, s)) >= Len(s)
    BY <1>2, FitsUpTo
  <2> QED
    BY <1>2, <2>1
<1> QED
  BY <1>1, <1>3 DEF Fit

\* r is s without its last element, and s is over the capacity.
Cut(cap, r, s, E) ==
  /\ r \in Seq(E) /\ s \in Seq(E) /\ Len(s) = Len(r) + 1
  /\ \A i \in 1..Len(r) : r[i] = s[i]
  /\ cap \in Int /\ Bytes(s) \in Int /\ Bytes(s) > cap

\* Of what is over the capacity, the last element does not fit.
LEMMA FitCut ==
  ASSUME NEW cap, NEW r, NEW s, NEW E, Cut(cap, r, s, E)
  PROVE  Fit(cap, r) = Fit(cap, s)
<1> /\ r \in Seq(E) /\ s \in Seq(E) /\ Len(s) = Len(r) + 1
    /\ \A i \in 1..Len(r) : r[i] = s[i]
    /\ cap \in Int /\ Bytes(s) \in Int /\ Bytes(s) > cap
    /\ Len(r) \in Nat
  BY DEF Cut
<1>1. ASSUME NEW n \in 0..Len(r) PROVE SubSeq(r, 1, n) = SubSeq(s, 1, n)
  <2>1. PICK a, b : a = SubSeq(r, 1, n) /\ b = SubSeq(s, 1, n)
    OBVIOUS
  <2>2. a \in Seq(E) /\ Len(a) = n /\ \A i \in 1..n : a[i] = r[i]
    BY <2>1
  <2>3. b \in Seq(E) /\ Len(b) = n /\ \A i \in 1..n : b[i] = s[i]
    BY <2>1
  <2>4. ASSUME NEW i \in 1..n PROVE a[i] = b[i]
    <3>1. i \in 1..Len(r)
      OBVIOUS
    <3>2. r[i] = s[i]
      BY <3>1
    <3>3. a[i] = r[i] /\ b[i] = s[i]
      BY <2>2, <2>3
    <3> QED
      BY <3>2, <3>3
  <2>5. a = b
    BY <2>2, <2>3, <2>4, SeqEqual
  <2> QED
    BY <2>1, <2>5
<1>2. Len(s) \notin Fits(cap, s)
  <2>1. PICK n : n = Len(s)
    OBVIOUS
  <2>2. SubSeq(s, 1, n) = s
    BY <2>1, SubSeqFull
  <2>3. n # 0
    BY <2>1
  <2>4. Bytes(SubSeq(s, 1, n)) = Bytes(s)
    BY <2>2
  <2>5. ~(Bytes(SubSeq(s, 1, n)) <= cap)
    BY <2>4
  <2> QED
    BY <2>1, <2>3, <2>5 DEF Fits
<1>3. Fits(cap, r) = Fits(cap, s)
  <2>1. \A n : n \in 0..Len(s) /\ n # Len(s) <=> n \in 0..Len(r)
    OBVIOUS
  <2>2. ASSUME NEW n \in 0..Len(r) PROVE n \in Fits(cap, r) <=> n \in Fits(cap, s)
    BY <1>1, <2>1 DEF Fits
  <2>3. \A n : /\ n \in Fits(cap, r) => n \in 0..Len(r)
               /\ n \in Fits(cap, s) => n \in 0..Len(s)
    BY DEF Fits
  <2> QED
    BY <1>2, <2>1, <2>2, <2>3
<1>4. Max(Fits(cap, r)) \in 0..Len(r)
  BY FitsUpTo
<1> QED
  BY <1>1, <1>3, <1>4 DEF Fit

\* The entry of k is at place p of s, and nowhere else.
IsAt(s, k, p) ==
  p \in 1..Len(s) /\ s[p].key = k /\ \A j \in 1..Len(s) : s[j].key = k => j = p

\* Where the entry of k is, it is removed.
LEMMA RestWithout ==
  ASSUME NEW E, NEW s \in Seq(E), NEW k, NEW p, IsAt(s, k, p)
  PROVE  Rest(s, k) = RemoveAt(s, p)
<1>1. p \in 1..Len(s) /\ s[p].key = k /\ \A j \in 1..Len(s) : s[j].key = k => j = p
  BY DEF IsAt
<1> DEFINE I == {j \in 1..Len(s) : s[j].key = k}
<1>2. I = {p}
  BY <1>1
<1>3. Min(I) = p
  BY <1>1, <1>2 DEF Min
<1>4. SelectInSeq(s, LAMBDA e : e.key = k) = IF I # {} THEN Min(I) ELSE 0
  BY DEF SelectInSeq
<1>5. SelectInSeq(s, LAMBDA e : e.key = k) = p
  BY <1>2, <1>3, <1>4
<1>6. Rest(s, k) = RemoveAt(s, SelectInSeq(s, LAMBDA e : e.key = k))
  BY <1>1 DEF Rest, RemoveFirstMatch
<1> QED
  BY <1>5, <1>6

\* Where there is none, the contents stay.
LEMMA RestSame ==
  ASSUME NEW s, NEW k, \A j \in 1..Len(s) : s[j].key # k
  PROVE  Rest(s, k) = s
BY DEF Rest, RemoveFirstMatch

\* What a list of keys lists.
Entries(S) == [key : S, data : Buffers]

\* The listing, place by place.
LEMMA ListingFacts ==
  ASSUME NEW es, NEW l, NEW S, S \subseteq DOMAIN es, l \in Seq(S),
         es \in [DOMAIN es -> Buffers]
  PROVE  /\ Listing(es, l) \in Seq(Entries(S)) /\ Len(Listing(es, l)) = Len(l)
         /\ \A i \in 1..Len(l) : Listing(es, l)[i] = [key |-> l[i], data |-> es[l[i]]]
<1>1. PICK n : n = Len(l)
  OBVIOUS
<1>2. n \in Nat /\ DOMAIN l = 1..n /\ \A i \in 1..n : l[i] \in S /\ es[l[i]] \in Buffers
  <2>1. n \in Nat /\ DOMAIN l = 1..n /\ \A i \in 1..n : l[i] \in S
    BY <1>1
  <2> QED
    BY <2>1
<1>3. PICK s : s = Listing(es, l)
  OBVIOUS
<1>4. s = [i \in 1..n |-> [key |-> l[i], data |-> es[l[i]]]]
  BY <1>2, <1>3 DEF Listing
<1>5. \A i \in 1..n : [key |-> l[i], data |-> es[l[i]]] \in Entries(S)
  BY <1>2 DEF Entries
<1>6. s \in [1..n -> Entries(S)]
  BY <1>4, <1>5
<1>7. s \in Seq(Entries(S)) /\ Len(s) = n
  BY <1>2, <1>6
<1> QED
  BY <1>1, <1>3, <1>4, <1>7

\* The same for a list of any of the entries' keys.
LEMMA ListingAll ==
  ASSUME NEW es, NEW l, l \in Seq(DOMAIN es), es \in [DOMAIN es -> Buffers]
  PROVE  /\ Listing(es, l) \in Seq(Entries(DOMAIN es)) /\ Len(Listing(es, l)) = Len(l)
         /\ \A i \in 1..Len(l) : Listing(es, l)[i] = [key |-> l[i], data |-> es[l[i]]]
<1>1. PICK n : n = Len(l)
  OBVIOUS
<1>2. n \in Nat /\ DOMAIN l = 1..n /\ \A i \in 1..n : l[i] \in DOMAIN es /\ es[l[i]] \in Buffers
  <2>1. n \in Nat /\ DOMAIN l = 1..n /\ \A i \in 1..n : l[i] \in DOMAIN es
    BY <1>1
  <2> QED
    BY <2>1
<1>3. PICK s : s = Listing(es, l)
  OBVIOUS
<1>4. s = [i \in 1..n |-> [key |-> l[i], data |-> es[l[i]]]]
  BY <1>2, <1>3 DEF Listing
<1>5. \A i \in 1..n : [key |-> l[i], data |-> es[l[i]]] \in Entries(DOMAIN es)
  BY <1>2 DEF Entries
<1>6. s \in [1..n -> Entries(DOMAIN es)]
  BY <1>4, <1>5
<1>7. s \in Seq(Entries(DOMAIN es)) /\ Len(s) = n
  BY <1>2, <1>6
<1> QED
  BY <1>1, <1>3, <1>4, <1>7

\* fs has the entries of es, but for that of k.
But(k, fs, es) ==
  /\ es \in [DOMAIN es -> Buffers] /\ fs \in [DOMAIN fs -> Buffers]
  /\ DOMAIN es \ {k} \subseteq DOMAIN fs /\ \A x \in DOMAIN es \ {k} : fs[x] = es[x]

\* k is at place p of the list l of S, and m is l without it.
Leaves(m, l, S, k, p) ==
  /\ Lists(l, S) /\ p \in 1..Len(l) /\ l[p] = k
  /\ m = RemoveAt(l, p) /\ m \in Seq(S \ {k})

\* What Without takes from the list.
LEMMA LeavesThere ==
  ASSUME NEW l, NEW S, Lists(l, S), NEW k \in S
  PROVE  LET p == CHOOSE i \in DOMAIN l : l[i] = k IN Leaves(RemoveAt(l, p), l, S, k, p)
<1>1. PICK p : p = CHOOSE i \in DOMAIN l : l[i] = k
  OBVIOUS
<1>2. l \in Seq(S) /\ ToSet(l) = S
  BY DEF Lists
<1>3. \E i \in DOMAIN l : l[i] = k
  BY <1>2 DEF ToSet
<1>4. p \in DOMAIN l /\ l[p] = k
  BY <1>1, <1>3
<1>5. Lists(RemoveAt(l, CHOOSE i \in DOMAIN l : l[i] = k), S \ {k})
  BY Unlist
<1>6. RemoveAt(l, p) \in Seq(S \ {k})
  <2>1. Lists(RemoveAt(l, p), S \ {k})
    BY <1>1, <1>5
  <2> QED
    BY <2>1 DEF Lists
<1>7. DOMAIN l = 1..Len(l)
  BY <1>2
<1>8. Leaves(RemoveAt(l, p), l, S, k, p)
  BY <1>4, <1>6, <1>7 DEF Leaves
<1> QED
  BY <1>1, <1>8

\* Without k in the list, its entry is not listed, and the others are as they were.
LEMMA ListingWithout ==
  ASSUME NEW es, NEW fs, NEW k, But(k, fs, es),
         NEW l, NEW m, NEW p, Leaves(m, l, DOMAIN es, k, p)
  PROVE  Listing(fs, m) = Rest(Listing(es, l), k)
<1>0. /\ es \in [DOMAIN es -> Buffers] /\ fs \in [DOMAIN fs -> Buffers]
      /\ DOMAIN es \ {k} \subseteq DOMAIN fs /\ \A x \in DOMAIN es \ {k} : fs[x] = es[x]
  BY DEF But
<1>1. PICK S, R : S = DOMAIN es /\ R = S \ {k}
  OBVIOUS
<1>2. /\ l \in Seq(S) /\ DOMAIN l = 1..Len(l) /\ Len(l) \in Nat
      /\ \A i, j \in 1..Len(l) : l[i] = l[j] => i = j
  BY <1>1 DEF Leaves, Lists
<1>3. p \in 1..Len(l) /\ l[p] = k /\ m = RemoveAt(l, p) /\ m \in Seq(R)
  BY <1>1 DEF Leaves
<1>4. PICK s : s = Listing(es, l)
  OBVIOUS
<1>5. /\ m \in Seq(S) /\ Len(m) = Len(l) - 1
      /\ \A j \in 1..Len(m) : m[j] = l[IF j < p THEN j ELSE j + 1]
  BY <1>2, <1>3, RemoveAtFacts
<1>6. \A j \in 1..Len(m) : m[j] \in R
  BY <1>3
<1>7. /\ s \in Seq(Entries(S)) /\ Len(s) = Len(l)
      /\ \A i \in 1..Len(l) : s[i] = [key |-> l[i], data |-> es[l[i]]]
  BY <1>0, <1>1, <1>2, <1>4, ListingFacts
<1>8. PICK t : t = Listing(fs, m)
  OBVIOUS
<1>9. /\ t \in Seq(Entries(R)) /\ Len(t) = Len(m)
      /\ \A i \in 1..Len(m) : t[i] = [key |-> m[i], data |-> fs[m[i]]]
  <2>1. R \subseteq DOMAIN fs
    BY <1>0, <1>1
  <2> QED
    BY <1>0, <1>3, <1>8, <2>1, ListingFacts
<1>10. IsAt(s, k, p)
  <2>1. ASSUME NEW i \in 1..Len(l) PROVE s[i].key = l[i]
    <3>1. s[i] = [key |-> l[i], data |-> es[l[i]]]
      BY <1>7
    <3> QED
      BY <3>1
  <2>2. Len(s) = Len(l)
    BY <1>7
  <2> QED
    BY <1>2, <1>3, <2>1, <2>2 DEF IsAt
<1>11. PICK r : r = RemoveAt(s, p)
  OBVIOUS
<1>12. /\ r \in Seq(Entries(S)) /\ Len(r) = Len(s) - 1
       /\ \A j \in 1..Len(r) : r[j] = s[IF j < p THEN j ELSE j + 1]
  BY <1>3, <1>7, <1>11, RemoveAtFacts
<1>13. ASSUME NEW j \in 1..Len(m) PROVE t[j] = r[j]
  <2>1. PICK q : q = IF j < p THEN j ELSE j + 1
    OBVIOUS
  <2>2. q \in 1..Len(l)
    BY <1>2, <1>3, <1>5, <2>1
  <2>3. m[j] = l[q] /\ r[j] = s[q]
    BY <1>5, <1>7, <1>12, <2>1
  <2>4. fs[m[j]] = es[l[q]]
    BY <1>0, <1>1, <1>6, <2>3
  <2>5. s[q] = [key |-> l[q], data |-> es[l[q]]]
    BY <1>7, <2>2
  <2>6. t[j] = [key |-> m[j], data |-> fs[m[j]]]
    BY <1>9
  <2> QED
    BY <2>3, <2>4, <2>5, <2>6
<1>14. t \in Seq(Entries(S))
  <2>1. Entries(R) \subseteq Entries(S)
    BY <1>1 DEF Entries
  <2> QED
    BY <1>9, <2>1, SeqMonotonic
<1>15. t = r
  BY <1>5, <1>7, <1>9, <1>12, <1>13, <1>14, SeqEqual
<1>16. Rest(s, k) = r
  BY <1>7, <1>10, <1>11, RestWithout
<1> QED
  BY <1>4, <1>8, <1>15, <1>16

\* A key in front of the list puts its entry in front of the listing.
LEMMA ListingFront ==
  ASSUME NEW fs, NEW m, NEW k \in DOMAIN fs, m \in Seq(DOMAIN fs),
         fs \in [DOMAIN fs -> Buffers]
  PROVE  Listing(fs, <<k>> \o m) = <<[key |-> k, data |-> fs[k]]>> \o Listing(fs, m)
<1>1. PICK S, E, c : S = DOMAIN fs /\ E = Entries(S) /\ c = [key |-> k, data |-> fs[k]]
  OBVIOUS
<1>2. k \in S /\ m \in Seq(S) /\ S \subseteq DOMAIN fs
  BY <1>1
<1>3. PICK l, t : l = <<k>> \o m /\ t = Listing(fs, m)
  OBVIOUS
<1>4. /\ l \in Seq(S) /\ Len(l) = Len(m) + 1 /\ l[1] = k /\ Len(m) \in Nat
      /\ \A i \in 1..Len(m) : l[i + 1] = m[i]
  BY <1>2, <1>3
<1>5. /\ t \in Seq(E) /\ Len(t) = Len(m)
      /\ \A i \in 1..Len(m) : t[i] = [key |-> m[i], data |-> fs[m[i]]]
  BY <1>1, <1>2, <1>3, ListingFacts
<1>6. PICK u : u = Listing(fs, l)
  OBVIOUS
<1>7. /\ u \in Seq(E) /\ Len(u) = Len(l)
      /\ \A i \in 1..Len(l) : u[i] = [key |-> l[i], data |-> fs[l[i]]]
  BY <1>1, <1>2, <1>4, <1>6, ListingFacts
<1>8. c \in E
  BY <1>1, <1>2 DEF Entries
<1>9. PICK r : r = <<c>> \o t
  OBVIOUS
<1>10. /\ r \in Seq(E) /\ Len(r) = Len(t) + 1 /\ r[1] = c
       /\ \A i \in 1..Len(t) : r[i + 1] = t[i]
  BY <1>5, <1>8, <1>9
<1>11. ASSUME NEW i \in 1..Len(u) PROVE u[i] = r[i]
  <2>1. CASE i = 1
    <3>1. u[1] = [key |-> l[1], data |-> fs[l[1]]]
      BY <1>7, <2>1
    <3> QED
      BY <1>1, <1>4, <1>10, <2>1, <3>1
  <2>2. CASE i # 1
    <3>1. PICK j : j = i - 1
      OBVIOUS
    <3>2. j \in 1..Len(m) /\ i = j + 1
      BY <1>4, <1>7, <2>2, <3>1
    <3>3. u[i] = [key |-> l[i], data |-> fs[l[i]]] /\ l[i] = m[j]
      BY <1>4, <1>7, <3>2
    <3>4. r[i] = t[j] /\ t[j] = [key |-> m[j], data |-> fs[m[j]]]
      BY <1>5, <1>10, <3>2
    <3> QED
      BY <3>3, <3>4
  <2> QED
    BY <2>1, <2>2
<1>12. u = r
  BY <1>4, <1>5, <1>7, <1>10, <1>11, SeqEqual
<1> QED
  BY <1>1, <1>3, <1>6, <1>9, <1>12

\* What the cache shows of a pool: the entries listed, but for those about to be evicted.
Shown(cap, es, l) == Fit(cap, Listing(es, l))

\* The pool between calls.
Idle(cap, es, l, u) == InStep(es, l, u) /\ (u <= cap \/ DOMAIN es = {})

\* Between calls all entries are shown.
LEMMA AllShown ==
  ASSUME NEW cap, NEW es, NEW l, NEW u, Idle(cap, es, l, u)
  PROVE  Shown(cap, es, l) = Listing(es, l)
<1>1. /\ Lists(l, DOMAIN es) /\ es \in [DOMAIN es -> Buffers]
      /\ InStep(es, l, u) /\ (u <= cap \/ DOMAIN es = {})
  BY DEF Idle, InStep
<1>2. PICK s : s = Listing(es, l)
  OBVIOUS
<1>3. s \in Seq(Entries(DOMAIN es)) /\ Len(s) = Len(l)
  <2>1. l \in Seq(DOMAIN es)
    BY <1>1 DEF Lists
  <2> QED
    BY <1>1, <1>2, <2>1, ListingFacts
<1>4. Bytes(s) = u
  BY <1>1, <1>2, BytesUsed
<1>5. DOMAIN es = {} => Len(s) = 0
  BY <1>1, <1>3, FS_EmptySet DEF Lists
<1>6. Bytes(s) <= cap \/ Len(s) = 0
  BY <1>1, <1>4, <1>5
<1>7. Fit(cap, s) = s
  BY <1>3, <1>6, FitAll
<1> QED
  BY <1>2, <1>7 DEF Shown

\* What the operations of the cache do, of what is shown.
CacheGet(c, c2, k) == \E i \in DOMAIN c : c[i].key = k /\ c2 = <<c[i]>> \o Rest(c, k)

CachePut(cap, c, c2, k, data) ==
  cap # 0 /\ c2 = Fit(cap, <<[key |-> k, data |-> data]>> \o Rest(c, k))

\* A hit.
LEMMA GetShown ==
  ASSUME NEW cap, NEW es, NEW l, NEW u, Idle(cap, es, l, u), NEW k \in DOMAIN es,
         NEW m, NEW p, Leaves(m, l, DOMAIN es, k, p), Idle(cap, es, <<k>> \o m, u),
         NEW c, c = Shown(cap, es, l)
  PROVE  CacheGet(c, Shown(cap, es, <<k>> \o m), k)
<1>1. c = Listing(es, l) /\ Shown(cap, es, <<k>> \o m) = Listing(es, <<k>> \o m)
  BY AllShown
<1>2. es \in [DOMAIN es -> Buffers] /\ l \in Seq(DOMAIN es)
  BY DEF Idle, InStep, Lists
<1>3. p \in 1..Len(l) /\ l[p] = k /\ m \in Seq(DOMAIN es \ {k})
  BY DEF Leaves
<1>4. c[p] = [key |-> l[p], data |-> es[l[p]]] /\ p \in DOMAIN c
  <2>1. c \in Seq(Entries(DOMAIN es)) /\ Len(c) = Len(l) /\ c[p] = [key |-> l[p], data |-> es[l[p]]]
    BY <1>1, <1>2, <1>3, ListingFacts
  <2> QED
    BY <1>3, <2>1
<1>5. c[p] = [key |-> k, data |-> es[k]]
  BY <1>3, <1>4
<1>6. c[p].key = k
  BY <1>5
<1>7. m \in Seq(DOMAIN es)
  <2>1. DOMAIN es \ {k} \subseteq DOMAIN es
    OBVIOUS
  <2> QED
    BY <1>3, <2>1, SeqMonotonic
<1>8. Listing(es, <<k>> \o m) = <<[key |-> k, data |-> es[k]]>> \o Listing(es, m)
  BY <1>2, <1>7, ListingFront
<1>9. Listing(es, m) = Rest(Listing(es, l), k)
  <2>1. But(k, es, es)
    BY <1>2 DEF But
  <2> QED
    BY <2>1, ListingWithout
<1>10. Shown(cap, es, <<k>> \o m) = <<c[p]>> \o Rest(c, k)
  BY <1>1, <1>5, <1>8, <1>9
<1> QED
  BY <1>4, <1>6, <1>10 DEF CacheGet

\* fs has data for k, and is es otherwise.
Has(fs, es, k, data) ==
  /\ es \in [DOMAIN es -> Buffers] /\ fs \in [DOMAIN fs -> Buffers]
  /\ DOMAIN fs = DOMAIN es \cup {k} /\ fs[k] = data
  /\ \A x \in DOMAIN es \ {k} : fs[x] = es[x]

\* Put, before it evicts: the list is l2, which is k and the others.
LEMMA PutShown ==
  ASSUME NEW cap, NEW es, NEW l, NEW u, Idle(cap, es, l, u), NEW k, NEW data,
         NEW fs, Has(fs, es, k, data), NEW m,
         \/ k \notin DOMAIN es /\ m = l
         \/ \E p : Leaves(m, l, DOMAIN es, k, p)
  PROVE  Shown(cap, fs, <<k>> \o m)
           = Fit(cap, <<[key |-> k, data |-> data]>> \o Rest(Shown(cap, es, l), k))
<1>0. /\ es \in [DOMAIN es -> Buffers] /\ fs \in [DOMAIN fs -> Buffers]
      /\ DOMAIN fs = DOMAIN es \cup {k} /\ fs[k] = data /\ k \in DOMAIN fs
      /\ \A x \in DOMAIN es \ {k} : fs[x] = es[x]
  BY DEF Has
<1>1. Shown(cap, es, l) = Listing(es, l)
  BY AllShown
<1>2. l \in Seq(DOMAIN es)
  BY DEF Idle, InStep, Lists
<1>3. m \in Seq(DOMAIN es) /\ Listing(fs, m) = Rest(Listing(es, l), k)
  <2>1. CASE k \notin DOMAIN es /\ m = l
    <3>1. PICK s : s = Listing(es, l)
      OBVIOUS
    <3>2. DOMAIN l = 1..Len(l) /\ \A i \in 1..Len(l) : l[i] \in DOMAIN es
      BY <1>2
    <3>3. \A i \in 1..Len(l) : fs[l[i]] = es[l[i]] /\ l[i] # k
      BY <1>0, <2>1, <3>2
    <3>4. Listing(fs, l) = s
      BY <3>1, <3>2, <3>3 DEF Listing
    <3>5. Len(s) = Len(l) /\ \A i \in 1..Len(l) : s[i] = [key |-> l[i], data |-> es[l[i]]]
      <4>1. /\ Len(Listing(es, l)) = Len(l)
            /\ \A i \in 1..Len(l) : Listing(es, l)[i] = [key |-> l[i], data |-> es[l[i]]]
        BY <1>0, <1>2, ListingAll
      <4> QED
        BY <3>1, <4>1
    <3>6. ASSUME NEW i \in 1..Len(s) PROVE s[i].key # k
      <4>1. s[i] = [key |-> l[i], data |-> es[l[i]]] /\ l[i] # k
        BY <3>3, <3>5
      <4>2. s[i].key = l[i]
        BY <4>1
      <4> QED
        BY <4>1, <4>2
    <3>7. Rest(s, k) = s
      BY <3>6, RestSame
    <3> QED
      BY <1>2, <2>1, <3>1, <3>4, <3>7
  <2>2. ASSUME NEW p, Leaves(m, l, DOMAIN es, k, p)
        PROVE  m \in Seq(DOMAIN es) /\ Listing(fs, m) = Rest(Listing(es, l), k)
    <3>1. m \in Seq(DOMAIN es \ {k})
      BY <2>2 DEF Leaves
    <3>2. m \in Seq(DOMAIN es)
      <4>1. DOMAIN es \ {k} \subseteq DOMAIN es
        OBVIOUS
      <4> QED
        BY <3>1, <4>1, SeqMonotonic
    <3>3. But(k, fs, es)
      BY <1>0 DEF But
    <3> QED
      BY <2>2, <3>2, <3>3, ListingWithout
  <2> QED
    BY <2>1, <2>2
<1>4. m \in Seq(DOMAIN fs)
  <2>1. DOMAIN es \subseteq DOMAIN fs
    BY <1>0
  <2> QED
    BY <1>3, <2>1, SeqMonotonic
<1>5. Listing(fs, <<k>> \o m) = <<[key |-> k, data |-> fs[k]]>> \o Listing(fs, m)
  BY <1>0, <1>4, ListingFront
<1> QED
  BY <1>0, <1>1, <1>3, <1>5 DEF Shown

\* Remove, after which the pool is still within its budget.
LEMMA RemoveShown ==
  ASSUME NEW cap, NEW es, NEW l, NEW u, Idle(cap, es, l, u), NEW k \in DOMAIN es,
         NEW ds, ds = [x \in DOMAIN es \ {k} |-> es[x]],
         NEW m, NEW p, Leaves(m, l, DOMAIN es, k, p), NEW v, Idle(cap, ds, m, v)
  PROVE  Shown(cap, ds, m) = Rest(Shown(cap, es, l), k)
<1>1. Shown(cap, es, l) = Listing(es, l) /\ Shown(cap, ds, m) = Listing(ds, m)
  BY AllShown
<1>2. es \in [DOMAIN es -> Buffers]
  BY DEF Idle, InStep
<1>3. But(k, ds, es)
  BY <1>2 DEF But
<1>4. Listing(ds, m) = Rest(Listing(es, l), k)
  BY <1>3, ListingWithout
<1> QED
  BY <1>1, <1>4

\* A round of evict drops what was not shown.
LEMMA EvictShown ==
  ASSUME NEW cap \in Int, NEW es, NEW l, NEW u, InStep(es, l, u), u > cap, l # <<>>,
         NEW k, k = l[Len(l)],
         NEW ds, ds = [x \in DOMAIN es \ {k} |-> es[x]],
         NEW m, NEW p, Leaves(m, l, DOMAIN es, k, p)
  PROVE  Shown(cap, ds, m) = Shown(cap, es, l)
<1>1. /\ es \in [DOMAIN es -> Buffers] /\ l \in Seq(DOMAIN es)
      /\ \A i, j \in 1..Len(l) : l[i] = l[j] => i = j
  BY DEF InStep, Lists
<1>2. PICK n : n = Len(l)
  OBVIOUS
<1>3. n \in Nat \ {0} /\ n \in 1..n
  BY <1>1, <1>2
<1>4. p = n /\ m = RemoveAt(l, p) /\ m \in Seq(DOMAIN es \ {k})
  BY <1>1, <1>2, <1>3 DEF Leaves
<1>5. Len(m) = n - 1 /\ \A j \in 1..Len(m) : m[j] = l[j]
  <2>1. /\ Len(RemoveAt(l, p)) = Len(l) - 1
        /\ \A j \in 1..Len(RemoveAt(l, p)) : RemoveAt(l, p)[j] = l[IF j < p THEN j ELSE j + 1]
    BY <1>1, <1>2, <1>3, <1>4, RemoveAtFacts
  <2>2. Len(m) = n - 1 /\ \A j \in 1..Len(m) : m[j] = l[IF j < p THEN j ELSE j + 1]
    BY <1>2, <1>4, <2>1
  <2> QED
    BY <1>3, <1>4, <2>2
<1>6. \A j \in 1..Len(m) : m[j] \in DOMAIN es \ {k} /\ ds[m[j]] = es[m[j]]
  BY <1>4
<1>7. PICK s, r : s = Listing(es, l) /\ r = Listing(ds, m)
  OBVIOUS
<1>8. /\ s \in Seq(Entries(DOMAIN es)) /\ Len(s) = n
      /\ \A i \in 1..n : s[i] = [key |-> l[i], data |-> es[l[i]]]
  <2>1. /\ Listing(es, l) \in Seq(Entries(DOMAIN es)) /\ Len(Listing(es, l)) = Len(l)
        /\ \A i \in 1..Len(l) : Listing(es, l)[i] = [key |-> l[i], data |-> es[l[i]]]
    BY <1>1, ListingAll
  <2> QED
    BY <1>2, <1>7, <2>1
<1>9. /\ r \in Seq(Entries(DOMAIN es \ {k})) /\ Len(r) = Len(m)
      /\ \A i \in 1..Len(m) : r[i] = [key |-> m[i], data |-> ds[m[i]]]
  <2>1. DOMAIN es \ {k} \subseteq DOMAIN ds /\ ds \in [DOMAIN ds -> Buffers]
    BY <1>1
  <2>2. /\ Listing(ds, m) \in Seq(Entries(DOMAIN es \ {k})) /\ Len(Listing(ds, m)) = Len(m)
        /\ \A i \in 1..Len(m) : Listing(ds, m)[i] = [key |-> m[i], data |-> ds[m[i]]]
    BY <1>4, <2>1, ListingFacts
  <2> QED
    BY <1>7, <2>2
<1>10. r \in Seq(Entries(DOMAIN es))
  <2>1. Entries(DOMAIN es \ {k}) \subseteq Entries(DOMAIN es)
    BY DEF Entries
  <2> QED
    BY <1>9, <2>1, SeqMonotonic
<1>11. ASSUME NEW i \in 1..Len(r) PROVE r[i] = s[i]
  <2>1. i \in 1..Len(m) /\ i \in 1..n
    BY <1>3, <1>5, <1>9
  <2>2. m[i] = l[i] /\ ds[m[i]] = es[l[i]]
    BY <1>5, <1>6, <2>1
  <2>3. r[i] = [key |-> m[i], data |-> ds[m[i]]]
    BY <1>9, <2>1
  <2>4. s[i] = [key |-> l[i], data |-> es[l[i]]]
    BY <1>8, <2>1
  <2> QED
    BY <2>2, <2>3, <2>4
<1>12. Bytes(s) \in Int /\ Bytes(s) > cap
  <2>1. Bytes(s) = u /\ u \in Nat
    BY <1>7, BytesUsed, UsedTyped
  <2> QED
    BY <2>1
<1>13. Cut(cap, r, s, Entries(DOMAIN es))
  <2>1. Len(s) = Len(r) + 1
    BY <1>3, <1>5, <1>8, <1>9
  <2> QED
    BY <1>8, <1>10, <1>11, <1>12, <2>1 DEF Cut
<1>14. Fit(cap, r) = Fit(cap, s)
  BY <1>13, FitCut
<1> QED
  BY <1>7, <1>14 DEF Shown

\* LRUCache has the library's operators as its own.
LEMMA SameOperators ==
  ASSUME NEW s, NEW k
  PROVE  /\ Ideal!Total(s) = Bytes(s) /\ Ideal!Max(s) = Max(s)
         /\ LRU!Total(s) = Bytes(s) /\ LRU!Max(s) = Max(s)
         /\ LRU!Others(k) = Rest(Ideal!Fitting(Contents), k)
<1>1. Ideal!Max(s) = Max(s) /\ LRU!Max(s) = Max(s)
  BY DEF Ideal!Max, LRU!Max, Max
<1>2. Ideal!Total(s) = Bytes(s)
  BY DEF Bytes, FoldSeq, FoldFunction, FoldFunctionOnSet, MapThenFoldSet,
         Ideal!Total, Ideal!FoldSeq, Ideal!FoldFunction, Ideal!FoldFunctionOnSet,
         Ideal!MapThenFoldSet
<1>3. LRU!Total(s) = Bytes(s)
  BY DEF Bytes, FoldSeq, FoldFunction, FoldFunctionOnSet, MapThenFoldSet,
         LRU!Total, LRU!FoldSeq, LRU!FoldFunction, LRU!FoldFunctionOnSet,
         LRU!MapThenFoldSet
<1>4. LRU!Others(k) = Rest(Ideal!Fitting(Contents), k)
  BY DEF Rest, RemoveFirstMatch, RemoveAt, SelectInSeq, Min,
         LRU!Others, LRU!RemoveFirstMatch, LRU!RemoveAt, LRU!SelectInSeq, LRU!Min
<1> QED
  BY <1>1, <1>2, <1>3, <1>4

\* What fits is the same.
LEMMA SameFitting ==
  ASSUME NEW s, NEW cap
  PROVE  LET Up == {n \in 0..Len(s) : n = 0 \/ Ideal!Total(SubSeq(s, 1, n)) <= cap}
             Ul == {n \in 0..Len(s) : n = 0 \/ LRU!Total(SubSeq(s, 1, n)) <= cap}
         IN  /\ SubSeq(s, 1, Ideal!Max(Up)) = Fit(cap, s)
             /\ SubSeq(s, 1, LRU!Max(Ul)) = Fit(cap, s)
<1>1. \A t : Ideal!Total(t) = Bytes(t) /\ LRU!Total(t) = Bytes(t)
  BY SameOperators
<1>2. PICK F : F = Fits(cap, s)
  OBVIOUS
<1>3. {n \in 0..Len(s) : n = 0 \/ Ideal!Total(SubSeq(s, 1, n)) <= cap} = F
  BY <1>1, <1>2 DEF Fits
<1>4. {n \in 0..Len(s) : n = 0 \/ LRU!Total(SubSeq(s, 1, n)) <= cap} = F
  BY <1>1, <1>2 DEF Fits
<1>5. Ideal!Max(F) = Max(F) /\ LRU!Max(F) = Max(F)
  BY SameOperators
<1> QED
  BY <1>2, <1>3, <1>4, <1>5 DEF Fit

\* The refinement mapping, now and after a step.
LEMMA ShownIs ==
  /\ Ideal!Fitting(Contents) = Shown(capacity, entries, lru)
  /\ Ideal!Fitting(Contents)' = Shown(capacity', entries', lru')
<1>1. Contents = Listing(entries, lru) /\ Contents' = Listing(entries', lru')
  BY DEF Contents, Listing
<1>2. Ideal!Fitting(Contents) = Fit(capacity, Contents)
  BY SameFitting DEF Ideal!Fitting
<1>3. Ideal!Fitting(Contents)' = Fit(capacity', Contents')
  BY SameFitting DEF Ideal!Fitting
<1> QED
  BY <1>1, <1>2, <1>3 DEF Shown

\* The cache does what LRUCache says when its contents change accordingly.
LEMMA CacheSteps ==
  ASSUME NEW k \in Keys
  PROVE  LET c  == Ideal!Fitting(Contents)
             c2 == Ideal!Fitting(Contents)'
         IN /\ CacheGet(c, c2, k) => LRU!Get(k)
            /\ c2 = Rest(c, k) => LRU!Delete(k)
            /\ \A data \in Buffers : CachePut(capacity, c, c2, k, data) => LRU!Put(k, data)
<1>1. LRU!Others(k) = Rest(Ideal!Fitting(Contents), k)
  BY SameOperators
<1>2. \A s : LRU!Fitting(s) = Fit(capacity, s)
  BY SameFitting DEF LRU!Fitting
<1> QED
  BY <1>1, <1>2 DEF CacheGet, CachePut, LRU!Get, LRU!Delete, LRU!Put

\* Every step of the pool is one of the cache, or none.
LEMMA StepShown ==
  ASSUME PoolInv, PoolInv', [Next]_vars
  PROVE  [LRU!Next]_<<capacity, Ideal!Fitting(Contents)>>
<1>0. /\ capacity \in Int /\ InStep(entries, lru, used) /\ InStep(entries', lru', used')
      /\ ~evicting => Idle(capacity, entries, lru, used)
      /\ ~evicting' => Idle(capacity', entries', lru', used')
  BY DEF PoolInv, Cached, Idle
<1>1. /\ Ideal!Fitting(Contents) = Shown(capacity, entries, lru)
      /\ Ideal!Fitting(Contents)' = Shown(capacity', entries', lru')
  BY ShownIs
<1>2. /\ Lists(lru, DOMAIN entries) /\ entries \in [DOMAIN entries -> Buffers]
      /\ entries' \in [DOMAIN entries' -> Buffers]
      /\ DOMAIN entries \subseteq Keys
  BY <1>0 DEF InStep
<1>3. ASSUME NEW k \in DOMAIN entries
      PROVE  \E p : Leaves(Without(k), lru, DOMAIN entries, k, p)
  <2>1. PICK p : p = CHOOSE i \in DOMAIN lru : lru[i] = k
    OBVIOUS
  <2>2. LET q == CHOOSE i \in DOMAIN lru : lru[i] = k
        IN  Leaves(RemoveAt(lru, q), lru, DOMAIN entries, k, q)
    BY <1>2, LeavesThere
  <2>3. Without(k) = RemoveAt(lru, p)
    BY <2>1 DEF Without
  <2>4. Leaves(Without(k), lru, DOMAIN entries, k, p)
    BY <2>1, <2>2, <2>3
  <2> QED
    BY <2>4
<1>4. ASSUME NEW k \in Keys, Get(k) PROVE LRU!Get(k) /\ UNCHANGED capacity
  <2>1. /\ ~evicting /\ ~evicting' /\ k \in DOMAIN entries
        /\ UNCHANGED <<capacity, entries, used>> /\ lru' = <<k>> \o Without(k)
    BY <1>4 DEF Get, Cached, MoveToFront
  <2>2. PICK p : Leaves(Without(k), lru, DOMAIN entries, k, p)
    BY <1>3, <2>1
  <2>3. /\ Idle(capacity, entries, lru, used)
        /\ Idle(capacity, entries, <<k>> \o Without(k), used)
    BY <1>0, <2>1
  <2>4. PICK c : c = Shown(capacity, entries, lru)
    OBVIOUS
  <2>5. CacheGet(c, Shown(capacity, entries, <<k>> \o Without(k)), k)
    BY <2>1, <2>2, <2>3, <2>4, GetShown
  <2>6. CacheGet(Ideal!Fitting(Contents), Ideal!Fitting(Contents)', k)
    BY <1>1, <2>1, <2>4, <2>5
  <2> QED
    BY <2>1, <2>6, CacheSteps
<1>5. ASSUME NEW k \in Keys, NEW data \in Buffers, Put(k, data)
      PROVE  LRU!Put(k, data) /\ UNCHANGED capacity
  <2>1. /\ ~evicting /\ capacity # 0 /\ UNCHANGED capacity
        /\ entries' = [x \in DOMAIN entries \cup {k} |-> IF x = k THEN data ELSE entries[x]]
        /\ lru' = IF k \in DOMAIN entries THEN <<k>> \o Without(k) ELSE <<k>> \o lru
    BY <1>5 DEF Put, Cached, MoveToFront
  <2>2. PICK m : m = IF k \in DOMAIN entries THEN Without(k) ELSE lru
    OBVIOUS
  <2>3. lru' = <<k>> \o m
    BY <2>1, <2>2
  <2>4. \/ k \notin DOMAIN entries /\ m = lru
        \/ \E p : Leaves(m, lru, DOMAIN entries, k, p)
    BY <1>3, <2>2
  <2>5. Has(entries', entries, k, data)
    BY <1>2, <2>1 DEF Has
  <2>6. Shown(capacity, entries', <<k>> \o m)
          = Fit(capacity, <<[key |-> k, data |-> data]>> \o Rest(Shown(capacity, entries, lru), k))
    BY <1>0, <2>1, <2>4, <2>5, PutShown
  <2>7. CachePut(capacity, Ideal!Fitting(Contents), Ideal!Fitting(Contents)', k, data)
    BY <1>1, <2>1, <2>3, <2>6 DEF CachePut
  <2> QED
    BY <2>1, <2>7, CacheSteps
<1>6. ASSUME NEW k \in Keys, RemoveKey(k) PROVE LRU!Delete(k) /\ UNCHANGED capacity
  <2>1. /\ ~evicting /\ ~evicting' /\ UNCHANGED capacity /\ k \in DOMAIN entries
        /\ entries' = [x \in DOMAIN entries \ {k} |-> entries[x]] /\ lru' = Without(k)
    BY <1>6 DEF RemoveKey, Drop, Cached
  <2>2. PICK p : Leaves(Without(k), lru, DOMAIN entries, k, p)
    BY <1>3, <2>1
  <2>3. Idle(capacity, entries, lru, used) /\ Idle(capacity, entries', Without(k), used')
    BY <1>0, <2>1
  <2>4. Shown(capacity, entries', Without(k)) = Rest(Shown(capacity, entries, lru), k)
    BY <2>1, <2>2, <2>3, RemoveShown
  <2>5. Ideal!Fitting(Contents)' = Rest(Ideal!Fitting(Contents), k)
    BY <1>1, <2>1, <2>4
  <2> QED
    BY <2>1, <2>5, CacheSteps
<1>7. CASE Evict
  <2>1. PICK k : k = lru[Len(lru)]
    OBVIOUS
  <2>2. /\ used > capacity /\ lru # <<>> /\ UNCHANGED capacity
        /\ entries' = [x \in DOMAIN entries \ {k} |-> entries[x]] /\ lru' = Without(k)
    <3>1. used > capacity
      <4>1. used \in Nat
        BY <1>0, UsedTyped
      <4> QED
        BY <1>7, <4>1 DEF Evict
    <3> QED
      BY <1>7, <2>1, <3>1 DEF Evict, Drop, Cached, Last
  <2>3. k \in DOMAIN entries
    <3>1. lru \in Seq(DOMAIN entries)
      BY <1>2 DEF Lists
    <3> QED
      BY <2>1, <2>2, <3>1
  <2>4. PICK p : Leaves(Without(k), lru, DOMAIN entries, k, p)
    BY <1>3, <2>3
  <2>5. Shown(capacity, entries', Without(k)) = Shown(capacity, entries, lru)
    BY <1>0, <2>1, <2>2, <2>4, EvictShown
  <2> QED
    BY <1>1, <2>2, <2>5
<1>8. CASE EvictDone
  BY <1>1, <1>8 DEF EvictDone
<1>9. CASE UNCHANGED vars
  BY <1>1, <1>9 DEF vars
<1> QED
  BY <1>4, <1>5, <1>6, <1>7, <1>8, <1>9 DEF Next, LRU!Next

\* buffer_pool.go:34-108.  With the entries that evict is about to drop left out, the pool
\* is a cache that keeps the most recently used entries that fit, for any keys, sizes and
\* capacities.
THEOREM ImplementsCache == Spec => ImplementsLRU
<1>1. Init => LRU!Init
  <2> SUFFICES ASSUME Init PROVE Ideal!Fitting(Contents) = <<>>
    BY DEF LRU!Init
  <2>1. Idle(capacity, entries, lru, used)
    BY InitPool DEF PoolInv, Cached, Idle, Init
  <2>2. Ideal!Fitting(Contents) = Listing(entries, lru)
    BY <2>1, ShownIs, AllShown
  <2>3. Listing(entries, lru) = <<>>
    BY DEF Init, Listing
  <2> QED
    BY <2>2, <2>3
<1>2. PoolInv /\ PoolInv' /\ [Next]_vars => [LRU!Next]_<<capacity, Ideal!Fitting(Contents)>>
  BY StepShown
<1> QED
  BY <1>1, <1>2, InitPool, NextPool, PTL DEF Spec, ImplementsLRU, LRU!Spec
=============================================================================
