---------------------------- MODULE SearchProofs ----------------------------
(***************************************************************************)
(* The answer of a search is the rows asked for, the nearest first, for    *)
(* any values, distances and queries, and any number and size of           *)
(* fragments.                                                              *)
(*                                                                         *)
(* The definitions below say what the loops have found so far, as          *)
(* functions of the query Q, the schema s of the search components and the *)
(* fragments v, of which no step of the loops changes any.                 *)
(***************************************************************************)
EXTENDS Search, FiniteSetTheorems, WellFoundedInduction, SequenceTheorems, TLAPS

-----------------------------------------------------------------------------
(* The invariant *)

\* The fragments: a row count that no column exceeds, and distances for the
\* column "vec", whose id is 1 from Init on.
Data == UNION {[ids -> BoundedSeq(TagValues \cup Distances, MaxRows)] : ids \in SUBSET Int}

Fragments == [n : 0..MaxRows, data : Data]

Sized(f) ==
  /\ \A id \in DOMAIN f.data : Len(f.data[id]) <= f.n
  /\ 1 \in DOMAIN f.data => f.data[1] \in Seq(Distances)

Intact(v) == v \in Seq(Fragments) /\ \A k \in DOMAIN v : Sized(v[k])

RowsIn(v) == {x \in (1..Len(v)) \X (1..MaxRows) : x[2] <= v[x[1]].n}

Precedes(y, x) == y[1] < x[1] \/ (y[1] = x[1] /\ y[2] < x[2])

IdIn(v, x) == Cardinality({y \in RowsIn(v) : Precedes(y, x)})

\* The rows of the first k - 1 fragments, which are those of ids below this.
Before(v, k) == Cardinality({y \in RowsIn(v) : y[1] < k})

Has(s, f, n) == n \in DOMAIN s /\ s[n] \in DOMAIN f.data

Valued(s, v, x, n) == Has(s, v[x[1]], n) /\ x[2] <= Len(v[x[1]].data[s[n]])

Meets(Q, s, v, x) ==
  /\ Q.filter[1] # <<>>
  /\ \A cond \in ToSet(Q.filter[1]) :
       /\ Valued(s, v, x, cond.column)
       /\ Matches(v[x[1]].data[s[cond.column]][x[2]], cond)

\* The rows asked for, and what the answer says of one.
Asked(Q, s, v) ==
  {x \in RowsIn(v) : /\ Q.vector \/ Q.filter # <<>>
                     /\ Q.vector => Valued(s, v, x, "vec")
                     /\ Q.filter # <<>> => Meets(Q, s, v, x)}

ScoreOf(Q, s, v, x) == IF Q.vector THEN v[x[1]].data[s["vec"]][x[2]] ELSE 0

HitOf(Q, s, v, x) == [row |-> IdIn(v, x), score |-> ScoreOf(Q, s, v, x)]

Hits(Q, s, v) == {HitOf(Q, s, v, x) : x \in Asked(Q, s, v)}

\* What the filter has found when it is at fragment k.
Meeting(Q, s, v, k) == {y \in RowsIn(v) : y[1] < k /\ Meets(Q, s, v, y)}

Filtered(Q, s, v, k) == {IdIn(v, x) : x \in Meeting(Q, s, v, k)}

\* What the scan has found when it is at fragment k.
FilterFirst(Q) == Q.filter # <<>> /\ Q.plan = "filterFirst"

Eligible(Q, s, v, y) == FilterFirst(Q) => Meets(Q, s, v, y)

LooksAt(Q, s, v, y) == Valued(s, v, y, "vec") /\ Eligible(Q, s, v, y)

Looked(Q, s, v, k) == {y \in RowsIn(v) : y[1] < k /\ LooksAt(Q, s, v, y)}

Found(Q, s, v, k) == {HitOf(Q, s, v, x) : x \in Looked(Q, s, v, k)}

\* NearestMatching, of an answer res.
Right(Q, s, v, res) ==
  LET returned == {res[k].row : k \in DOMAIN res}
      all == Cardinality(Asked(Q, s, v)) IN
  /\ Len(res) = (IF Q.limit > 0 /\ Q.limit < all THEN Q.limit ELSE all)
  /\ Cardinality(returned) = Len(res)
  /\ \A k \in DOMAIN res : \E x \in Asked(Q, s, v) : res[k] = HitOf(Q, s, v, x)
  /\ \A k \in 1..(Len(res) - 1) : res[k].score <= res[k + 1].score
  /\ \A x \in Asked(Q, s, v) : IdIn(v, x) \notin returned =>
       \A k \in DOMAIN res : res[k].score <= ScoreOf(Q, s, v, x)

\* A loop is at fragment k, the first row of which has the id off.
Looping(v, k, off) == k \in 1..(Len(v) + 1) /\ off = Before(v, k)

SchemaOK(s) ==
  /\ "vec" \in DOMAIN s /\ s["vec"] = 1
  /\ DOMAIN s \in {{"vec"}, {"tag", "vec"}} /\ \A n \in DOMAIN s : s[n] \in Int

\* What the search has found, when it is at p.
Progress(p, Q, s, v, k, off, match, cand, res) ==
  /\ p \in {"idle", "load"} => match = {} /\ cand = {}
  /\ p = "filter" =>
       /\ Q.filter # <<>> /\ Looping(v, k, off) /\ match = Filtered(Q, s, v, k)
       /\ Q.vector /\ Q.plan = "searchFirst" => res \in Sorted(Found(Q, s, v, Len(v) + 1))
       /\ ~(Q.vector /\ Q.plan = "searchFirst") => cand = {}
  /\ p = "scan" =>
       /\ Q.vector /\ Looping(v, k, off) /\ cand = Found(Q, s, v, k)
       /\ match = IF FilterFirst(Q) THEN Filtered(Q, s, v, Len(v) + 1) ELSE {}
  /\ p = "done" => Right(Q, s, v, res)

TableInv == q \in Queries /\ SchemaOK(schema) /\ SchemaOK(qschema) /\ Intact(frags) /\ Intact(view)

SearchInv ==
  /\ TableInv
  /\ Progress(pc, q, qschema, view, i, rowOffset, matching, candidates, results)

-----------------------------------------------------------------------------
(* Row ids *)

\* What the types say of a fragment, one at a time.
LEMMA FragmentFacts ==
  ASSUME NEW v, Intact(v), NEW k \in 1..Len(v)
  PROVE  v[k].n \in Nat /\ v[k].n <= MaxRows /\ Sized(v[k])
<1>1. v \in Seq(Fragments) /\ k \in DOMAIN v
  BY DEF Intact
<1>2. v[k] \in Fragments
  BY <1>1
<1>3. v[k].n \in 0..MaxRows
  BY <1>2 DEF Fragments
<1> QED
  BY <1>1, <1>3, SearchAssumption DEF Intact

\* There are finitely many rows, in the fragments there are.
LEMMA RowsFinite ==
  ASSUME NEW v, Intact(v)
  PROVE  /\ IsFiniteSet(RowsIn(v)) /\ Len(v) \in Nat
         /\ \A k, r : <<k, r>> \in RowsIn(v) <=> k \in 1..Len(v) /\ r \in 1..v[k].n
         /\ \A x \in RowsIn(v) : /\ x = <<x[1], x[2]>> /\ x[1] \in 1..Len(v)
                                /\ x[2] \in 1..v[x[1]].n
<1>1. Len(v) \in Nat
  BY DEF Intact
<1>2. IsFiniteSet(1..Len(v)) /\ IsFiniteSet(1..MaxRows)
  BY <1>1, SearchAssumption, FS_Interval
<1>3. IsFiniteSet((1..Len(v)) \X (1..MaxRows))
  BY <1>2, FS_Product
<1>4. RowsIn(v) \in SUBSET ((1..Len(v)) \X (1..MaxRows))
  BY DEF RowsIn
<1>5. IsFiniteSet(RowsIn(v))
  BY <1>3, <1>4, FS_Subset
<1>6. \A k \in 1..Len(v) : v[k].n \in Nat /\ v[k].n <= MaxRows
  BY FragmentFacts
<1>7. \A k, r : <<k, r>> \in RowsIn(v) <=> k \in 1..Len(v) /\ r \in 1..v[k].n
  BY <1>1, <1>6, SearchAssumption DEF RowsIn
<1>8. \A x \in RowsIn(v) : x = <<x[1], x[2]>>
  BY DEF RowsIn
<1>9. \A x \in RowsIn(v) : x[1] \in 1..Len(v) /\ x[2] \in 1..v[x[1]].n
  BY <1>7, <1>8
<1> QED
  BY <1>1, <1>5, <1>7, <1>8, <1>9

\* The first m rows of fragment k, counted.
LEMMA PrefixCount ==
  ASSUME NEW k, NEW m \in Nat
  PROVE  LET P == {<<k, r>> : r \in 1..m} IN IsFiniteSet(P) /\ Cardinality(P) = m
<1> DEFINE P == {<<k, r>> : r \in 1..m}
           f == [r \in 1..m |-> <<k, r>>]
<1>1. f \in Bijection(1..m, P)
  BY DEF Bijection, Injection, Surjection, IsInjective
<1>2. IsFiniteSet(1..m) /\ Cardinality(1..m) = m
  BY FS_Interval
<1>3. ExistsBijection(1..m, P)
  BY <1>1 DEF ExistsBijection
<1> QED
  BY <1>2, <1>3, FS_Bijection

\* The rows before fragment k and its first m rows together.
LEMMA PartCount ==
  ASSUME NEW v, Intact(v), NEW k \in 1..Len(v), NEW m \in 0..v[k].n
  PROVE  /\ Cardinality({y \in RowsIn(v) : y[1] < k \/ (y[1] = k /\ y[2] <= m)}) = Before(v, k) + m
         /\ Before(v, k) \in Nat
<1>0. v[k].n \in Nat /\ m \in Nat
  BY FragmentFacts
<1>1. PICK A, P : A = {y \in RowsIn(v) : y[1] < k} /\ P = {<<k, r>> : r \in 1..m}
  OBVIOUS
<1>2. IsFiniteSet(P) /\ Cardinality(P) = m
  BY <1>0, <1>1, PrefixCount
<1>3. IsFiniteSet(A) /\ Cardinality(A) \in Nat
  BY <1>1, RowsFinite, FS_Subset, FS_CardinalityType
<1>4. A \cap P = {}
  <2> SUFFICES ASSUME NEW y \in A \cap P PROVE FALSE
    OBVIOUS
  <2>1. y[1] < k /\ y[1] = k
    BY <1>1
  <2> QED
    BY <2>1
<1>5. A \cup P = {y \in RowsIn(v) : y[1] < k \/ (y[1] = k /\ y[2] <= m)}
  <2>1. ASSUME NEW y \in P PROVE y \in RowsIn(v) /\ y[1] = k /\ y[2] <= m
    <3>1. PICK r \in 1..m : y = <<k, r>>
      BY <1>1
    <3>2. r \in 1..v[k].n
      BY <1>0
    <3> QED
      BY <3>1, <3>2, RowsFinite
  <2>2. ASSUME NEW y \in RowsIn(v), y[1] = k, y[2] <= m PROVE y \in P
    <3>1. y = <<y[1], y[2]>> /\ y[2] \in 1..v[k].n
      BY <2>2, RowsFinite
    <3>2. y[2] \in 1..m
      BY <1>0, <2>2, <3>1
    <3> QED
      BY <1>1, <2>2, <3>1, <3>2
  <2> QED
    BY <1>1, <2>1, <2>2
<1>6. Cardinality(A \cup P) = Cardinality(A) + m
  <2>1. Cardinality(A \cap P) = 0
    BY <1>4, FS_EmptySet
  <2>2. Cardinality(A \cup P) = Cardinality(A) + Cardinality(P) - Cardinality(A \cap P)
    BY <1>2, <1>3, FS_Union
  <2> QED
    BY <1>2, <1>3, <2>1, <2>2
<1> QED
  BY <1>1, <1>3, <1>5, <1>6 DEF Before

\* rowOffset goes on from one fragment to the next.
LEMMA BeforeNext ==
  ASSUME NEW v, Intact(v), NEW k \in 1..Len(v)
  PROVE  Before(v, k + 1) = Before(v, k) + v[k].n
<1>1. v[k].n \in 0..v[k].n
  BY FragmentFacts
<1>2. \A y \in RowsIn(v) : y[1] < k + 1 <=> (y[1] < k \/ (y[1] = k /\ y[2] <= v[k].n))
  <2> SUFFICES ASSUME NEW y \in RowsIn(v)
               PROVE  y[1] < k + 1 <=> (y[1] < k \/ (y[1] = k /\ y[2] <= v[k].n))
    OBVIOUS
  <2>1. y[1] \in 1..Len(v) /\ y[2] \in 1..v[y[1]].n
    BY RowsFinite
  <2> QED
    BY <2>1
<1>3. {y \in RowsIn(v) : y[1] < k + 1} =
        {y \in RowsIn(v) : y[1] < k \/ (y[1] = k /\ y[2] <= v[k].n)}
  BY <1>2
<1> QED
  BY <1>1, <1>3, PartCount DEF Before

LEMMA BeforeFirst ==
  ASSUME NEW v, Intact(v) PROVE Before(v, 1) = 0
<1>1. {y \in RowsIn(v) : y[1] < 1} = {}
  <2> SUFFICES ASSUME NEW y \in RowsIn(v), y[1] < 1 PROVE FALSE
    OBVIOUS
  <2>1. y[1] \in 1..Len(v)
    BY RowsFinite
  <2> QED
    BY <2>1
<1> QED
  BY <1>1, FS_EmptySet DEF Before

\* The id that the loops give a row.
LEMMA IdAt ==
  ASSUME NEW v, Intact(v), NEW k \in 1..Len(v), NEW r \in 1..v[k].n
  PROVE  IdIn(v, <<k, r>>) = Before(v, k) + r - 1 /\ Before(v, k) \in Nat
<1>0. v[k].n \in Nat
  BY FragmentFacts
<1>1. r - 1 \in 0..v[k].n
  BY <1>0
<1>2. \A y \in RowsIn(v) :
         Precedes(y, <<k, r>>) <=> (y[1] < k \/ (y[1] = k /\ y[2] <= r - 1))
  <2> SUFFICES ASSUME NEW y \in RowsIn(v)
               PROVE  Precedes(y, <<k, r>>) <=> (y[1] < k \/ (y[1] = k /\ y[2] <= r - 1))
    OBVIOUS
  <2>1. y[1] \in 1..Len(v) /\ y[2] \in 1..v[y[1]].n
    BY RowsFinite
  <2>2. y[2] \in Int
    BY <2>1
  <2> QED
    BY <1>0, <2>2 DEF Precedes
<1>3. {y \in RowsIn(v) : Precedes(y, <<k, r>>)} =
        {y \in RowsIn(v) : y[1] < k \/ (y[1] = k /\ y[2] <= r - 1)}
  BY <1>2
<1>4. IdIn(v, <<k, r>>) = Before(v, k) + (r - 1) /\ Before(v, k) \in Nat
  <2>1. PICK m : m = r - 1
    OBVIOUS
  <2>2. /\ Cardinality({y \in RowsIn(v) : y[1] < k \/ (y[1] = k /\ y[2] <= m)}) = Before(v, k) + m
        /\ Before(v, k) \in Nat
    BY <1>1, <2>1, PartCount
  <2> QED
    BY <1>3, <2>1, <2>2 DEF IdIn
<1> QED
  BY <1>0, <1>4

\* No two rows have the same id.
LEMMA IdInjective ==
  ASSUME NEW v, Intact(v), NEW x \in RowsIn(v), NEW y \in RowsIn(v), IdIn(v, x) = IdIn(v, y)
  PROVE  x = y
<1>1. ASSUME NEW a \in RowsIn(v), NEW b \in RowsIn(v), Precedes(a, b)
      PROVE  IdIn(v, a) < IdIn(v, b)
  <2>1. PICK A, B : /\ A = {y1 \in RowsIn(v) : Precedes(y1, a)}
                    /\ B = {y1 \in RowsIn(v) : Precedes(y1, b)}
    OBVIOUS
  <2>2. \A c \in RowsIn(v) : c[1] \in Int /\ c[2] \in Int
    <3> SUFFICES ASSUME NEW c \in RowsIn(v) PROVE c[1] \in Int /\ c[2] \in Int
      OBVIOUS
    <3>1. c[1] \in 1..Len(v) /\ c[2] \in 1..v[c[1]].n
      BY RowsFinite
    <3> QED
      BY <3>1
  <2>3. a \notin A /\ a \in B
    BY <1>1, <2>1, <2>2 DEF Precedes
  <2>4. A \cup {a} \subseteq B
    <3>1. \A c \in A : c \in RowsIn(v) /\ Precedes(c, b)
      BY <1>1, <2>1, <2>2 DEF Precedes
    <3> QED
      BY <2>1, <2>3, <3>1
  <2>5. IsFiniteSet(A) /\ IsFiniteSet(B)
    BY <2>1, RowsFinite, FS_Subset
  <2>6. Cardinality(A \cup {a}) = Cardinality(A) + 1 /\ Cardinality(A) \in Nat
    BY <2>3, <2>5, FS_AddElement, FS_CardinalityType
  <2>7. Cardinality(A \cup {a}) <= Cardinality(B) /\ Cardinality(B) \in Nat
    BY <2>4, <2>5, FS_Subset, FS_CardinalityType
  <2>8. IdIn(v, a) = Cardinality(A) /\ IdIn(v, b) = Cardinality(B)
    BY <2>1 DEF IdIn
  <2> QED
    BY <2>6, <2>7, <2>8
<1>2. IdIn(v, x) \in Nat
  BY RowsFinite, FS_Subset, FS_CardinalityType DEF IdIn
<1>3. ~Precedes(x, y) /\ ~Precedes(y, x)
  BY <1>1, <1>2
<1>4. x = <<x[1], x[2]>> /\ y = <<y[1], y[2]>>
  BY RowsFinite
<1>5. x[1] \in 1..Len(v) /\ x[2] \in 1..v[x[1]].n /\ y[1] \in 1..Len(v) /\ y[2] \in 1..v[y[1]].n
  BY RowsFinite
<1>6. x[1] = y[1]
  BY <1>3, <1>5 DEF Precedes
<1>7. x[2] = y[2]
  BY <1>3, <1>5, <1>6 DEF Precedes
<1> QED
  BY <1>4, <1>6, <1>7

-----------------------------------------------------------------------------
(* Sorting *)

\* Induction, with a set of numbers for the property.
LEMMA SetInduction ==
  ASSUME NEW T, 0 \in T, \A n \in Nat : n \in T => n + 1 \in T
  PROVE  Nat \subseteq T
<1> SUFFICES ASSUME Nat \ T # {} PROVE FALSE
  OBVIOUS
<1>1. PICK m \in Nat \ T : \A y \in Nat \ T : ~(<<y, m>> \in OpToRel(<, Nat))
  BY NatLessThanWellFounded, WFMin
<1>2. m # 0 /\ m - 1 \in Nat /\ m - 1 < m /\ (m - 1) + 1 = m
  OBVIOUS
<1>3. m - 1 \in T
  BY <1>1, <1>2 DEF OpToRel
<1> QED
  BY <1>2, <1>3

\* A sequence that SetToSeqs gives has every element of the set, once.
LEMMA PermFacts ==
  ASSUME NEW S, IsFiniteSet(S), NEW s \in SetToSeqs(S)
  PROVE  /\ s \in Seq(S) /\ DOMAIN s = 1..Len(s) /\ Len(s) = Cardinality(S) /\ Len(s) \in Nat
         /\ \A j, k \in 1..Len(s) : s[j] = s[k] => j = k
         /\ \A x \in S : \E k \in 1..Len(s) : s[k] = x
<1>1. Cardinality(S) \in Nat
  BY FS_CardinalityType
<1>2. PICK n : n = Cardinality(S)
  OBVIOUS
<1>3. s \in [1..n -> S] /\ \A j, k \in 1..n : j # k => s[j] # s[k]
  BY <1>2 DEF SetToSeqs
<1>4. s \in Seq(S) /\ Len(s) = n /\ DOMAIN s = 1..n
  BY <1>1, <1>2, <1>3
<1>5. s \in Injection(1..n, S)
  BY <1>3 DEF Injection, IsInjective
<1>6. IsFiniteSet(1..n) /\ Cardinality(1..n) = n
  BY <1>1, <1>2, FS_Interval
<1>7. s \in Surjection(1..n, S)
  BY <1>2, <1>5, <1>6, FS_Injection
<1>8. \A x \in S : \E k \in 1..n : s[k] = x
  BY <1>7 DEF Surjection
<1> QED
  BY <1>1, <1>2, <1>3, <1>4, <1>8

\* What is sorted step by step is sorted.
LEMMA Ascending ==
  ASSUME NEW n \in Nat, NEW f, \A k \in 1..n : f[k] \in Int,
         \A k \in 1..(n - 1) : f[k] <= f[k + 1],
         NEW j \in 1..n, NEW l \in 1..n, j <= l
  PROVE  f[j] <= f[l]
<1> DEFINE T == {d \in Nat : j + d \in 1..n => f[j] <= f[j + d]}
<1>1. 0 \in T
  OBVIOUS
<1>2. ASSUME NEW d \in Nat, d \in T PROVE d + 1 \in T
  <2> SUFFICES ASSUME j + (d + 1) \in 1..n PROVE f[j] <= f[j + (d + 1)]
    OBVIOUS
  <2>1. j + d \in 1..n /\ j + d \in 1..(n - 1) /\ (j + d) + 1 = j + (d + 1)
    OBVIOUS
  <2>2. f[j] <= f[j + d]
    BY <1>2, <2>1
  <2>3. f[j + d] <= f[(j + d) + 1]
    BY <2>1
  <2>4. f[j] \in Int /\ f[j + d] \in Int /\ f[j + (d + 1)] \in Int
    BY <2>1
  <2> HIDE DEF T
  <2> QED
    BY <2>1, <2>2, <2>3, <2>4
<1> HIDE DEF T
<1>3. l - j \in T
  BY <1>1, <1>2, SetInduction
<1>4. j + (l - j) = l
  OBVIOUS
<1> QED
  BY <1>3, <1>4 DEF T

-----------------------------------------------------------------------------
(* Answers *)

\* A vector of a row has a distance.
LEMMA ScoreTyped ==
  ASSUME NEW Q, NEW s, SchemaOK(s), NEW v, Intact(v), NEW x \in RowsIn(v),
         Q.vector => Valued(s, v, x, "vec")
  PROVE  ScoreOf(Q, s, v, x) \in Int
<1>1. CASE Q.vector
  <2>1. x[1] \in 1..Len(v) /\ x[2] \in 1..v[x[1]].n
    BY RowsFinite
  <2>2. PICK f : f = v[x[1]]
    OBVIOUS
  <2>3. 1 \in DOMAIN f.data /\ x[2] <= Len(f.data[1]) /\ s["vec"] = 1
    BY <1>1, <2>2 DEF Valued, Has, SchemaOK
  <2>4. f.data[1] \in Seq(Distances)
    BY <2>1, <2>2, <2>3, FragmentFacts DEF Sized
  <2>5. x[2] \in 1..Len(f.data[1])
    BY <2>1, <2>3, <2>4
  <2>6. f.data[1][x[2]] \in Distances
    BY <2>4, <2>5
  <2>7. ScoreOf(Q, s, v, x) = f.data[1][x[2]]
    BY <1>1, <2>2, <2>3 DEF ScoreOf
  <2>8. Distances \subseteq Int
    BY SearchAssumption
  <2> QED
    BY <2>6, <2>7, <2>8
<1>2. CASE ~Q.vector
  BY <1>2 DEF ScoreOf
<1> QED
  BY <1>1, <1>2

\* There is a hit for each row asked for, and they are told apart by their ids.
LEMMA HitsCount ==
  ASSUME NEW Q, NEW s, NEW v, Intact(v)
  PROVE  /\ IsFiniteSet(Hits(Q, s, v)) /\ Cardinality(Hits(Q, s, v)) = Cardinality(Asked(Q, s, v))
         /\ \A g, h \in Hits(Q, s, v) : g.row = h.row => g = h
<1>1. PICK A, H : A = Asked(Q, s, v) /\ H = Hits(Q, s, v)
  OBVIOUS
<1>2. A \in SUBSET RowsIn(v) /\ IsFiniteSet(A)
  BY <1>1, RowsFinite, FS_Subset DEF Asked
<1> DEFINE f == [x \in A |-> HitOf(Q, s, v, x)]
<1>3. H = {HitOf(Q, s, v, x) : x \in A}
  BY <1>1 DEF Hits
<1>4. \A x, y \in A : HitOf(Q, s, v, x).row = HitOf(Q, s, v, y).row => x = y
  BY <1>2, IdInjective DEF HitOf
<1>5. f \in Bijection(A, H)
  BY <1>3, <1>4 DEF Bijection, Injection, Surjection, IsInjective
<1>6. IsFiniteSet(H) /\ Cardinality(H) = Cardinality(A)
  <2>1. ExistsBijection(A, H)
    BY <1>5 DEF ExistsBijection
  <2> QED
    BY <1>2, <2>1, FS_Bijection
<1>7. \A g, h \in H : g.row = h.row => g = h
  BY <1>3, <1>4
<1> QED
  BY <1>1, <1>6, <1>7

Cut(Q, rows) ==
  IF Q.limit > 0 /\ Q.limit < Len(rows) THEN SubSeq(rows, 1, Q.limit) ELSE rows

\* The number of rows that a limit leaves of n.
Allowed(Q, n) == IF Q.limit > 0 /\ Q.limit < n THEN Q.limit ELSE n

LEMMA CutFacts ==
  ASSUME NEW S, NEW r \in Seq(S), NEW Q, Q.limit \in Int
  PROVE  LET res == Cut(Q, r)
             m == Allowed(Q, Len(r)) IN
         /\ res \in Seq(S) /\ Len(res) = m /\ m \in 0..Len(r) /\ DOMAIN res = 1..m
         /\ \A k \in 1..m : res[k] = r[k]
<1>1. CASE Q.limit > 0 /\ Q.limit < Len(r)
  <2>1. PICK n : n = Q.limit
    OBVIOUS
  <2>2. n \in 1..Len(r) /\ Cut(Q, r) = SubSeq(r, 1, n) /\ Allowed(Q, Len(r)) = n
    BY <1>1, <2>1 DEF Cut, Allowed
  <2>3. /\ SubSeq(r, 1, n) \in Seq(S) /\ Len(SubSeq(r, 1, n)) = n
        /\ \A k \in 1..n : SubSeq(r, 1, n)[k] = r[k]
    BY <2>2
  <2> QED
    BY <2>2, <2>3
<1>2. CASE ~(Q.limit > 0 /\ Q.limit < Len(r))
  BY <1>2 DEF Cut, Allowed
<1> QED
  BY <1>1, <1>2

\* The sorted hits, cut to the limit, are a right answer.
LEMMA AnswerRight ==
  ASSUME NEW Q, Q.limit \in Int, NEW s, SchemaOK(s), NEW v, Intact(v),
         NEW r \in Sorted(Hits(Q, s, v))
  PROVE  Right(Q, s, v, Cut(Q, r))
<1>1. PICK A, H, n, m, res :
        /\ A = Asked(Q, s, v) /\ H = Hits(Q, s, v) /\ n = Len(r) /\ m = Allowed(Q, Len(r))
        /\ res = Cut(Q, r)
  OBVIOUS
<1>2. /\ IsFiniteSet(H) /\ Cardinality(H) = Cardinality(A)
      /\ \A g, h \in H : g.row = h.row => g = h
  BY <1>1, HitsCount
<1>3. r \in SetToSeqs(H) /\ \A k \in 1..(n - 1) : r[k].score <= r[k + 1].score
  BY <1>1 DEF Sorted
<1>4. /\ r \in Seq(H) /\ n = Cardinality(A) /\ n \in Nat
      /\ \A j, k \in 1..n : r[j] = r[k] => j = k
      /\ \A h \in H : \E k \in 1..n : r[k] = h
  BY <1>1, <1>2, <1>3, PermFacts
<1>5. /\ Len(res) = m /\ m \in 0..n /\ DOMAIN res = 1..m /\ \A k \in 1..m : res[k] = r[k]
  <2>1. /\ Len(Cut(Q, r)) = Allowed(Q, Len(r)) /\ Allowed(Q, Len(r)) \in 0..Len(r)
        /\ DOMAIN Cut(Q, r) = 1..Allowed(Q, Len(r))
        /\ \A k \in 1..Allowed(Q, Len(r)) : Cut(Q, r)[k] = r[k]
    BY <1>4, CutFacts
  <2> QED
    BY <1>1, <2>1
<1>6. \A k \in 1..n : r[k] \in H
  <2>1. \A k \in 1..Len(r) : r[k] \in H
    BY <1>4
  <2> QED
    BY <1>1, <2>1
<1>7. H = {HitOf(Q, s, v, x) : x \in A}
  BY <1>1 DEF Hits
<1>8. \A j, l \in 1..n : j <= l => r[j].score <= r[l].score
  <2> DEFINE f == [k \in 1..n |-> r[k].score]
  <2>1. \A x \in A : ScoreOf(Q, s, v, x) \in Int
    BY <1>1, ScoreTyped DEF Asked
  <2>2. \A h \in H : h.score \in Int
    BY <1>7, <2>1 DEF HitOf
  <2>3. \A k \in 1..n : f[k] \in Int
    BY <1>6, <2>2
  <2>4. \A k \in 1..(n - 1) : f[k] <= f[k + 1]
    BY <1>3, <1>4
  <2>5. \A k \in 1..n : f[k] = r[k].score
    OBVIOUS
  <2> HIDE DEF f
  <2>6. \A j, l \in 1..n : j <= l => f[j] <= f[l]
    BY <1>4, <2>3, <2>4, Ascending
  <2> QED
    BY <2>5, <2>6
<1>9. PICK returned : returned = {res[k].row : k \in DOMAIN res}
  OBVIOUS
<1>10. Cardinality(returned) = m
  <2> DEFINE f == [k \in 1..m |-> res[k].row]
  <2>1. \A j, k \in 1..m : res[j].row = res[k].row => j = k
    <3> SUFFICES ASSUME NEW j \in 1..m, NEW k \in 1..m, res[j].row = res[k].row PROVE j = k
      OBVIOUS
    <3>1. j \in 1..n /\ k \in 1..n /\ res[j] = r[j] /\ res[k] = r[k]
      BY <1>4, <1>5
    <3>2. r[j] = r[k]
      BY <1>2, <1>6, <3>1
    <3> QED
      BY <1>4, <3>1, <3>2
  <2>2. f \in Bijection(1..m, returned)
    BY <1>5, <1>9, <2>1 DEF Bijection, Injection, Surjection, IsInjective
  <2>3. ExistsBijection(1..m, returned) /\ m \in Nat
    BY <1>4, <1>5, <2>2 DEF ExistsBijection
  <2> QED
    BY <2>3, FS_CountingElements
<1>11. ASSUME NEW k \in DOMAIN res PROVE \E x \in A : res[k] = HitOf(Q, s, v, x)
  <2>1. k \in 1..n /\ res[k] = r[k]
    BY <1>4, <1>5
  <2> QED
    BY <1>6, <1>7, <2>1
<1>12. ASSUME NEW k \in 1..(Len(res) - 1) PROVE res[k].score <= res[k + 1].score
  <2>1. k \in 1..m /\ k + 1 \in 1..m /\ k \in 1..(n - 1)
    BY <1>4, <1>5
  <2> QED
    BY <1>3, <1>5, <2>1
<1>13. ASSUME NEW x \in A, IdIn(v, x) \notin returned, NEW k \in DOMAIN res
       PROVE  res[k].score <= ScoreOf(Q, s, v, x)
  <2>1. PICK l \in 1..n : r[l] = HitOf(Q, s, v, x)
    BY <1>4, <1>7
  <2>2. r[l].row = IdIn(v, x) /\ r[l].score = ScoreOf(Q, s, v, x)
    BY <2>1 DEF HitOf
  <2>3. l \notin 1..m
    <3>1. l \in 1..m => res[l].row = IdIn(v, x)
      BY <1>5, <2>2
    <3> QED
      BY <1>5, <1>9, <1>13, <3>1
  <2>4. k \in 1..n /\ k <= l /\ res[k] = r[k]
    BY <1>4, <1>5, <2>3
  <2> QED
    BY <1>8, <2>2, <2>4
<1>14. Len(res) = (IF Q.limit > 0 /\ Q.limit < Cardinality(A) THEN Q.limit ELSE Cardinality(A))
  <2>1. m = IF Q.limit > 0 /\ Q.limit < n THEN Q.limit ELSE n
    BY <1>1 DEF Allowed
  <2> QED
    BY <1>4, <1>5, <2>1
<1>15. Cardinality(returned) = Len(res)
  BY <1>5, <1>10
<1> QED
  BY <1>1, <1>9, <1>11, <1>12, <1>13, <1>14, <1>15 DEF Right

-----------------------------------------------------------------------------
(* The loops *)

\* The rows before fragment k + 1 are those before k, and those of k.
LEMMA RowsSplit ==
  ASSUME NEW v, Intact(v), NEW k \in 1..Len(v)
  PROVE  /\ \A y \in RowsIn(v) : y[1] < k + 1 <=> (y[1] < k \/ y[1] = k)
         /\ \A y \in RowsIn(v) : y[1] = k => y = <<k, y[2]>> /\ y[2] \in 1..v[k].n
         /\ \A r \in 1..v[k].n : <<k, r>> \in RowsIn(v)
<1>1. ASSUME NEW y \in RowsIn(v) PROVE y[1] < k + 1 <=> (y[1] < k \/ y[1] = k)
  <2>1. y[1] \in 1..Len(v)
    BY RowsFinite
  <2> QED
    BY <2>1
<1>2. ASSUME NEW y \in RowsIn(v), y[1] = k PROVE y = <<k, y[2]>> /\ y[2] \in 1..v[k].n
  <2>1. y = <<y[1], y[2]>> /\ y[2] \in 1..v[y[1]].n
    BY RowsFinite
  <2> QED
    BY <1>2, <2>1
<1>3. \A r \in 1..v[k].n : <<k, r>> \in RowsIn(v)
  BY RowsFinite
<1> QED
  BY <1>1, <1>2, <1>3

\* All rows are before the fragment after the last.
LEMMA RowsAll ==
  ASSUME NEW v, Intact(v), NEW y \in RowsIn(v) PROVE y[1] < Len(v) + 1
<1>1. y[1] \in 1..Len(v) /\ Len(v) \in Nat
  BY RowsFinite
<1> QED
  BY <1>1

\* FilterFragment finds the rows of a fragment that meet the conditions.
LEMMA FilterNext ==
  ASSUME NEW Q, NEW s, NEW v, Intact(v), NEW k \in 1..Len(v), Q.filter[1] # <<>>,
         \A cond \in ToSet(Q.filter[1]) : Has(s, v[k], cond.column)
  PROVE  Filtered(Q, s, v, k + 1) = Filtered(Q, s, v, k) \cup
           {Before(v, k) + row - 1 : row \in
             {r \in 1..v[k].n : \A cond \in ToSet(Q.filter[1]) :
                RowMatches(v[k].data[s[cond.column]], r, cond)}}
<1>1. PICK N : N = {r \in 1..v[k].n : \A cond \in ToSet(Q.filter[1]) :
                      RowMatches(v[k].data[s[cond.column]], r, cond)}
  OBVIOUS
<1>2. \A r \in 1..v[k].n : r \in N <=> Meets(Q, s, v, <<k, r>>)
  BY <1>1 DEF Meets, Valued, RowMatches
<1>3. Meeting(Q, s, v, k + 1) = Meeting(Q, s, v, k) \cup {<<k, r>> : r \in N}
  <2>1. ASSUME NEW y \in Meeting(Q, s, v, k + 1)
        PROVE  y \in Meeting(Q, s, v, k) \/ y \in {<<k, r>> : r \in N}
    <3>1. y \in RowsIn(v) /\ y[1] < k + 1 /\ Meets(Q, s, v, y)
      BY DEF Meeting
    <3>2. y[1] < k \/ y[1] = k
      BY <3>1, RowsSplit
    <3>3. CASE y[1] < k
      BY <3>1, <3>3 DEF Meeting
    <3>4. CASE y[1] = k
      <4>1. y = <<k, y[2]>> /\ y[2] \in 1..v[k].n
        BY <3>1, <3>4, RowsSplit
      <4>2. y[2] \in N
        BY <1>2, <3>1, <4>1
      <4> QED
        BY <4>1, <4>2
    <3> QED
      BY <3>2, <3>3, <3>4
  <2>2. ASSUME NEW r \in N PROVE <<k, r>> \in Meeting(Q, s, v, k + 1)
    <3>1. r \in 1..v[k].n
      BY <1>1
    <3>2. <<k, r>> \in RowsIn(v) /\ <<k, r>>[1] < k + 1
      BY <3>1, RowsSplit
    <3> QED
      BY <1>2, <3>1, <3>2 DEF Meeting
  <2>3. Meeting(Q, s, v, k) \subseteq Meeting(Q, s, v, k + 1)
    BY RowsSplit DEF Meeting
  <2> QED
    BY <2>1, <2>2, <2>3
<1>4. \A r \in N : IdIn(v, <<k, r>>) = Before(v, k) + r - 1
  BY <1>1, IdAt
<1>5. {IdIn(v, x) : x \in {<<k, r>> : r \in N}} = {Before(v, k) + row - 1 : row \in N}
  BY <1>4
<1>6. Filtered(Q, s, v, k + 1) =
        Filtered(Q, s, v, k) \cup {IdIn(v, x) : x \in {<<k, r>> : r \in N}}
  BY <1>3 DEF Filtered
<1> QED
  BY <1>1, <1>5, <1>6

\* A row's id is among those the filter found if the row is.
LEMMA FilteredIff ==
  ASSUME NEW Q, NEW s, NEW v, Intact(v), NEW x \in RowsIn(v)
  PROVE  IdIn(v, x) \in Filtered(Q, s, v, Len(v) + 1) <=> Meets(Q, s, v, x)
<1>1. \A y \in Meeting(Q, s, v, Len(v) + 1) :
         y \in RowsIn(v) /\ Meets(Q, s, v, y)
  BY DEF Meeting
<1>2. Meets(Q, s, v, x) => x \in Meeting(Q, s, v, Len(v) + 1)
  BY RowsAll DEF Meeting
<1>3. ASSUME IdIn(v, x) \in Filtered(Q, s, v, Len(v) + 1) PROVE Meets(Q, s, v, x)
  <2>1. PICK y \in Meeting(Q, s, v, Len(v) + 1) : IdIn(v, x) = IdIn(v, y)
    BY <1>3 DEF Filtered
  <2>2. x = y
    BY <1>1, <2>1, IdInjective
  <2> QED
    BY <1>1, <2>2
<1>4. Meets(Q, s, v, x) => IdIn(v, x) \in Filtered(Q, s, v, Len(v) + 1)
  BY <1>2 DEF Filtered
<1> QED
  BY <1>3, <1>4

\* The column a scan reads is no longer than its fragment.
LEMMA ColumnLength ==
  ASSUME NEW s, NEW v, Intact(v), NEW k \in 1..Len(v), Has(s, v[k], "vec"),
         NEW c, c = v[k].data[s["vec"]]
  PROVE  Len(c) <= v[k].n /\ Len(c) \in Nat /\ v[k].n \in Nat
<1>1. v \in Seq(Fragments)
  BY DEF Intact
<1>2. v[k] \in Fragments
  BY <1>1
<1>3. c \in BoundedSeq(TagValues \cup Distances, MaxRows)
  BY <1>2 DEF Has, Fragments, Data
<1>4. Len(c) \in Nat
  BY <1>3, SearchAssumption DEF BoundedSeq, SeqOf
<1>5. Len(c) <= v[k].n
  BY FragmentFacts DEF Has, Sized
<1> QED
  BY <1>4, <1>5, FragmentFacts

\* The distances of fragment k and, of its rows, those that have one and are
\* looked at.
Scans(Q, s, v, k, c, N) ==
  /\ Q.vector /\ Intact(v) /\ k \in 1..Len(v) /\ Has(s, v[k], "vec")
  /\ c = v[k].data[s["vec"]]
  /\ \A j : j \in N <=> j \in 1..Len(c) /\ Eligible(Q, s, v, <<k, j>>)

\* The rows that are looked at in a fragment, besides those before it.
LEMMA LookedNext ==
  ASSUME NEW Q, NEW s, NEW v, NEW k, NEW c, NEW N, Scans(Q, s, v, k, c, N)
  PROVE  /\ Looked(Q, s, v, k + 1) = Looked(Q, s, v, k) \cup {<<k, r>> : r \in N}
         /\ N \subseteq 1..v[k].n /\ \A r \in N : ScoreOf(Q, s, v, <<k, r>>) = c[r]
<1>1. /\ Q.vector /\ Intact(v) /\ k \in 1..Len(v) /\ Has(s, v[k], "vec")
      /\ c = v[k].data[s["vec"]]
      /\ \A j : j \in N <=> j \in 1..Len(c) /\ Eligible(Q, s, v, <<k, j>>)
  BY DEF Scans
<1>2. Len(c) <= v[k].n /\ Len(c) \in Nat /\ v[k].n \in Nat
  BY <1>1, ColumnLength
<1>3. ASSUME NEW r \in 1..v[k].n PROVE r \in N <=> LooksAt(Q, s, v, <<k, r>>)
  <2>1. Valued(s, v, <<k, r>>, "vec") <=> r \in 1..Len(c)
    BY <1>1, <1>2 DEF Valued
  <2>2. r \in N <=> r \in 1..Len(c) /\ Eligible(Q, s, v, <<k, r>>)
    BY <1>1
  <2> QED
    BY <2>1, <2>2 DEF LooksAt
<1>4. N \subseteq 1..v[k].n
  <2> SUFFICES ASSUME NEW r \in N PROVE r \in 1..v[k].n
    OBVIOUS
  <2>1. r \in 1..Len(c)
    BY <1>1
  <2> QED
    BY <1>2, <2>1
<1>5. Looked(Q, s, v, k + 1) = Looked(Q, s, v, k) \cup {<<k, r>> : r \in N}
  <2>1. ASSUME NEW y \in Looked(Q, s, v, k + 1)
        PROVE  y \in Looked(Q, s, v, k) \/ y \in {<<k, r>> : r \in N}
    <3>1. y \in RowsIn(v) /\ y[1] < k + 1 /\ LooksAt(Q, s, v, y)
      BY DEF Looked
    <3>2. y[1] < k \/ y[1] = k
      BY <1>1, <3>1, RowsSplit
    <3>3. CASE y[1] < k
      BY <3>1, <3>3 DEF Looked
    <3>4. CASE y[1] = k
      <4>1. y = <<k, y[2]>> /\ y[2] \in 1..v[k].n
        BY <1>1, <3>1, <3>4, RowsSplit
      <4>2. y[2] \in N
        BY <1>3, <3>1, <4>1
      <4> QED
        BY <4>1, <4>2
    <3> QED
      BY <3>2, <3>3, <3>4
  <2>2. ASSUME NEW r \in N PROVE <<k, r>> \in Looked(Q, s, v, k + 1)
    <3>1. r \in 1..v[k].n
      BY <1>4
    <3>2. <<k, r>> \in RowsIn(v) /\ <<k, r>>[1] < k + 1
      BY <1>1, <3>1, RowsSplit
    <3> QED
      BY <1>3, <3>1, <3>2 DEF Looked
  <2>3. Looked(Q, s, v, k) \subseteq Looked(Q, s, v, k + 1)
    BY <1>1, RowsSplit DEF Looked
  <2> QED
    BY <2>1, <2>2, <2>3
<1>6. \A r \in N : ScoreOf(Q, s, v, <<k, r>>) = c[r]
  BY <1>1 DEF ScoreOf
<1> QED
  BY <1>4, <1>5, <1>6

\* ScanFragment finds the rows of a fragment that have a vector and are wanted.
LEMMA ScanNext ==
  ASSUME NEW Q, NEW s, NEW v, NEW k, NEW c, NEW N, Scans(Q, s, v, k, c, N)
  PROVE  Found(Q, s, v, k + 1) = Found(Q, s, v, k) \cup
           {[row |-> Before(v, k) + r - 1, score |-> c[r]] : r \in N}
<1>1. Intact(v) /\ k \in 1..Len(v)
  BY DEF Scans
<1>2. /\ Looked(Q, s, v, k + 1) = Looked(Q, s, v, k) \cup {<<k, r>> : r \in N}
      /\ N \subseteq 1..v[k].n /\ \A r \in N : ScoreOf(Q, s, v, <<k, r>>) = c[r]
  BY LookedNext
<1>3. \A r \in N : HitOf(Q, s, v, <<k, r>>) = [row |-> Before(v, k) + r - 1, score |-> c[r]]
  <2> SUFFICES ASSUME NEW r \in N
               PROVE  HitOf(Q, s, v, <<k, r>>) = [row |-> Before(v, k) + r - 1, score |-> c[r]]
    OBVIOUS
  <2>1. IdIn(v, <<k, r>>) = Before(v, k) + r - 1
    BY <1>1, <1>2, IdAt
  <2> QED
    BY <1>2, <2>1 DEF HitOf
<1>4. {HitOf(Q, s, v, x) : x \in {<<k, r>> : r \in N}} =
        {[row |-> Before(v, k) + r - 1, score |-> c[r]] : r \in N}
  BY <1>3
<1>5. Found(Q, s, v, k + 1) =
        Found(Q, s, v, k) \cup {HitOf(Q, s, v, x) : x \in {<<k, r>> : r \in N}}
  BY <1>2 DEF Found
<1> QED
  BY <1>4, <1>5
-----------------------------------------------------------------------------
(* The answers of the plans *)

\* A sequence of the elements of S, each once, is one that SetToSeqs gives.
LEMMA MakePerm ==
  ASSUME NEW S, NEW n \in Nat, NEW f \in Bijection(1..n, S)
  PROVE  f \in SetToSeqs(S)
<1>1. Cardinality(S) = n
  BY FS_CountingElements DEF ExistsBijection
<1>2. f \in [1..n -> S] /\ \A j, k \in 1..n : j # k => f[j] # f[k]
  BY DEF Bijection, Injection, IsInjective
<1> QED
  BY <1>1, <1>2 DEF SetToSeqs

\* What the scan finds are finitely many hits with distances.
LEMMA FoundFacts ==
  ASSUME NEW Q, Q.vector, NEW s, SchemaOK(s), NEW v, Intact(v), NEW k
  PROVE  IsFiniteSet(Found(Q, s, v, k)) /\ \A h \in Found(Q, s, v, k) : h.score \in Int
<1>1. PICK L : L = Looked(Q, s, v, k)
  OBVIOUS
<1>2. L \in SUBSET RowsIn(v) /\ IsFiniteSet(L)
  BY <1>1, RowsFinite, FS_Subset DEF Looked
<1> DEFINE f == [x \in L |-> HitOf(Q, s, v, x)]
<1>3. Found(Q, s, v, k) = {HitOf(Q, s, v, x) : x \in L}
  BY <1>1 DEF Found
<1>4. f \in Surjection(L, Found(Q, s, v, k))
  BY <1>3 DEF Surjection
<1>5. IsFiniteSet(Found(Q, s, v, k))
  BY <1>2, <1>4, FS_Surjection
<1>6. \A x \in L : x \in RowsIn(v) /\ Valued(s, v, x, "vec")
  BY <1>1 DEF Looked, LooksAt
<1>7. \A x \in L : ScoreOf(Q, s, v, x) \in Int
  BY <1>6, ScoreTyped
<1>8. \A h \in Found(Q, s, v, k) : h.score \in Int
  BY <1>3, <1>7 DEF HitOf
<1> QED
  BY <1>5, <1>8

\* Without a filter, and with filterFirst, the scan finds the hits.
LEMMA FoundAll ==
  ASSUME NEW Q, Q.vector, Q.filter # <<>> => Q.plan = "filterFirst", NEW s, NEW v, Intact(v)
  PROVE  Found(Q, s, v, Len(v) + 1) = Hits(Q, s, v)
<1>1. \A x \in RowsIn(v) : x[1] < Len(v) + 1
  BY RowsAll
<1>2. FilterFirst(Q) <=> Q.filter # <<>>
  BY DEF FilterFirst
<1>3. Looked(Q, s, v, Len(v) + 1) = Asked(Q, s, v)
  <2>1. ASSUME NEW x \in Looked(Q, s, v, Len(v) + 1) PROVE x \in Asked(Q, s, v)
    BY <1>2, <2>1 DEF Looked, LooksAt, Eligible, Asked
  <2>2. ASSUME NEW x \in Asked(Q, s, v) PROVE x \in Looked(Q, s, v, Len(v) + 1)
    BY <1>1, <1>2, <2>2 DEF Looked, LooksAt, Eligible, Asked
  <2> QED
    BY <2>1, <2>2
<1> QED
  BY <1>3 DEF Found, Hits

\* Where no row is asked for, the answer is empty.
LEMMA EmptyRight ==
  ASSUME NEW Q, Q.limit \in Int, NEW s, SchemaOK(s), NEW v, Intact(v), Asked(Q, s, v) = {}
  PROVE  Right(Q, s, v, <<>>)
<1>1. Hits(Q, s, v) = {}
  BY DEF Hits
<1>2. <<>> \in Bijection(1..0, {})
  BY DEF Bijection, Injection, Surjection, IsInjective
<1>3. <<>> \in SetToSeqs({})
  BY <1>2, MakePerm
<1>4. <<>> \in Sorted(Hits(Q, s, v))
  BY <1>1, <1>3 DEF Sorted
<1>5. Cut(Q, <<>>) = <<>>
  BY DEF Cut
<1>6. Right(Q, s, v, Cut(Q, <<>>))
  BY <1>4, AnswerRight
<1> QED
  BY <1>5, <1>6

\* The rows a filter alone finds, in the order of their ids, are the hits.
LEMMA FilterSorted ==
  ASSUME NEW Q, ~Q.vector, Q.filter # <<>>, NEW s, NEW v, Intact(v),
         NEW match, match = Filtered(Q, s, v, Len(v) + 1), NEW rows \in InOrder(match)
  PROVE  [k \in DOMAIN rows |-> [row |-> rows[k], score |-> 0]] \in Sorted(Hits(Q, s, v))
<1>1. PICK A, H : A = Asked(Q, s, v) /\ H = Hits(Q, s, v)
  OBVIOUS
<1>2. A = Meeting(Q, s, v, Len(v) + 1)
  <2>1. \A x \in RowsIn(v) : x[1] < Len(v) + 1
    BY RowsAll
  <2> QED
    BY <1>1, <2>1 DEF Asked, Meeting
<1>3. match = {IdIn(v, x) : x \in A}
  BY <1>2 DEF Filtered
<1>4. \A x : HitOf(Q, s, v, x) = [row |-> IdIn(v, x), score |-> 0]
  BY DEF HitOf, ScoreOf
<1>5. H = {[row |-> IdIn(v, x), score |-> 0] : x \in A}
  BY <1>1, <1>4 DEF Hits
<1>6. H = {[row |-> r, score |-> 0] : r \in match}
  BY <1>3, <1>5
<1>7. IsFiniteSet(match)
  <2>1. A \in SUBSET RowsIn(v) /\ IsFiniteSet(A)
    BY <1>1, RowsFinite, FS_Subset DEF Asked
  <2> DEFINE f == [x \in A |-> IdIn(v, x)]
  <2>2. f \in Surjection(A, match)
    BY <1>3 DEF Surjection
  <2> QED
    BY <2>1, <2>2, FS_Surjection
<1>8. rows \in SetToSeqs(match)
  BY DEF InOrder
<1>9. PICK n : n = Len(rows)
  OBVIOUS
<1>10. /\ rows \in Seq(match) /\ DOMAIN rows = 1..n /\ n \in Nat
       /\ \A j, k \in 1..n : rows[j] = rows[k] => j = k
       /\ \A r \in match : \E k \in 1..n : rows[k] = r
  BY <1>7, <1>8, <1>9, PermFacts
<1> DEFINE a == [k \in 1..n |-> [row |-> rows[k], score |-> 0]]
<1>11. \A k \in 1..n : rows[k] \in match
  BY <1>9, <1>10
<1>12. a \in Bijection(1..n, H)
  BY <1>6, <1>10, <1>11 DEF Bijection, Injection, Surjection, IsInjective
<1>13. a \in SetToSeqs(H)
  BY <1>10, <1>12, MakePerm
<1>14. Len(a) = n /\ \A k \in 1..n : a[k].score = 0
  BY <1>10
<1>15. \A k \in 1..(Len(a) - 1) : a[k].score <= a[k + 1].score
  BY <1>10, <1>14
<1>16. a = [k \in DOMAIN rows |-> [row |-> rows[k], score |-> 0]]
  BY <1>10
<1> HIDE DEF a
<1> QED
  BY <1>1, <1>13, <1>15, <1>16 DEF Sorted
\* With searchFirst, what is found and matches are the hits.
LEMMA MatchingHits ==
  ASSUME NEW Q, Q.vector, Q.filter # <<>>, Q.plan = "searchFirst", NEW s, NEW v, Intact(v),
         NEW h
  PROVE  h \in Hits(Q, s, v) <=> /\ h \in Found(Q, s, v, Len(v) + 1)
                                 /\ h.row \in Filtered(Q, s, v, Len(v) + 1)
<1>1. ~FilterFirst(Q)
  BY DEF FilterFirst
<1>2. \A x \in RowsIn(v) : x[1] < Len(v) + 1
  BY RowsAll
<1>3. \A x : x \in Looked(Q, s, v, Len(v) + 1) <=> x \in RowsIn(v) /\ Valued(s, v, x, "vec")
  BY <1>1, <1>2 DEF Looked, LooksAt, Eligible
<1>4. \A x : x \in Asked(Q, s, v) <=>
               x \in RowsIn(v) /\ Valued(s, v, x, "vec") /\ Meets(Q, s, v, x)
  BY DEF Asked
<1>5. \A x : HitOf(Q, s, v, x).row = IdIn(v, x)
  BY DEF HitOf
<1>6. ASSUME h \in Hits(Q, s, v)
      PROVE  h \in Found(Q, s, v, Len(v) + 1) /\ h.row \in Filtered(Q, s, v, Len(v) + 1)
  <2>1. PICK x \in Asked(Q, s, v) : h = HitOf(Q, s, v, x)
    BY <1>6 DEF Hits
  <2>2. x \in RowsIn(v) /\ Meets(Q, s, v, x) /\ x \in Looked(Q, s, v, Len(v) + 1)
    BY <1>3, <1>4
  <2>3. h \in Found(Q, s, v, Len(v) + 1)
    BY <2>1, <2>2 DEF Found
  <2> QED
    BY <1>5, <2>1, <2>2, <2>3, FilteredIff
<1>7. ASSUME h \in Found(Q, s, v, Len(v) + 1), h.row \in Filtered(Q, s, v, Len(v) + 1)
      PROVE  h \in Hits(Q, s, v)
  <2>1. PICK x \in Looked(Q, s, v, Len(v) + 1) : h = HitOf(Q, s, v, x)
    BY <1>7 DEF Found
  <2>2. x \in RowsIn(v) /\ Valued(s, v, x, "vec")
    BY <1>3
  <2>3. Meets(Q, s, v, x)
    BY <1>5, <1>7, <2>1, <2>2, FilteredIff
  <2> QED
    BY <1>4, <2>1, <2>2, <2>3 DEF Hits
<1> QED
  BY <1>6, <1>7

\* The found rows that match, in their order, are the hits.
LEMMA KeptSorted ==
  ASSUME NEW Q, Q.vector, Q.filter # <<>>, Q.plan = "searchFirst",
         NEW s, SchemaOK(s), NEW v, Intact(v), NEW res \in Sorted(Found(Q, s, v, Len(v) + 1)),
         NEW match, match = Filtered(Q, s, v, Len(v) + 1),
         NEW kept \in InOrder({k \in DOMAIN res : res[k].row \in match})
  PROVE  [k \in DOMAIN kept |-> res[kept[k]]] \in Sorted(Hits(Q, s, v))
<1>1. PICK F, H, K, n, m :
        /\ F = Found(Q, s, v, Len(v) + 1) /\ H = Hits(Q, s, v)
        /\ K = {k \in DOMAIN res : res[k].row \in match} /\ n = Len(res) /\ m = Len(kept)
  OBVIOUS
<1>2. IsFiniteSet(F) /\ \A h \in F : h.score \in Int
  BY <1>1, FoundFacts
<1>3. \A h : h \in H <=> h \in F /\ h.row \in match
  BY <1>1, MatchingHits
<1>4. res \in SetToSeqs(F) /\ \A k \in 1..(n - 1) : res[k].score <= res[k + 1].score
  BY <1>1 DEF Sorted
<1>5. /\ res \in Seq(F) /\ DOMAIN res = 1..n /\ n \in Nat
      /\ \A j, k \in 1..n : res[j] = res[k] => j = k
      /\ \A x \in F : \E k \in 1..n : res[k] = x
  BY <1>1, <1>2, <1>4, PermFacts
<1>6. K \in SUBSET (1..n) /\ IsFiniteSet(K)
  <2>1. K \in SUBSET (1..n) /\ IsFiniteSet(1..n)
    BY <1>1, <1>5, FS_Interval
  <2> QED
    BY <2>1, FS_Subset
<1>7. kept \in SetToSeqs(K) /\ \A k \in 1..(m - 1) : kept[k] < kept[k + 1]
  BY <1>1 DEF InOrder
<1>8. /\ kept \in Seq(K) /\ DOMAIN kept = 1..m /\ m \in Nat
      /\ \A j, k \in 1..m : kept[j] = kept[k] => j = k
      /\ \A x \in K : \E k \in 1..m : kept[k] = x
  <2>1. /\ kept \in Seq(K) /\ DOMAIN kept = 1..Len(kept) /\ Len(kept) \in Nat
        /\ \A j, k \in 1..Len(kept) : kept[j] = kept[k] => j = k
        /\ \A x \in K : \E k \in 1..Len(kept) : kept[k] = x
    BY <1>6, <1>7, PermFacts
  <2>2. m = Len(kept)
    BY <1>1
  <2> QED
    BY <2>1, <2>2
<1>9. \A k \in 1..n : res[k] \in F
  BY <1>1, <1>5
<1>10. \A k \in 1..m : kept[k] \in K
  BY <1>1, <1>8
<1>11. \A k \in 1..n : k \in K <=> res[k] \in H
  BY <1>1, <1>3, <1>5, <1>9
<1>12. \A j, l \in 1..n : j <= l => res[j].score <= res[l].score
  <2> DEFINE f == [k \in 1..n |-> res[k].score]
  <2>1. \A k \in 1..n : f[k] \in Int
    BY <1>2, <1>9
  <2>2. \A k \in 1..(n - 1) : f[k] <= f[k + 1]
    BY <1>4, <1>5
  <2>3. \A k \in 1..n : f[k] = res[k].score
    OBVIOUS
  <2> HIDE DEF f
  <2>4. \A j, l \in 1..n : j <= l => f[j] <= f[l]
    BY <1>5, <2>1, <2>2, Ascending
  <2> QED
    BY <2>3, <2>4
<1> DEFINE a == [k \in 1..m |-> res[kept[k]]]
<1>13. \A k \in 1..m : kept[k] \in 1..n /\ res[kept[k]] \in H
  BY <1>6, <1>10, <1>11
<1>14. \A j, k \in 1..m : res[kept[j]] = res[kept[k]] => j = k
  BY <1>5, <1>8, <1>13
<1>15. \A h \in H : \E k \in 1..m : res[kept[k]] = h
  <2> SUFFICES ASSUME NEW h \in H PROVE \E k \in 1..m : res[kept[k]] = h
    OBVIOUS
  <2>1. PICK j \in 1..n : res[j] = h
    BY <1>3, <1>5
  <2>2. j \in K
    BY <1>11, <2>1
  <2> QED
    BY <1>8, <2>1, <2>2
<1>16. a \in Bijection(1..m, H)
  BY <1>13, <1>14, <1>15 DEF Bijection, Injection, Surjection, IsInjective
<1>17. a \in SetToSeqs(H)
  BY <1>8, <1>16, MakePerm
<1>18. Len(a) = m /\ \A k \in 1..m : a[k].score = res[kept[k]].score
  BY <1>8
<1>19. \A k \in 1..(Len(a) - 1) : a[k].score <= a[k + 1].score
  <2> SUFFICES ASSUME NEW k \in 1..(m - 1) PROVE a[k].score <= a[k + 1].score
    BY <1>18
  <2>1. k \in 1..m /\ k + 1 \in 1..m
    BY <1>8
  <2>2. kept[k] \in 1..n /\ kept[k + 1] \in 1..n /\ kept[k] <= kept[k + 1]
    BY <1>7, <1>13, <2>1
  <2>3. res[kept[k]].score <= res[kept[k + 1]].score
    BY <1>12, <2>2
  <2> HIDE DEF a
  <2> QED
    BY <1>18, <2>1, <2>3
<1>20. a = [k \in DOMAIN kept |-> res[kept[k]]]
  BY <1>8
<1> HIDE DEF a
<1> QED
  BY <1>1, <1>17, <1>19, <1>20 DEF Sorted
-----------------------------------------------------------------------------
(* The table *)

\* A fragment that a writer commits.
LEMMA FragmentIntact ==
  ASSUME NEW ids \in SUBSET Int,
         NEW tags \in BoundedSeq(TagValues, MaxRows), NEW vecs \in BoundedSeq(Distances, MaxRows),
         NEW data, data = [id \in ids |-> IF id = 1 THEN vecs ELSE tags]
  PROVE  Fragment(data) \in Fragments /\ Sized(Fragment(data))
<1>a. MaxRows \in Nat
  BY SearchAssumption
<1>b. /\ tags \in Seq(TagValues) /\ Len(tags) <= MaxRows
      /\ vecs \in Seq(Distances) /\ Len(vecs) <= MaxRows
  BY <1>a DEF BoundedSeq, SeqOf
<1>c. tags \in Seq(TagValues \cup Distances) /\ vecs \in Seq(TagValues \cup Distances)
  BY <1>b
<1>1. /\ tags \in Seq(TagValues) /\ Len(tags) \in 0..MaxRows
      /\ vecs \in Seq(Distances) /\ Len(vecs) \in 0..MaxRows
      /\ tags \in BoundedSeq(TagValues \cup Distances, MaxRows)
      /\ vecs \in BoundedSeq(TagValues \cup Distances, MaxRows)
  <2>1. Len(tags) \in Nat /\ Len(vecs) \in Nat
    BY <1>b
  <2> QED
    BY <1>a, <1>b, <1>c, <2>1 DEF BoundedSeq, SeqOf
<1>2. PICK L, a, b, n : L = {Len(data[id]) : id \in DOMAIN data} \cup {0}
                        /\ a = Len(tags) /\ b = Len(vecs) /\ n = Max(L)
  OBVIOUS
<1>3. \A id \in ids : Len(data[id]) \in L /\ Len(data[id]) \in {a, b}
  BY <1>2
<1>4. L \subseteq {a, b, 0} /\ 0 \in L /\ a \in 0..MaxRows /\ b \in 0..MaxRows
  BY <1>1, <1>2, <1>3
<1>5. \E x \in L : \A y \in L : x >= y
  BY <1>4, SearchAssumption
<1>6. n \in L /\ \A y \in L : n >= y
  BY <1>2, <1>5 DEF Max
<1>7. n \in 0..MaxRows
  BY <1>4, <1>6, SearchAssumption
<1>8. Fragment(data) = [n |-> n, data |-> data]
  BY <1>2 DEF Fragment
<1>9. data \in [ids -> BoundedSeq(TagValues \cup Distances, MaxRows)]
  BY <1>1
<1>10. data \in Data
  BY <1>9 DEF Data
<1>11. \A id \in DOMAIN data : Len(data[id]) <= n
  <2> SUFFICES ASSUME NEW id \in ids PROVE Len(data[id]) <= n
    OBVIOUS
  <2>1. Len(data[id]) \in L /\ Len(data[id]) \in Int
    BY <1>3, <1>4
  <2> QED
    BY <1>6, <1>7, <2>1
<1>12. 1 \in DOMAIN data => data[1] \in Seq(Distances)
  BY <1>1
<1>13. PICK f : f = Fragment(data)
  OBVIOUS
<1>14. f = [n |-> n, data |-> data]
  BY <1>8, <1>13
<1>15. f \in Fragments
  BY <1>7, <1>10, <1>14 DEF Fragments
<1>16. Sized(f)
  <2>1. f.n = n /\ f.data = data
    BY <1>14
  <2> QED
    BY <1>11, <1>12, <2>1 DEF Sized
<1> QED
  BY <1>13, <1>15, <1>16

\* The table and what the search has of it are well formed, at every step.
LEMMA TableNext ==
  ASSUME TableInv, [Next]_vars
  PROVE  TableInv'
<1> USE DEF TableInv
<1>1. CASE Insert
  <2>1. PICK ids \in SUBSET Ids \ {{}}, tags \in BoundedSeq(TagValues, MaxRows),
             vecs \in BoundedSeq(Distances, MaxRows) :
          frags' = Append(frags, Fragment([id \in ids |->
                                             IF id = schema["vec"] THEN vecs ELSE tags]))
    BY <1>1 DEF Insert
  <2>2. schema["vec"] = 1 /\ ids \in SUBSET Int
    BY DEF SchemaOK, Ids
  <2>3. PICK f : f = Fragment([id \in ids |-> IF id = schema["vec"] THEN vecs ELSE tags])
    OBVIOUS
  <2>4. f \in Fragments /\ Sized(f)
    BY <2>2, <2>3, FragmentIntact
  <2>5. frags' = Append(frags, f)
    BY <2>1, <2>3
  <2>6. frags \in Seq(Fragments) /\ \A k \in DOMAIN frags : Sized(frags[k])
    BY DEF Intact
  <2>7. /\ frags' \in Seq(Fragments) /\ DOMAIN frags' = 1..(Len(frags) + 1)
        /\ frags'[Len(frags) + 1] = f /\ \A k \in 1..Len(frags) : frags'[k] = frags[k]
    BY <2>4, <2>5, <2>6
  <2>8. \A k \in DOMAIN frags' : Sized(frags'[k])
    <3> SUFFICES ASSUME NEW k \in 1..(Len(frags) + 1) PROVE Sized(frags'[k])
      BY <2>7
    <3>1. k = Len(frags) + 1 \/ k \in 1..Len(frags)
      BY <2>6
    <3> QED
      BY <2>4, <2>6, <2>7, <3>1
  <2>9. UNCHANGED <<q, schema, qschema, view>>
    BY <1>1 DEF Insert, call
  <2> QED
    BY <2>7, <2>8, <2>9 DEF Intact
<1>2. CASE AddColumn
  <2>1. DOMAIN schema = {"vec"} /\ schema["vec"] = 1
    BY <1>2 DEF AddColumn, SchemaOK
  <2>2. Ids = {1}
    BY <2>1 DEF Ids
  <2>3. Max(Ids) = 1
    BY <2>2 DEF Max
  <2>4. SchemaOK(schema')
    BY <1>2, <2>1, <2>3 DEF AddColumn, SchemaOK
  <2> QED
    BY <1>2, <2>4 DEF AddColumn, call
<1>3. CASE DropColumn
  <2>1. SchemaOK(schema')
    BY <1>3 DEF DropColumn, SchemaOK
  <2> QED
    BY <1>3, <2>1 DEF DropColumn, call
<1>4. CASE SearchCall
  BY <1>4 DEF SearchCall, table
<1>5. CASE Load
  BY <1>5 DEF Load, table, call
<1>6. CASE FilterFragment \/ AnswerFilter \/ StartScan \/ AnswerEmpty \/ AnswerSearchFirst
           \/ ScanFragment \/ SortResults \/ ReadFails
  <2>1. UNCHANGED <<table, call, view>>
    BY <1>6 DEF FilterFragment, AnswerFilter, StartScan, AnswerEmpty, AnswerSearchFirst,
                ScanFragment, SortResults, ReadFails, Fail, Finish
  <2> QED
    BY <2>1 DEF table, call
<1>7. CASE UNCHANGED vars
  BY <1>7 DEF vars, table, call
<1> QED
  BY <1>1, <1>2, <1>3, <1>4, <1>5, <1>6, <1>7 DEF Next

-----------------------------------------------------------------------------
(* The search *)

\* What a loop that starts has found.
LEMMA LoopFirst ==
  ASSUME NEW Q, NEW s, NEW v, Intact(v)
  PROVE  Looping(v, 1, 0) /\ Filtered(Q, s, v, 1) = {} /\ Found(Q, s, v, 1) = {}
<1>1. Len(v) \in Nat /\ Before(v, 1) = 0
  BY RowsFinite, BeforeFirst
<1>2. \A y \in RowsIn(v) : ~(y[1] < 1)
  <2> SUFFICES ASSUME NEW y \in RowsIn(v) PROVE ~(y[1] < 1)
    OBVIOUS
  <2>1. y[1] \in 1..Len(v)
    BY RowsFinite
  <2> QED
    BY <2>1
<1>3. Filtered(Q, s, v, 1) = {}
  BY <1>2 DEF Filtered, Meeting
<1>4. Found(Q, s, v, 1) = {}
  BY <1>2 DEF Found, Looked
<1> QED
  BY <1>1, <1>3, <1>4 DEF Looping

\* What the filter has found when it is over.
LEMMA FilterEnds ==
  ASSUME NEW Q, NEW s, NEW v, Intact(v), NEW k, NEW off, Looping(v, k, off),
         k > Len(v) \/ Q.filter[1] = <<>>
  PROVE  Filtered(Q, s, v, k) = Filtered(Q, s, v, Len(v) + 1)
<1>1. CASE k > Len(v)
  <2>1. k = Len(v) + 1
    BY <1>1, RowsFinite DEF Looping
  <2> QED
    BY <2>1
<1>2. CASE Q.filter[1] = <<>>
  <2>1. \A x : ~Meets(Q, s, v, x)
    BY <1>2 DEF Meets
  <2> QED
    BY <2>1 DEF Filtered, Meeting
<1> QED
  BY <1>1, <1>2

\* A loop goes on to the next fragment.
LEMMA LoopNext ==
  ASSUME NEW v, Intact(v), NEW k, NEW off, Looping(v, k, off), k <= Len(v)
  PROVE  k \in 1..Len(v) /\ Looping(v, k + 1, off + v[k].n)
<1>1. k \in 1..Len(v) /\ Len(v) \in Nat
  BY RowsFinite DEF Looping
<1> QED
  BY <1>1, BeforeNext DEF Looping

\* The queries.
LEMMA QueryFacts ==
  ASSUME NEW Q \in Queries
  PROVE  Q.plan \in {"filterFirst", "searchFirst"} /\ Q.limit \in Int
BY SearchAssumption
\* What a scan that is at a fragment with vectors looks at.
LEMMA ScanScans ==
  ASSUME SearchInv, pc = "scan", i <= Len(view), HasColumn(view[i], "vec")
  PROVE  /\ Scans(q, qschema, view, i, Column(view[i], "vec"), LookedAt(view[i]))
         /\ Looping(view, i + 1, rowOffset + view[i].n) /\ rowOffset = Before(view, i)
<1>0. Intact(view)
  BY DEF SearchInv, TableInv
<1>1. /\ q.vector /\ Looping(view, i, rowOffset)
      /\ matching = IF FilterFirst(q) THEN Filtered(q, qschema, view, Len(view) + 1) ELSE {}
  BY DEF SearchInv, Progress
<1>2. PICK c : c = Column(view[i], "vec")
  OBVIOUS
<1>3. Has(qschema, view[i], "vec") /\ c = view[i].data[qschema["vec"]]
  BY <1>2 DEF HasColumn, Components, Has, Column
<1>4. i \in 1..Len(view) /\ Looping(view, i + 1, rowOffset + view[i].n)
      /\ rowOffset = Before(view, i)
  BY <1>0, <1>1, LoopNext DEF Looping
<1>5. Len(c) <= view[i].n /\ view[i].n \in Nat /\ Len(c) \in Nat
  BY <1>0, <1>3, <1>4, ColumnLength
<1>6. ASSUME NEW j \in 1..Len(c)
      PROVE  Wanted(rowOffset + j - 1) <=> Eligible(q, qschema, view, <<i, j>>)
  <2>1. j \in 1..view[i].n
    BY <1>5
  <2>2. <<i, j>> \in RowsIn(view) /\ IdIn(view, <<i, j>>) = rowOffset + j - 1
    BY <1>0, <1>4, <2>1, RowsSplit, IdAt
  <2>3. Wanted(rowOffset + j - 1) <=> (FilterFirst(q) => rowOffset + j - 1 \in matching)
    BY DEF Wanted, FilterFirst
  <2>4. rowOffset + j - 1 \in Filtered(q, qschema, view, Len(view) + 1)
          <=> Meets(q, qschema, view, <<i, j>>)
    BY <1>0, <2>2, FilteredIff
  <2> QED
    BY <1>1, <2>3, <2>4 DEF Eligible
<1>7. \A j : j \in LookedAt(view[i]) <=> j \in 1..Len(c) /\ Eligible(q, qschema, view, <<i, j>>)
  BY <1>2, <1>6 DEF LookedAt
<1> QED
  BY <1>0, <1>1, <1>2, <1>3, <1>4, <1>7 DEF Scans

\* What the search has found stays so, whatever it or the table does next.
LEMMA ProgressNext ==
  ASSUME SearchInv, [Next]_vars
  PROVE  Progress(pc, q, qschema, view, i, rowOffset, matching, candidates, results)'
<1> USE DEF SearchInv
<1>0. /\ q \in Queries /\ SchemaOK(schema) /\ SchemaOK(qschema) /\ Intact(frags) /\ Intact(view)
      /\ q.plan \in {"filterFirst", "searchFirst"} /\ q.limit \in Int
  BY QueryFacts DEF TableInv
<1>1. CASE Insert \/ AddColumn \/ DropColumn \/ UNCHANGED vars
  BY <1>1 DEF Insert, AddColumn, DropColumn, vars, call, scan, Progress
<1>2. CASE SearchCall
  BY <1>2 DEF SearchCall, Progress
<1>3. CASE Load
  <2>1. /\ Looping(frags, 1, 0) /\ Filtered(q, qschema, frags, 1) = {}
        /\ Found(q, qschema, frags, 1) = {}
    BY <1>0, LoopFirst
  <2>2. pc = "load" /\ matching = {} /\ candidates = {} /\ view' = frags
        /\ q' = q /\ qschema' = qschema /\ matching' = matching /\ candidates' = candidates
    BY <1>3 DEF Load, Progress, call
  <2>3. CASE q.filter # <<>> /\ (q.vector => q.plan = "filterFirst") /\ Loop("filter")
    <3>1. ~(q.vector /\ q.plan = "searchFirst")
      BY <2>3
    <3>2. pc' = "filter" /\ i' = 1 /\ rowOffset' = 0
      BY <2>3 DEF Loop
    <3> QED
      BY <2>1, <2>2, <2>3, <3>1, <3>2 DEF Progress
  <2>4. CASE q.vector /\ (q.filter # <<>> => q.plan = "searchFirst") /\ q.fits /\ Loop("scan")
    <3>1. ~FilterFirst(q)
      BY <2>4 DEF FilterFirst
    <3>2. pc' = "scan" /\ i' = 1 /\ rowOffset' = 0
      BY <2>4 DEF Loop
    <3> QED
      BY <2>1, <2>2, <2>4, <3>1, <3>2 DEF Progress
  <2>5. CASE ~q.vector /\ q.filter = <<>> /\ pc' = "done" /\ results' = <<>>
    <3>1. Asked(q, qschema, frags) = {}
      BY <2>5 DEF Asked
    <3>2. Right(q, qschema, frags, <<>>)
      BY <1>0, <3>1, EmptyRight
    <3> QED
      BY <2>2, <2>5, <3>2 DEF Progress
  <2>6. CASE pc' = "error"
    BY <2>6 DEF Progress
  <2> QED
    BY <1>3, <2>3, <2>4, <2>5, <2>6 DEF Load, BeginScan
<1>4. CASE FilterFragment
  <2>1. /\ pc = "filter" /\ i <= Len(view) /\ q.filter[1] # <<>>
        /\ q' = q /\ qschema' = qschema /\ view' = view /\ candidates' = candidates
        /\ results' = results
    BY <1>4 DEF FilterFragment, Fail, Conditions, call
  <2>2. /\ q.filter # <<>> /\ Looping(view, i, rowOffset)
        /\ matching = Filtered(q, qschema, view, i)
    BY <2>1 DEF Progress
  <2>3. CASE Fail
    BY <2>3 DEF Fail, Progress
  <2>4. CASE ~Fail
    <3>1. PICK frag : frag = view[i]
      OBVIOUS
    <3>2. /\ ~ \E cond \in ToSet(q.filter[1]) : ~HasColumn(frag, cond.column)
          /\ matching' = matching \cup
               {rowOffset + row - 1 : row \in
                 {r \in 1..frag.n : \A cond \in ToSet(q.filter[1]) :
                    RowMatches(Column(frag, cond.column), r, cond)}}
          /\ i' = i + 1 /\ rowOffset' = rowOffset + frag.n /\ pc' = pc
      BY <1>4, <2>4, <3>1 DEF FilterFragment, Conditions
    <3>3. \A cond \in ToSet(q.filter[1]) : Has(qschema, view[i], cond.column)
      BY <3>1, <3>2 DEF HasColumn, Components, Has
    <3>4. \A n : Column(frag, n) = view[i].data[qschema[n]]
      BY <3>1 DEF Column, Components
    <3>5. i \in 1..Len(view) /\ Looping(view, i + 1, rowOffset + view[i].n)
          /\ rowOffset = Before(view, i)
      BY <1>0, <2>1, <2>2, LoopNext DEF Looping
    <3>6. Filtered(q, qschema, view, i + 1) = Filtered(q, qschema, view, i) \cup
            {Before(view, i) + row - 1 : row \in
              {r \in 1..view[i].n : \A cond \in ToSet(q.filter[1]) :
                 RowMatches(view[i].data[qschema[cond.column]], r, cond)}}
      BY <1>0, <2>1, <3>3, <3>5, FilterNext
    <3>7. matching' = Filtered(q, qschema, view, i + 1)
      BY <2>2, <3>1, <3>2, <3>4, <3>5, <3>6
    <3>8. Looping(view, i', rowOffset') /\ matching' = Filtered(q, qschema, view, i')
      BY <3>1, <3>2, <3>5, <3>7
    <3> QED
      BY <2>1, <2>2, <3>2, <3>8 DEF Progress
  <2> QED
    BY <2>3, <2>4
<1>5. ASSUME FilterDone
      PROVE  /\ pc = "filter" /\ q.filter # <<>>
             /\ matching = Filtered(q, qschema, view, Len(view) + 1)
             /\ q.vector /\ q.plan = "searchFirst" =>
                  results \in Sorted(Found(q, qschema, view, Len(view) + 1))
             /\ ~(q.vector /\ q.plan = "searchFirst") => candidates = {}
  <2>1. /\ pc = "filter" /\ q.filter # <<>> /\ Looping(view, i, rowOffset)
        /\ matching = Filtered(q, qschema, view, i)
        /\ i > Len(view) \/ q.filter[1] = <<>>
    BY <1>5 DEF FilterDone, Conditions, Progress
  <2>2. matching = Filtered(q, qschema, view, Len(view) + 1)
    BY <1>0, <2>1, FilterEnds
  <2> QED
    BY <2>1, <2>2 DEF Progress
<1>6. ASSUME NEW rows \in Sorted(Hits(q, qschema, view)), Finish(Limit(rows))
      PROVE  Progress(pc, q, qschema, view, i, rowOffset, matching, candidates, results)'
  <2>1. Right(q, qschema, view, Cut(q, rows))
    BY <1>0, AnswerRight
  <2>2. Limit(rows) = Cut(q, rows)
    BY DEF Limit, Cut
  <2>3. pc' = "done" /\ results' = Limit(rows) /\ q' = q /\ qschema' = qschema /\ view' = view
    BY <1>6 DEF Finish, call
  <2> QED
    BY <2>1, <2>2, <2>3 DEF Progress
<1>7. CASE AnswerFilter
  <2>1. FilterDone /\ ~q.vector
    BY <1>7 DEF AnswerFilter
  <2>2. PICK rows \in InOrder(matching) :
          Finish(Limit([k \in DOMAIN rows |-> [row |-> rows[k], score |-> 0]]))
    BY <1>7 DEF AnswerFilter
  <2>3. [k \in DOMAIN rows |-> [row |-> rows[k], score |-> 0]] \in Sorted(Hits(q, qschema, view))
    BY <1>0, <1>5, <2>1, FilterSorted
  <2> QED
    BY <1>6, <2>2, <2>3
<1>8. CASE StartScan /\ pc' # "error"
  <2>1. FilterDone /\ q.vector /\ q.plan = "filterFirst" /\ pc' = "scan" /\ i' = 1 /\ rowOffset' = 0
        /\ UNCHANGED <<q, qschema, view, matching, candidates>>
    BY <1>8 DEF StartScan, BeginScan, Loop, call
  <2>2. Looping(view, 1, 0) /\ Found(q, qschema, view, 1) = {}
    BY <1>0, LoopFirst
  <2>3. FilterFirst(q) /\ candidates = {} /\ matching = Filtered(q, qschema, view, Len(view) + 1)
    BY <1>5, <2>1 DEF FilterFirst
  <2> QED
    BY <2>1, <2>2, <2>3 DEF Progress
<1>9. CASE AnswerEmpty
  <2>1. FilterDone /\ matching = {} /\ pc' = "done" /\ results' = <<>>
        /\ UNCHANGED <<q, qschema, view>>
    BY <1>9 DEF AnswerEmpty, Finish, call
  <2>2. Filtered(q, qschema, view, Len(view) + 1) = {} /\ q.filter # <<>>
    BY <1>5, <2>1
  <2>3. \A x \in RowsIn(view) : ~Meets(q, qschema, view, x)
    BY <1>0, <2>2, FilteredIff
  <2>4. Asked(q, qschema, view) = {}
    BY <2>2, <2>3 DEF Asked
  <2>5. Right(q, qschema, view, <<>>)
    BY <1>0, <2>4, EmptyRight
  <2> QED
    BY <2>1, <2>5 DEF Progress
<1>10. CASE AnswerSearchFirst
  <2>1. FilterDone /\ q.vector /\ q.plan = "searchFirst"
    BY <1>10 DEF AnswerSearchFirst
  <2>2. PICK kept \in InOrder({k \in DOMAIN results : results[k].row \in matching}) :
          Finish(Limit([k \in DOMAIN kept |-> results[kept[k]]]))
    BY <1>10 DEF AnswerSearchFirst
  <2>3. [k \in DOMAIN kept |-> results[kept[k]]] \in Sorted(Hits(q, qschema, view))
    BY <1>0, <1>5, <2>1, KeptSorted
  <2> QED
    BY <1>6, <2>2, <2>3
<1>11. CASE ScanFragment
  <2>1. /\ pc = "scan" /\ i <= Len(view) /\ q' = q /\ qschema' = qschema /\ view' = view
        /\ matching' = matching
    BY <1>11 DEF ScanFragment, Fail, call
  <2>2. /\ q.vector /\ Looping(view, i, rowOffset) /\ candidates = Found(q, qschema, view, i)
        /\ matching = IF FilterFirst(q) THEN Filtered(q, qschema, view, Len(view) + 1) ELSE {}
    BY <2>1 DEF Progress
  <2>3. CASE Fail
    BY <2>3 DEF Fail, Progress
  <2>4. CASE ~Fail
    <3>1. PICK frag, c, N : /\ frag = view[i] /\ c = Column(frag, "vec")
                            /\ N = LookedAt(frag)
      OBVIOUS
    <3>2. /\ HasColumn(frag, "vec") /\ i' = i + 1 /\ rowOffset' = rowOffset + frag.n /\ pc' = pc
          /\ candidates' = candidates \cup {[row |-> rowOffset + r - 1, score |-> c[r]] : r \in N}
      BY <1>11, <2>4, <3>1 DEF ScanFragment, RowsOf
    <3>3. /\ Scans(q, qschema, view, i, c, N)
          /\ Looping(view, i + 1, rowOffset + view[i].n) /\ rowOffset = Before(view, i)
      BY <2>1, <3>1, <3>2, ScanScans
    <3>4. Found(q, qschema, view, i + 1) = Found(q, qschema, view, i) \cup
            {[row |-> Before(view, i) + r - 1, score |-> c[r]] : r \in N}
      BY <3>3, ScanNext
    <3>9. Looping(view, i', rowOffset') /\ candidates' = Found(q, qschema, view, i')
      BY <2>2, <3>1, <3>2, <3>3, <3>4
    <3> QED
      BY <2>1, <2>2, <3>2, <3>9 DEF Progress
  <2> QED
    BY <2>3, <2>4
<1>12. CASE SortResults
  <2>1. /\ pc = "scan" /\ i > Len(view) /\ q.vector /\ Looping(view, i, rowOffset)
        /\ candidates = Found(q, qschema, view, i)
        /\ matching = IF FilterFirst(q) THEN Filtered(q, qschema, view, Len(view) + 1) ELSE {}
    BY <1>12 DEF SortResults, Progress
  <2>2. candidates = Found(q, qschema, view, Len(view) + 1)
    <3>1. i = Len(view) + 1
      BY <1>0, <2>1, RowsFinite DEF Looping
    <3> QED
      BY <2>1, <3>1
  <2>3. PICK rows \in Sorted(candidates) :
          \/ (q.filter # <<>> => q.plan = "filterFirst") /\ Finish(Limit(rows))
          \/ /\ q.filter # <<>> /\ q.plan = "searchFirst"
             /\ Loop("filter") /\ results' = rows
             /\ UNCHANGED <<table, call, view, matching, candidates>>
    BY <1>12 DEF SortResults
  <2>4. CASE (q.filter # <<>> => q.plan = "filterFirst") /\ Finish(Limit(rows))
    <3>1. rows \in Sorted(Hits(q, qschema, view))
      BY <1>0, <2>1, <2>2, <2>4, FoundAll
    <3> QED
      BY <1>6, <2>4, <3>1
  <2>5. CASE /\ q.filter # <<>> /\ q.plan = "searchFirst"
             /\ Loop("filter") /\ results' = rows
             /\ UNCHANGED <<table, call, view, matching, candidates>>
    <3>1. pc' = "filter" /\ i' = 1 /\ rowOffset' = 0 /\ results' = rows
          /\ q' = q /\ qschema' = qschema /\ view' = view /\ matching' = matching
      BY <2>5 DEF Loop, call
    <3>2. matching = {}
      BY <2>1, <2>5 DEF FilterFirst
    <3>3. Looping(view, 1, 0) /\ Filtered(q, qschema, view, 1) = {}
      BY <1>0, LoopFirst
    <3> QED
      BY <2>1, <2>2, <2>5, <3>1, <3>2, <3>3 DEF Progress
  <2> QED
    BY <2>3, <2>4, <2>5
<1>13. CASE pc' = "error"
  BY <1>13 DEF Progress
<1> QED
  BY <1>1, <1>2, <1>3, <1>4, <1>7, <1>8, <1>9, <1>10, <1>11, <1>12, <1>13 DEF Next, ReadFails
\* The invariant holds in every reachable state.
THEOREM SearchSafety == Spec => []SearchInv
<1>1. Init => SearchInv
  <2> SUFFICES ASSUME Init PROVE SearchInv
    OBVIOUS
  <2>1. SchemaOK(schema) /\ SchemaOK(qschema)
    BY DEF Init, SchemaOK
  <2>2. Intact(<<>>)
    BY DEF Intact
  <2>3. Progress(pc, q, qschema, view, i, rowOffset, matching, candidates, results)
    BY DEF Init, Progress
  <2> QED
    BY <2>1, <2>2, <2>3 DEF Init, SearchInv, TableInv
<1>2. SearchInv /\ [Next]_vars => SearchInv'
  <2> SUFFICES ASSUME SearchInv, [Next]_vars PROVE SearchInv'
    OBVIOUS
  <2>1. TableInv'
    BY TableNext DEF SearchInv
  <2>2. Progress(pc, q, qschema, view, i, rowOffset, matching, candidates, results)'
    BY ProgressNext
  <2> QED
    BY <2>1, <2>2 DEF SearchInv
<1> QED
  BY <1>1, <1>2, PTL DEF Spec

\* query/hybrid_search.go:32-170, brute_force.go:38-94, scan_filter.go:22-72.
\* Whatever the values, the query and its limit, and however many fragments
\* the rows are in: the answer of either plan has the rows asked for, each
\* under its row id and once, the nearest first and none nearer left out.
THEOREM SearchFindsNearest == Spec => []NearestMatching
<1>1. ASSUME SearchInv PROVE NearestMatching
  <2>1. pc = "done" => Right(q, qschema, view, results)
    BY <1>1 DEF SearchInv, Progress
  <2>2. Rows = RowsIn(view) /\ \A x : RowID(x) = IdIn(view, x)
    BY DEF Rows, RowsIn, RowID, IdIn, Precedes
  <2>3. \A x, n : HasValue(x, n) <=> Valued(qschema, view, x, n)
    BY DEF HasValue, Valued, HasColumn, Has, Column, Components
  <2>4. \A x : Qualifies(x) <=> /\ q.vector => Valued(qschema, view, x, "vec")
                                /\ q.filter # <<>> => Meets(q, qschema, view, x)
    BY <2>3 DEF Qualifies, Satisfies, Meets, Conditions, Column, Components
  <2>5. Wants = Asked(q, qschema, view)
    BY <2>2, <2>4 DEF Wants, Asked
  <2>6. \A x : Score(x) = ScoreOf(q, qschema, view, x)
    BY DEF Score, ScoreOf, Column, Components
  <2>7. \A x : [row |-> RowID(x), score |-> Score(x)] = HitOf(q, qschema, view, x)
    BY <2>2, <2>6 DEF HitOf
  <2>8. ASSUME pc = "done" PROVE NearestMatching
    BY <2>1, <2>2, <2>5, <2>6, <2>7, <2>8 DEF NearestMatching, Right
  <2> QED
    BY <2>8 DEF NearestMatching
<1> QED
  BY <1>1, SearchSafety, PTL

-----------------------------------------------------------------------------
(* Answers from the whole table *)

\* The fragments before k have the columns of the filter, or those of a scan
\* and a distance for every row it looks at.
Filterable(Q, s, v, k) ==
  \A j \in 1..Len(v) : j < k => \A cond \in ToSet(Q.filter[1]) : Has(s, v[j], cond.column)

Measurable(Q, s, v, k) ==
  /\ Q.fits
  /\ \A j \in 1..Len(v) : j < k => Has(s, v[j], "vec")
  /\ \A y \in Looked(Q, s, v, k) : ScoreOf(Q, s, v, y) \notin Q.undefined

FilterFails(Q, s, v) == Q.filter # <<>> /\ ~Filterable(Q, s, v, Len(v) + 1)

ScanFails(Q, s, v) ==
  /\ Q.vector /\ FilterFirst(Q) => \E x \in RowsIn(v) : Meets(Q, s, v, x)
  /\ Q.vector /\ ~Measurable(Q, s, v, Len(v) + 1)

\* What has not failed when the search is at p.
Whole(p, Q, s, v, k, f) ==
  /\ p # "error" => ~f
  /\ p = "filter" => /\ Filterable(Q, s, v, k)
                     /\ Q.vector /\ Q.plan = "searchFirst" => ~ScanFails(Q, s, v)
  /\ p = "scan" => /\ Measurable(Q, s, v, k)
                   /\ FilterFirst(Q) => /\ ~FilterFails(Q, s, v)
                                        /\ \E x \in RowsIn(v) : Meets(Q, s, v, x)
  /\ p = "done" => ~FilterFails(Q, s, v) /\ ~ScanFails(Q, s, v)
  /\ p = "error" => f \/ FilterFails(Q, s, v) \/ ScanFails(Q, s, v)

WholeInv == SearchInv /\ Whole(pc, q, qschema, view, i, failed)

\* Nothing can have failed before the first fragment but the check of the vector.
LEMMA WholeFirst ==
  ASSUME NEW Q, NEW s, NEW v, Intact(v)
  PROVE  Filterable(Q, s, v, 1) /\ (Q.fits => Measurable(Q, s, v, 1))
<1>1. \A j \in 1..Len(v) : ~(j < 1)
  OBVIOUS
<1>2. Looked(Q, s, v, 1) = {}
  <2>1. \A y \in RowsIn(v) : y[1] \in 1..Len(v)
    BY RowsFinite
  <2> QED
    BY <1>1, <2>1 DEF Looked
<1> QED
  BY <1>1, <1>2 DEF Filterable, Measurable

\* A filter that is over has not failed.
LEMMA FilterWhole ==
  ASSUME NEW Q, NEW s, NEW v, Intact(v), NEW k, NEW off, Looping(v, k, off),
         k > Len(v) \/ Q.filter[1] = <<>>, Filterable(Q, s, v, k)
  PROVE  ~FilterFails(Q, s, v)
<1>1. CASE k > Len(v)
  <2>1. k = Len(v) + 1
    BY <1>1, RowsFinite DEF Looping
  <2> QED
    BY <2>1 DEF FilterFails
<1>2. CASE Q.filter[1] = <<>>
  <2>1. ToSet(Q.filter[1]) = {}
    BY <1>2 DEF ToSet
  <2> QED
    BY <2>1 DEF FilterFails, Filterable
<1> QED
  BY <1>1, <1>2

\* A fragment that lacks a column of the filter makes it fail.
LEMMA FilterLacks ==
  ASSUME NEW Q, Q.filter # <<>>, NEW s, NEW v, Intact(v), NEW k \in 1..Len(v),
         NEW cond \in ToSet(Q.filter[1]), ~Has(s, v[k], cond.column)
  PROVE  FilterFails(Q, s, v)
<1>1. k < Len(v) + 1
  OBVIOUS
<1> QED
  BY <1>1 DEF FilterFails, Filterable

\* A fragment without vectors, or one with a row that has no distance, makes a
\* scan fail that comes to it.
LEMMA ScanLacks ==
  ASSUME NEW Q, Q.vector, NEW s, NEW v, Intact(v), NEW k \in 1..Len(v),
         FilterFirst(Q) => \E x \in RowsIn(v) : Meets(Q, s, v, x),
         \/ ~Has(s, v[k], "vec")
         \/ \E c, N : /\ Scans(Q, s, v, k, c, N)
                      /\ \E r \in N : c[r] \in Q.undefined
  PROVE  ScanFails(Q, s, v)
<1>1. k < Len(v) + 1 /\ Len(v) \in Nat
  BY RowsFinite
<1>2. CASE ~Has(s, v[k], "vec")
  BY <1>1, <1>2 DEF ScanFails, Measurable
<1>3. ASSUME NEW c, NEW N, Scans(Q, s, v, k, c, N), NEW r \in N, c[r] \in Q.undefined
      PROVE  ScanFails(Q, s, v)
  <2>1. <<k, r>> \in Looked(Q, s, v, k + 1) /\ ScoreOf(Q, s, v, <<k, r>>) = c[r]
    BY <1>3, LookedNext
  <2>2. \A y \in RowsIn(v) : y[1] < Len(v) + 1
    BY RowsAll
  <2>3. <<k, r>> \in Looked(Q, s, v, Len(v) + 1)
    BY <2>1, <2>2 DEF Looked
  <2> QED
    BY <1>3, <2>1, <2>3 DEF ScanFails, Measurable
<1> QED
  BY <1>2, <1>3

\* What has not failed so far goes on, whatever the search or the table does.
LEMMA WholeNext ==
  ASSUME WholeInv, [Next]_vars
  PROVE  Whole(pc, q, qschema, view, i, failed)'
<1> USE DEF WholeInv
<1>0. Intact(view) /\ Intact(frags) /\ q.plan \in {"filterFirst", "searchFirst"}
  BY QueryFacts DEF SearchInv, TableInv
<1>1. CASE Insert \/ AddColumn \/ DropColumn \/ UNCHANGED vars
  BY <1>1 DEF Insert, AddColumn, DropColumn, vars, call, scan, Whole
<1>2. CASE SearchCall
  BY <1>2 DEF SearchCall, Whole
<1>3. CASE ReadFails
  BY <1>3 DEF ReadFails, Whole
<1>4. CASE Load
  <2>1. pc = "load" /\ view' = frags /\ q' = q /\ qschema' = qschema /\ failed' = failed /\ ~failed
    BY <1>4 DEF Load, call, Whole
  <2>2. /\ Filterable(q, qschema, frags, 1)
        /\ q.fits => Measurable(q, qschema, frags, 1)
    BY <1>0, WholeFirst
  <2>3. CASE q.filter # <<>> /\ (q.vector => q.plan = "filterFirst") /\ Loop("filter")
    BY <2>1, <2>2, <2>3 DEF Loop, Whole
  <2>4. CASE q.vector /\ (q.filter # <<>> => q.plan = "searchFirst") /\ BeginScan
    <3>1. ~FilterFirst(q)
      BY <2>4 DEF FilterFirst
    <3>2. CASE q.fits
      <4>1. pc' = "scan" /\ i' = 1
        BY <2>4, <3>2 DEF BeginScan, Loop
      <4> QED
        BY <2>1, <2>2, <3>1, <3>2, <4>1 DEF Whole
    <3>3. CASE ~q.fits
      <4>1. pc' = "error"
        BY <2>4, <3>3 DEF BeginScan
      <4>2. ScanFails(q, qschema, frags)
        BY <2>4, <3>1, <3>3 DEF ScanFails, Measurable
      <4> QED
        BY <2>1, <4>1, <4>2 DEF Whole
    <3> QED
      BY <3>2, <3>3
  <2>5. CASE ~q.vector /\ q.filter = <<>> /\ pc' = "done"
    BY <2>1, <2>5 DEF Whole, FilterFails, ScanFails
  <2> QED
    BY <1>4, <2>3, <2>4, <2>5 DEF Load
<1>5. CASE FilterFragment
  <2>1. /\ pc = "filter" /\ i <= Len(view) /\ q' = q /\ qschema' = qschema /\ view' = view
        /\ failed' = failed
    BY <1>5 DEF FilterFragment, Fail, call
  <2>2. q.filter # <<>> /\ Looping(view, i, rowOffset)
    BY <2>1 DEF SearchInv, Progress
  <2>3. /\ Filterable(q, qschema, view, i) /\ ~failed
        /\ q.vector /\ q.plan = "searchFirst" => ~ScanFails(q, qschema, view)
    BY <2>1 DEF Whole
  <2>4. i \in 1..Len(view)
    BY <1>0, <2>1, <2>2, LoopNext
  <2>5. CASE \E cond \in ToSet(Conditions) : ~HasColumn(view[i], cond.column)
    <3>1. PICK cond \in ToSet(q.filter[1]) : ~Has(qschema, view[i], cond.column)
      BY <2>5 DEF HasColumn, Components, Has, Conditions
    <3>2. FilterFails(q, qschema, view)
      BY <1>0, <2>2, <2>4, <3>1, FilterLacks
    <3>3. pc' = "error"
      BY <1>5, <2>5 DEF FilterFragment, Fail
    <3> QED
      BY <2>1, <3>2, <3>3 DEF Whole
  <2>6. CASE ~ \E cond \in ToSet(Conditions) : ~HasColumn(view[i], cond.column)
    <3>1. i' = i + 1 /\ pc' = "filter"
      BY <1>5, <2>1, <2>6 DEF FilterFragment
    <3>2. \A cond \in ToSet(q.filter[1]) : Has(qschema, view[i], cond.column)
      BY <2>6 DEF HasColumn, Components, Has, Conditions
    <3>3. \A j \in 1..Len(view) : j < i + 1 => j < i \/ j = i
      BY <2>4
    <3>4. Filterable(q, qschema, view, i + 1)
      BY <2>3, <3>2, <3>3 DEF Filterable
    <3> QED
      BY <2>1, <2>3, <3>1, <3>4 DEF Whole
  <2> QED
    BY <2>5, <2>6
<1>6. ASSUME FilterDone
      PROVE  /\ pc = "filter" /\ ~failed /\ ~FilterFails(q, qschema, view)
             /\ q.vector /\ q.plan = "searchFirst" => ~ScanFails(q, qschema, view)
             /\ q.filter # <<>> /\ matching = Filtered(q, qschema, view, Len(view) + 1)
  <2>1. /\ pc = "filter" /\ q.filter # <<>> /\ Looping(view, i, rowOffset)
        /\ matching = Filtered(q, qschema, view, i)
        /\ i > Len(view) \/ q.filter[1] = <<>>
    BY <1>6 DEF FilterDone, Conditions, SearchInv, Progress
  <2>2. /\ Filterable(q, qschema, view, i) /\ ~failed
        /\ q.vector /\ q.plan = "searchFirst" => ~ScanFails(q, qschema, view)
    BY <2>1 DEF Whole
  <2>3. ~FilterFails(q, qschema, view)
    BY <1>0, <2>1, <2>2, FilterWhole
  <2>4. matching = Filtered(q, qschema, view, Len(view) + 1)
    BY <1>0, <2>1, FilterEnds
  <2> QED
    BY <2>1, <2>2, <2>3, <2>4
<1>7. CASE AnswerFilter \/ AnswerSearchFirst
  <2>1. /\ FilterDone /\ pc' = "done" /\ q' = q /\ qschema' = qschema /\ view' = view
        /\ failed' = failed /\ (q.vector => q.plan = "searchFirst")
    BY <1>7 DEF AnswerFilter, AnswerSearchFirst, Finish, call
  <2>2. ~ScanFails(q, qschema, view)
    BY <1>6, <2>1 DEF ScanFails
  <2> QED
    BY <1>6, <2>1, <2>2 DEF Whole
<1>8. CASE AnswerEmpty
  <2>1. /\ FilterDone /\ pc' = "done" /\ q' = q /\ qschema' = qschema /\ view' = view
        /\ failed' = failed /\ q.plan = "filterFirst" /\ matching = {}
    BY <1>8 DEF AnswerEmpty, Finish, call
  <2>2. Filtered(q, qschema, view, Len(view) + 1) = {} /\ FilterFirst(q)
    BY <1>6, <2>1 DEF FilterFirst
  <2>3. \A x \in RowsIn(view) : ~Meets(q, qschema, view, x)
    BY <1>0, <2>2, FilteredIff
  <2>4. ~ScanFails(q, qschema, view)
    BY <2>2, <2>3 DEF ScanFails
  <2> QED
    BY <1>6, <2>1, <2>4 DEF Whole
<1>9. CASE StartScan
  <2>1. /\ FilterDone /\ BeginScan /\ q' = q /\ qschema' = qschema /\ view' = view
        /\ failed' = failed /\ q.vector /\ q.plan = "filterFirst" /\ matching # {}
    BY <1>9 DEF StartScan, call
  <2>2. PICK x \in Meeting(q, qschema, view, Len(view) + 1) : TRUE
    BY <1>6, <2>1 DEF Filtered
  <2>3. \E y \in RowsIn(view) : Meets(q, qschema, view, y)
    BY <2>2 DEF Meeting
  <2>4. CASE q.fits
    <3>1. pc' = "scan" /\ i' = 1 /\ Measurable(q, qschema, view, 1)
      BY <1>0, <2>1, <2>4, WholeFirst DEF BeginScan, Loop
    <3> QED
      BY <1>6, <2>1, <2>3, <3>1 DEF Whole
  <2>5. CASE ~q.fits
    <3>1. pc' = "error"
      BY <2>1, <2>5 DEF BeginScan
    <3>2. ScanFails(q, qschema, view)
      BY <2>1, <2>3, <2>5 DEF ScanFails, Measurable
    <3> QED
      BY <2>1, <3>1, <3>2 DEF Whole
  <2> QED
    BY <2>4, <2>5
<1>10. CASE ScanFragment
  <2>1. /\ pc = "scan" /\ i <= Len(view) /\ q' = q /\ qschema' = qschema /\ view' = view
        /\ failed' = failed
    BY <1>10 DEF ScanFragment, Fail, call
  <2>2. q.vector /\ Looping(view, i, rowOffset)
    BY <2>1 DEF SearchInv, Progress
  <2>3. /\ Measurable(q, qschema, view, i) /\ ~failed
        /\ FilterFirst(q) => /\ ~FilterFails(q, qschema, view)
                             /\ \E x \in RowsIn(view) : Meets(q, qschema, view, x)
    BY <2>1 DEF Whole
  <2>4. i \in 1..Len(view)
    BY <1>0, <2>1, <2>2, LoopNext
  <2>5. PICK c, N : c = Column(view[i], "vec") /\ N = LookedAt(view[i])
    OBVIOUS
  <2>6. HasColumn(view[i], "vec") => Scans(q, qschema, view, i, c, N)
    BY <2>1, <2>5, ScanScans
  <2>7. HasColumn(view[i], "vec") <=> Has(qschema, view[i], "vec")
    BY DEF HasColumn, Components, Has
  <2>8. CASE ~HasColumn(view[i], "vec") \/ \E r \in N : c[r] \in q.undefined
    <3>1. ScanFails(q, qschema, view)
      <4>1. CASE ~HasColumn(view[i], "vec")
        BY <1>0, <2>2, <2>3, <2>4, <2>7, <4>1, ScanLacks
      <4>2. CASE HasColumn(view[i], "vec") /\ \E r \in N : c[r] \in q.undefined
        BY <1>0, <2>2, <2>3, <2>4, <2>6, <4>2, ScanLacks
      <4> QED
        BY <2>8, <4>1, <4>2
    <3>2. pc' = "error"
      BY <1>10, <2>5, <2>8 DEF ScanFragment, Fail
    <3> QED
      BY <2>1, <3>1, <3>2 DEF Whole
  <2>9. CASE HasColumn(view[i], "vec") /\ ~ \E r \in N : c[r] \in q.undefined
    <3>1. i' = i + 1 /\ pc' = "scan"
      BY <1>10, <2>1, <2>5, <2>9 DEF ScanFragment
    <3>2. /\ Looked(q, qschema, view, i + 1) = Looked(q, qschema, view, i) \cup {<<i, r>> : r \in N}
          /\ \A r \in N : ScoreOf(q, qschema, view, <<i, r>>) = c[r]
      BY <2>6, <2>9, LookedNext
    <3>3. \A y \in Looked(q, qschema, view, i + 1) :
             ScoreOf(q, qschema, view, y) \notin q.undefined
      BY <2>3, <2>9, <3>2 DEF Measurable
    <3>4. \A j \in 1..Len(view) : j < i + 1 => j < i \/ j = i
      BY <2>4
    <3>5. Measurable(q, qschema, view, i + 1)
      BY <2>3, <2>7, <2>9, <3>3, <3>4 DEF Measurable
    <3> QED
      BY <2>1, <2>3, <3>1, <3>5 DEF Whole
  <2> QED
    BY <2>8, <2>9
<1>11. CASE SortResults
  <2>1. /\ pc = "scan" /\ i > Len(view) /\ q.vector /\ Looping(view, i, rowOffset)
        /\ q' = q /\ qschema' = qschema /\ view' = view /\ failed' = failed
    BY <1>11 DEF SortResults, SearchInv, Progress, Finish, call
  <2>2. /\ Measurable(q, qschema, view, i) /\ ~failed
        /\ FilterFirst(q) => ~FilterFails(q, qschema, view)
    BY <2>1 DEF Whole
  <2>3. i = Len(view) + 1
    BY <1>0, <2>1, RowsFinite DEF Looping
  <2>4. ~ScanFails(q, qschema, view)
    BY <2>2, <2>3 DEF ScanFails
  <2>5. CASE (q.filter # <<>> => q.plan = "filterFirst") /\ pc' = "done"
    <3>1. ~FilterFails(q, qschema, view)
      BY <2>2, <2>5 DEF FilterFails, FilterFirst
    <3> QED
      BY <2>1, <2>2, <2>4, <2>5, <3>1 DEF Whole
  <2>6. CASE q.filter # <<>> /\ q.plan = "searchFirst" /\ Loop("filter")
    <3>1. pc' = "filter" /\ i' = 1 /\ Filterable(q, qschema, view, 1)
      BY <1>0, <2>6, WholeFirst DEF Loop
    <3> QED
      BY <2>1, <2>2, <2>4, <3>1 DEF Whole
  <2> QED
    BY <1>11, <2>5, <2>6 DEF SortResults, Finish
<1> QED
  BY <1>1, <1>2, <1>3, <1>4, <1>5, <1>7, <1>8, <1>9, <1>10, <1>11 DEF Next

\* api/table.go:221-272, "Search should return a storage error when reading
\* corrupted data" (api/api_e2e_test.go:501).  A search answers only if every
\* read succeeded and every column and distance it needed was there, and fails
\* only if not, whatever AddColumn, DropColumn and the writers do beside it.
THEOREM SearchAnswersWholeOrFails == Spec => []WholeOrError
<1>1. Init => Whole(pc, q, qschema, view, i, failed)
  BY DEF Init, Whole
<1>2. SearchInv /\ Whole(pc, q, qschema, view, i, failed) /\ [Next]_vars
        => Whole(pc, q, qschema, view, i, failed)'
  BY WholeNext DEF WholeInv
<1>3. ASSUME WholeInv PROVE WholeOrError
  <2>0. Len(view) \in Nat /\ DOMAIN view = 1..Len(view)
    BY <1>3, RowsFinite DEF WholeInv, SearchInv, TableInv, Intact
  <2>1. Rows = RowsIn(view) /\ \A x \in RowsIn(view) : x[1] < Len(view) + 1
    BY <1>3, RowsAll DEF Rows, RowsIn, WholeInv, SearchInv, TableInv
  <2>2. \A x, n : HasValue(x, n) <=> Valued(qschema, view, x, n)
    BY DEF HasValue, Valued, HasColumn, Has, Column, Components
  <2>3. \A x : Satisfies(x) <=> Meets(q, qschema, view, x)
    BY <2>2 DEF Satisfies, Meets, Conditions, Column, Components
  <2>4. \A x : Score(x) = ScoreOf(q, qschema, view, x)
    BY DEF Score, ScoreOf, Column, Components
  <2>5. \A k, n : Lacks(k, n) <=> ~Has(qschema, view[k], n)
    BY DEF Lacks, Has
  <2>6. \A j \in 1..Len(view) : j < Len(view) + 1
    BY <2>0
  <2>7. Unfilterable <=> FilterFails(q, qschema, view)
    BY <2>0, <2>5, <2>6 DEF Unfilterable, FilterFails, Filterable, Conditions
  <2>8. Measured = Looked(q, qschema, view, Len(view) + 1)
    <3>1. \A x : (q.filter # <<>> /\ q.plan = "filterFirst" => Satisfies(x))
                  <=> Eligible(q, qschema, view, x)
      BY <2>3 DEF Eligible, FilterFirst
    <3> QED
      BY <2>1, <2>2, <3>1 DEF Measured, Looked, LooksAt
  <2>9. (\E k \in DOMAIN view : Lacks(k, "vec")) <=>
          ~ \A j \in 1..Len(view) : j < Len(view) + 1 => Has(qschema, view[j], "vec")
    BY <2>0, <2>5, <2>6
  <2>10. (\E x \in Measured : Score(x) \in q.undefined) <=>
           ~ \A y \in Looked(q, qschema, view, Len(view) + 1) :
               ScoreOf(q, qschema, view, y) \notin q.undefined
    BY <2>4, <2>8
  <2>11. Unmeasurable <=> ScanFails(q, qschema, view)
    BY <2>1, <2>3, <2>9, <2>10 DEF Unmeasurable, ScanFails, Measurable, FilterFirst
  <2> QED
    BY <1>3, <2>7, <2>11 DEF WholeInv, Whole, WholeOrError
<1>4. SearchInv /\ Whole(pc, q, qschema, view, i, failed) => WholeOrError
  BY <1>3 DEF WholeInv
<1> QED
  BY <1>1, <1>2, <1>4, SearchSafety, PTL DEF Spec
=============================================================================
