----------------------------- MODULE VectorIndex -----------------------------
(***************************************************************************)
(* The package index: an index over vectors that is built, rebuilt, saved, *)
(* loaded and searched.  FlatIndex looks at every vector.  IVFFlatIndex    *)
(* runs k-means, a round at a time: the centroids move to the means of the *)
(* vectors nearest to them, and a centroid that has none to a vector       *)
(* chosen at random.  Its Search ranks the centroids by their distance     *)
(* from the query and looks at the partitions of the first nProbes.        *)
(*                                                                         *)
(* A vector is one coordinate, a whole number.  Every metric is then       *)
(* exact, and so are the means when the coordinates are multiples of the   *)
(* numbers up to that of the vectors; rounding is left out.                *)
(***************************************************************************)
EXTENDS Integers, SequencesExt, FiniteSetsExt

CONSTANTS
  Kinds,         \* "ivf" and "flat"
  Inputs,        \* what Build is called with: sequences of [row, vector]
  QueryVectors, Limits,  \* what Search is called with
  Metrics,
  Requested,     \* the numbers of partitions asked for
  Probes,        \* the values NProbes is set to
  MaxIters,      \* bound: rounds of k-means (25 in the code)
  MaxProbes      \* nProbes when NProbes is not set (10 in the code)

ASSUME VectorIndexAssumption ==
  /\ Kinds \subseteq {"ivf", "flat"} /\ Metrics \subseteq {"cosine", "euclidean", "dot"}
  /\ Requested \subseteq Nat \ {0} /\ Probes \subseteq Int
  /\ MaxIters \in Nat \ {0} /\ MaxProbes \in Nat \ {0}
  /\ QueryVectors \subseteq Int /\ Limits \subseteq Int
  /\ \A vs \in Inputs : /\ vs \in Seq([row : Int, vector : Int]) /\ vs # <<>>
                        /\ \A a, b \in DOMAIN vs : vs[a].row = vs[b].row => a = b

VARIABLES
  kind,
  index,         \* the fields of the index
  pc,            \* "idle", or where Build is
  input, cents, iter,    \* Build: the vectors, the centroids, the rounds done
  file,          \* the saved index, or Torn; Torn also when there is none
  call, answer   \* the last search, and what it returned

build  == <<input, cents, iter>>
search == <<call, answer>>
vars   == <<kind, index, pc, build, file, search>>

NewIndex(k, m) ==
  [vectors |-> <<>>, centroids |-> <<>>, partitions |-> <<>>, numPartitions |-> k,
   metric |-> m, nprobes |-> 0]

\* A FlatIndex has no partitions.
NewIndexes == {NewIndex(k, m) : k \in (IF kind = "flat" THEN {0} ELSE Requested), m \in Metrics}

Torn    == NewIndex(0, "none")
NoCall  == [query |-> 0, k |-> 0, metric |-> "none"]
Error   == [ok |-> FALSE, hits |-> <<>>]
Hits(s) == [ok |-> TRUE, hits |-> s]

NoSearch == call' = NoCall /\ answer' = Error

-----------------------------------------------------------------------------
(* Distances *)

Sign(x) == IF x > 0 THEN 1 ELSE IF x < 0 THEN -1 ELSE 0

\* A zero vector has no cosine distance.
Undefined(a, b, m) == m = "cosine" /\ (a = 0 \/ b = 0)

Distance(a, b, m) ==
  CASE m = "euclidean" -> IF a < b THEN b - a ELSE a - b
    [] m = "dot"       -> -(a * b)
    [] m = "cosine"    -> 1 - Sign(a) * Sign(b)

\* sort.Slice, which keeps no order among equals: the orders it may leave.
Orders(scores) ==
  {p \in SetToSeqs(DOMAIN scores) : \A i \in 1..(Len(p) - 1) : scores[p[i]] <= scores[p[i + 1]]}

\* The first k of a sequence of hits.
First(hits, k) == [i \in 1..Min({k, Len(hits)}) |-> hits[i]]

\* Mutant: cut to k before they are sorted.
TopK_CutFirst(hits, k) ==
  LET some == CHOOSE S \in SUBSET DOMAIN hits : Cardinality(S) = Min({k, Cardinality(DOMAIN hits)}) IN
  {[i \in DOMAIN p |-> hits[p[i]]] : p \in Orders([x \in some |-> hits[x].score])}

\* TopK: the k hits of least score, of those that were collected.
TopK(hits, k) ==
  {First([i \in DOMAIN p |-> hits[p[i]]], k) : p \in Orders([x \in DOMAIN hits |-> hits[x].score])}

-----------------------------------------------------------------------------
(* Build *)

\* assignVectors: the first of the nearest centroids.
Nearest(x, cs, m) ==
  Min({c \in DOMAIN cs : \A d \in DOMAIN cs : Distance(x, cs[c], m) <= Distance(x, cs[d], m)})

Assign(vs, cs) == [v \in DOMAIN vs |-> Nearest(vs[v].vector, cs, index.metric)]

Unassignable(vs, cs) ==
  \E v \in DOMAIN vs, c \in DOMAIN cs : Undefined(vs[v].vector, cs[c], index.metric)

BuildFlat ==
  /\ pc = "idle" /\ kind = "flat"
  /\ \E vs \in Inputs : index' = [index EXCEPT !.vectors = vs]
  /\ NoSearch /\ UNCHANGED <<kind, pc, build, file>>

\* The first centroids are vectors, spread evenly.
BuildCall ==
  /\ pc = "idle" /\ kind = "ivf"
  /\ \E vs \in Inputs :
       LET n == Len(vs)
           k == Min({index.numPartitions, n}) IN
       /\ input' = vs
       /\ cents' = [c \in 1..k |-> vs[((c - 1) * n) \div k + 1].vector]
  /\ iter' = 0 /\ pc' = "round"
  /\ NoSearch /\ UNCHANGED <<kind, index, file>>

\* The vectors of a centroid.
Members(c) == {v \in DOMAIN input : Assign(input, cents)[v] = c}

Mean(S) == MapThenSumSet(LAMBDA v : input[v].vector, S) \div Cardinality(S)

\* One round; it is the last one when no centroid that has vectors moved, even
\* if another one did.
Round ==
  /\ pc = "round" /\ ~Unassignable(input, cents)
  /\ LET Empty == {c \in DOMAIN cents : Members(c) = {}} IN
     /\ \E random \in [Empty -> DOMAIN input] :
          cents' = [c \in DOMAIN cents |->
                      IF c \in Empty THEN input[random[c]].vector ELSE Mean(Members(c))]
     /\ pc' = (IF iter + 1 = MaxIters \/ \A c \in DOMAIN cents \ Empty : cents'[c] = cents[c]
               THEN "assign" ELSE "round")
  /\ iter' = iter + 1
  /\ UNCHANGED <<kind, index, input, file, search>>

\* The numbers in S, the least first.
InOrder(S) == {s \in SetToSeqs(S) : \A i \in 1..(Len(s) - 1) : s[i] < s[i + 1]}

\* What Build leaves: every vector in the partition of its centroid.
Placed ==
  [index EXCEPT !.vectors = input,
                !.centroids = cents,
                !.partitions = [c \in DOMAIN cents |->
                                  CHOOSE s \in InOrder(Members(c)) : TRUE],
                !.numPartitions = Len(cents)]

EndBuild == pc' = "idle" /\ input' = <<>> /\ cents' = <<>> /\ iter' = 0

BuildDone ==
  /\ pc = "assign" /\ ~Unassignable(input, cents)
  /\ index' = Placed /\ EndBuild
  /\ UNCHANGED <<kind, file, search>>

\* Mutant: the centroids are handed over before the assignment that may fail.
BuildFails_HalfBuilt ==
  /\ pc \in {"round", "assign"} /\ Unassignable(input, cents)
  /\ index' = [index EXCEPT !.centroids = cents] /\ EndBuild
  /\ UNCHANGED <<kind, file, search>>

\* A centroid, or a vector, has no cosine distance: the index stays as it was.
BuildFails ==
  /\ pc \in {"round", "assign"} /\ Unassignable(input, cents)
  /\ EndBuild
  /\ UNCHANGED <<kind, index, file, search>>

-----------------------------------------------------------------------------
(* Search *)

\* How many partitions are looked at.
NumProbes ==
  Min({index.numPartitions,
       IF index.nprobes <= 0 THEN MaxProbes ELSE index.nprobes})

\* Mutant: the first partitions, instead of those of the first of the ranking.
Ranked_Unused(q, m) == {[c \in 1..index.numPartitions |-> c]}

\* The centroids from the nearest to the farthest.
Ranked(q, m) ==
  Orders([c \in 1..index.numPartitions |-> Distance(q, index.centroids[c], m)])

Hit(v) ==
  [row |-> index.vectors[v].row,
   score |-> Distance(call'.query, index.vectors[v].vector, call'.metric)]

\* The places looked at, each a partition and an element of it, with the vector
\* found there.
Scanned(rank) ==
  LET probed == {rank[p] : p \in 1..NumProbes} IN
  [x \in UNION {{<<c, i>> : i \in DOMAIN index.partitions[c]} : c \in probed} |->
     index.partitions[x[1]][x[2]]]

\* FlatIndex looks at all vectors.
AllVectors == [v \in DOMAIN index.vectors |-> v]

\* A search that gets as far as the vectors, those at the places of vs.
Scan(vs, q, k, m) ==
  IF \E x \in DOMAIN vs : Undefined(q, index.vectors[vs[x]].vector, m) THEN answer' = Error
  ELSE \E s \in TopK([x \in DOMAIN vs |-> Hit(vs[x])], k) : answer' = Hits(s)

Search(q, k, m) ==
  /\ pc = "idle" /\ call = NoCall
  /\ call' = [query |-> q, k |-> k, metric |-> m]
  /\ \/ index.vectors = <<>> /\ answer' = Error
     \/ index.vectors # <<>> /\ k <= 0 /\ answer' = Hits(<<>>)
     \/ /\ index.vectors # <<>> /\ k > 0 /\ kind = "flat"
        /\ Scan(AllVectors, q, k, m)
     \/ /\ index.vectors # <<>> /\ k > 0 /\ kind = "ivf"
        /\ \/ /\ \E c \in DOMAIN index.centroids : Undefined(q, index.centroids[c], m)
              /\ answer' = Error
           \/ /\ \A c \in DOMAIN index.centroids : ~Undefined(q, index.centroids[c], m)
              /\ \E rank \in Ranked(q, m) : Scan(Scanned(rank), q, k, m)
  /\ UNCHANGED <<kind, index, pc, build, file>>

SetNProbes ==
  /\ pc = "idle" /\ kind = "ivf"
  /\ \E n \in Probes : index' = [index EXCEPT !.nprobes = n]
  /\ NoSearch /\ UNCHANGED <<kind, pc, build, file>>

-----------------------------------------------------------------------------
(* Save and Load *)

\* Save writes the file in place; a failure leaves a part of it, which no
\* Load can parse.
Save ==
  /\ pc = "idle" /\ file' \in {index, Torn}
  /\ NoSearch /\ UNCHANGED <<kind, index, pc, build>>

Load ==
  /\ pc = "idle" /\ file # Torn
  /\ index' = file
  /\ NoSearch /\ UNCHANGED <<kind, pc, build, file>>

\* Another process: a new index, the same file.
Restart ==
  /\ index' \in NewIndexes
  /\ EndBuild /\ NoSearch /\ UNCHANGED <<kind, file>>

Init ==
  /\ kind \in Kinds
  /\ index \in NewIndexes
  /\ pc = "idle" /\ input = <<>> /\ cents = <<>> /\ iter = 0
  /\ file = Torn /\ call = NoCall /\ answer = Error

Next ==
  \/ BuildFlat \/ BuildCall \/ Round \/ BuildDone \/ BuildFails
  \/ \E q \in QueryVectors, k \in Limits, m \in Metrics : Search(q, k, m)
  \/ SetNProbes \/ Save \/ Load \/ Restart

Spec == Init /\ [][Next]_vars

-----------------------------------------------------------------------------
(* Properties *)

\* ivf_flat.go:77-178, 275-299.  Whatever Build, Load and their failures did,
\* an index is of one piece: as many partitions as centroids, and every vector
\* in one of them, that of the centroid nearest to it.
IndexCoherent ==
  kind = "ivf" /\ index.vectors # <<>> =>
    /\ Len(index.centroids) = index.numPartitions
    /\ Len(index.partitions) = index.numPartitions
    /\ \A v \in DOMAIN index.vectors : \A p \in DOMAIN index.partitions :
         Cardinality({i \in DOMAIN index.partitions[p] : index.partitions[p][i] = v}) =
           (IF p = Nearest(index.vectors[v].vector, index.centroids, index.metric)
            THEN 1 ELSE 0)

Answered == call # NoCall /\ call.k > 0 /\ answer.ok

Returned == {answer.hits[i].row : i \in DOMAIN answer.hits}

Score(v) == Distance(call.query, index.vectors[v].vector, call.metric)

\* ivf_flat.go:181-236, flat.go:66-90; ivf_flat_test.go:98-122.  A search that
\* probes every partition finds the nearest vectors, as a search of all
\* vectors does, whatever the metric the partitions were made with.
ExactWhenAllProbed ==
  Answered /\ (kind = "flat" \/ NumProbes = index.numPartitions) =>
    LET n == Len(index.vectors) IN
    /\ Len(answer.hits) = Min({call.k, n}) /\ Cardinality(Returned) = Len(answer.hits)
    /\ \A i \in DOMAIN answer.hits : \E v \in 1..n :
         answer.hits[i] = [row |-> index.vectors[v].row, score |-> Score(v)]
    /\ \A i \in 1..(Len(answer.hits) - 1) : answer.hits[i].score <= answer.hits[i + 1].score
    /\ \A v \in 1..n : index.vectors[v].row \notin Returned =>
         \A i \in DOMAIN answer.hits : answer.hits[i].score <= Score(v)

\* ivf_flat.go:58-75, 160-168, 201-229; ivf_flat_test.go:58-96.  One probe is
\* enough to find a stored vector again: the partition that is searched first
\* is the one Build put it in, if one centroid is the nearest.
FindsSelf ==
  Answered /\ kind = "ivf" /\ call.metric = index.metric =>
    \A v \in DOMAIN index.vectors :
      /\ index.vectors[v].vector = call.query
      /\ \A c, d \in DOMAIN index.centroids :
           c # d => Distance(call.query, index.centroids[c], call.metric) #
                    Distance(call.query, index.centroids[d], call.metric)
      => answer.hits # <<>> /\ answer.hits[1].score <= Score(v)
=============================================================================
