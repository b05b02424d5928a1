------------------------------- MODULE Search -------------------------------
(***************************************************************************)
(* api.Table.Search and the package query: vector search, scalar filter,   *)
(* and the two plans that combine them, over the fragments of a table that *)
(* goes on being written to and evolved.                                   *)
(*                                                                         *)
(* Search takes the search components, that is a schema, under t.mu,       *)
(* releases it, loads the newest manifest and works on that.  The scans    *)
(* are loops over its fragments that count rows to give each its row id.   *)
(*                                                                         *)
(* A fragment is its row count and, per column id, the values its file     *)
(* has: there may be fewer than rows, as a batch may come with columns of  *)
(* different lengths, or none, as the column may be younger.  A value of   *)
(* the vector column is the distance of the vector from the query's; from  *)
(* the vectors in q.undefined it has none: the metric is the cosine's and  *)
(* one of the two is all zeros.  q.fits says that the query names a vector *)
(* column and that its vector is of the column's dimension.  A filter is   *)
(* on scalar columns; one on a column of a type that evaluateColumn        *)
(* refuses is, like one on no column at all, on a name that no schema has. *)
(* The table is open: a closed one refuses the call at once (Database).    *)
(***************************************************************************)
EXTENDS Integers, FiniteSets, SequencesExt, FiniteSetsExt

CONSTANTS
  TagValues,     \* the values of the scalar column
  Distances,     \* the distances vectors may have from the query's vector
  Queries,       \* the queries clients send
  MaxRows,       \* bound: rows of a fragment
  MaxTotal,      \* bound: rows of the table
  MaxFragments   \* bound: fragments of the table

ASSUME SearchAssumption ==
  /\ Distances \subseteq Nat /\ MaxRows \in Nat /\ MaxTotal \in Nat /\ MaxFragments \in Nat
  /\ \A q \in Queries : /\ q.plan \in {"filterFirst", "searchFirst"} /\ q.limit \in Int
                       /\ q.undefined \subseteq Distances

VARIABLES
  schema,        \* the table's schema: column name -> id
  frags,         \* the fragments of the newest manifest
  pc,            \* where the search is; searches keep no state, so one is enough
  q, qschema,    \* its query, and the schema of the components it took
  view,          \* the fragments of the manifest it loaded
  i, rowOffset,  \* the fragment the scan is at, and the id of its first row
  matching,      \* the row ids the filter has found
  candidates,    \* the rows the vector scan has found
  results,
  failed         \* history: a read of the search failed, or its context was cancelled

table == <<schema, frags>>
call  == <<q, qschema>>
scan  == <<i, rowOffset>>
vars  == <<table, pc, call, view, scan, matching, candidates, results, failed>>

-----------------------------------------------------------------------------
(* The table *)

Init ==
  /\ schema = [n \in {"tag", "vec"} |-> IF n = "tag" THEN 0 ELSE 1]
  /\ frags = <<>>
  /\ pc = "idle" /\ q \in Queries /\ qschema = schema /\ view = <<>>
  /\ i = 1 /\ rowOffset = 0 /\ matching = {} /\ candidates = {} /\ results = <<>>
  /\ failed = FALSE

Ids == {schema[n] : n \in DOMAIN schema}

\* FragmentWriter: the row count is that of the longest column.
Fragment(data) ==
  [n |-> Max({Len(data[id]) : id \in DOMAIN data} \cup {0}), data |-> data]

\* Some writer commits a fragment with some of the columns.
Insert ==
  /\ Len(frags) < MaxFragments
  /\ \E ids \in SUBSET Ids \ {{}} :
       \E tags \in BoundedSeq(TagValues, MaxRows), vecs \in BoundedSeq(Distances, MaxRows) :
         frags' = Append(frags, Fragment([id \in ids |->
                                            IF id = schema["vec"] THEN vecs ELSE tags]))
  /\ MapThenSumSet(LAMBDA k : frags'[k].n, DOMAIN frags') <= MaxTotal
  /\ UNCHANGED <<schema, pc, call, view, scan, matching, candidates, results, failed>>

AddColumn ==
  /\ "tag" \notin DOMAIN schema
  /\ schema' = [n \in {"tag", "vec"} |-> IF n = "vec" THEN schema[n] ELSE Max(Ids) + 1]
  /\ UNCHANGED <<frags, pc, call, view, scan, matching, candidates, results, failed>>

DropColumn ==
  /\ "tag" \in DOMAIN schema
  /\ schema' = [n \in {"vec"} |-> schema[n]]
  /\ UNCHANGED <<frags, pc, call, view, scan, matching, candidates, results, failed>>

-----------------------------------------------------------------------------
(* Conditions *)

\* Numbers of all types compare as float64, strings only for equality.
Comparable(a, b) == a.kind = "num" /\ b.kind = "num"

Matches(value, cond) ==
  CASE cond.op = "EQ" -> value = cond.value
    [] cond.op = "NE" -> value # cond.value
    [] cond.op = "LT" -> Comparable(value, cond.value) /\ value.v < cond.value.v
    [] cond.op = "GT" -> Comparable(value, cond.value) /\ value.v > cond.value.v
    [] cond.op = "LE" -> Comparable(value, cond.value) /\ value.v <= cond.value.v
    [] cond.op = "GE" -> Comparable(value, cond.value) /\ value.v >= cond.value.v
    [] cond.op = "In" -> value \in ToSet(cond.value)
    [] cond.op = "Between" ->
         /\ Len(cond.value) = 2
         /\ \A k \in {1, 2} : Comparable(value, cond.value[k])
         /\ cond.value[1].v <= value.v /\ value.v <= cond.value[2].v

\* evaluateColumn: a row the column has no value for does not match.
RowMatches(data, row, cond) == row <= Len(data) /\ Matches(data[row], cond)

-----------------------------------------------------------------------------
(* Search *)

\* api.Table.Search: the components are taken under t.mu.
SearchCall ==
  /\ pc = "idle" /\ pc' = "load" /\ qschema' = schema
  /\ UNCHANGED <<table, q, view, scan, matching, candidates, results, failed>>

\* A loop over the fragments starts.
Loop(label) == pc' = label /\ i' = 1 /\ rowOffset' = 0

Finish(rows) ==
  /\ pc' = "done" /\ results' = rows
  /\ UNCHANGED <<table, call, view, scan, matching, candidates, failed>>

\* Before its loop a vector search refuses a query that does not fit the column.
BeginScan == IF q.fits THEN Loop("scan") ELSE pc' = "error" /\ UNCHANGED scan

\* The manifest is loaded, and SearchWithStrategy chooses what to do.
Load ==
  /\ pc = "load" /\ view' = frags
  /\ \/ /\ q.filter # <<>> /\ (q.vector => q.plan = "filterFirst")
        /\ Loop("filter") /\ UNCHANGED results
     \/ /\ q.vector /\ (q.filter # <<>> => q.plan = "searchFirst")
        /\ BeginScan /\ UNCHANGED results
     \/ /\ ~q.vector /\ q.filter = <<>>
        /\ pc' = "done" /\ results' = <<>> /\ UNCHANGED scan
  /\ UNCHANGED <<table, call, matching, candidates, failed>>

Conditions == q.filter[1]

\* Mutant: the components follow the table's schema.
Components_Present == schema

\* The schema of the components, which AddColumn and DropColumn replace.
Components == qschema

\* FieldByName and ReadColumn: in that schema, and with a file in the fragment.
HasColumn(frag, n) == n \in DOMAIN Components /\ Components[n] \in DOMAIN frag.data

Column(frag, n) == frag.data[Components[n]]

Fail ==
  /\ pc' = "error"
  /\ UNCHANGED <<table, call, view, scan, matching, candidates, results, failed>>

\* The next step reads: the manifest, or the column files of a fragment.
Reading ==
  \/ pc = "load"
  \/ pc \in {"filter", "scan"} /\ i <= Len(view) /\ (pc = "filter" => Conditions # <<>>)

\* Mutant: the loops go on behind a fragment that cannot be read.
ReadFails_Skip ==
  /\ Reading /\ failed' = TRUE
  /\ IF pc = "load" THEN pc' = "error" /\ UNCHANGED scan
     ELSE i' = i + 1 /\ rowOffset' = rowOffset + view[i].n /\ UNCHANGED pc
  /\ UNCHANGED <<table, call, view, matching, candidates, results>>

\* The store does not give what is read, or it cannot be decoded, or the context
\* is cancelled.
ReadFails ==
  /\ Reading
  /\ pc' = "error" /\ failed' = TRUE
  /\ UNCHANGED <<table, call, view, scan, matching, candidates, results>>

\* ScanFilter.Filter, one fragment; without conditions it returns no row.
FilterFragment ==
  /\ pc = "filter" /\ i <= Len(view) /\ Conditions # <<>>
  /\ LET frag == view[i] IN
     IF \E cond \in ToSet(Conditions) : ~HasColumn(frag, cond.column) THEN Fail
     ELSE /\ matching' = matching \cup
               {rowOffset + row - 1 : row \in
                 {r \in 1..frag.n : \A cond \in ToSet(Conditions) :
                    RowMatches(Column(frag, cond.column), r, cond)}}
          /\ i' = i + 1 /\ rowOffset' = rowOffset + frag.n
          /\ UNCHANGED <<table, pc, call, view, candidates, results, failed>>

FilterDone == pc = "filter" /\ (i > Len(view) \/ Conditions = <<>>)

\* applyLimit: a limit that is not positive returns all.
Limit(rows) ==
  IF q.limit > 0 /\ q.limit < Len(rows) THEN SubSeq(rows, 1, q.limit) ELSE rows

\* The numbers in S, the least first.
InOrder(S) ==
  {s \in SetToSeqs(S) : \A k \in 1..(Len(s) - 1) : s[k] < s[k + 1]}

\* Only a filter: the rows in the order of their ids.
AnswerFilter ==
  /\ FilterDone /\ ~q.vector
  /\ \E rows \in InOrder(matching) :
       Finish(Limit([k \in DOMAIN rows |-> [row |-> rows[k], score |-> 0]]))

\* Mutant: the row ids of the second loop go on where the first one stopped.
StartScan_KeepsOffset ==
  /\ FilterDone /\ q.vector /\ q.plan = "filterFirst" /\ matching # {}
  /\ pc' = (IF q.fits THEN "scan" ELSE "error") /\ i' = 1 /\ UNCHANGED rowOffset
  /\ UNCHANGED <<table, call, view, matching, candidates, results, failed>>

\* filterFirst: distances are computed for matching rows, if there are any.
StartScan ==
  /\ FilterDone /\ q.vector /\ q.plan = "filterFirst" /\ matching # {}
  /\ BeginScan
  /\ UNCHANGED <<table, call, view, matching, candidates, results, failed>>

AnswerEmpty ==
  FilterDone /\ q.vector /\ q.plan = "filterFirst" /\ matching = {} /\ Finish(<<>>)

\* Mutant: only the nearest rows are looked at for matching ones.
AnswerSearchFirst_LimitFirst ==
  /\ FilterDone /\ q.vector /\ q.plan = "searchFirst"
  /\ Finish(SelectSeq(Limit(results), LAMBDA r : r.row \in matching))

\* searchFirst: the rows found that match, in their order.
AnswerSearchFirst ==
  /\ FilterDone /\ q.vector /\ q.plan = "searchFirst"
  /\ \E kept \in InOrder({k \in DOMAIN results : results[k].row \in matching}) :
       Finish(Limit([k \in DOMAIN kept |-> results[kept[k]]]))

\* What the vector scan looks at.
Wanted(row) == q.filter # <<>> /\ q.plan = "filterFirst" => row \in matching

\* Mutant: rows are counted by the vectors that are there.
RowsOf_Vectors(frag) == Len(Column(frag, "vec"))

RowsOf(frag) == frag.n

\* The rows of the fragment that are looked at; the scan of a fragment ends
\* where its vectors do.
LookedAt(frag) ==
  {r \in 1..Len(Column(frag, "vec")) : Wanted(rowOffset + r - 1)}

\* BruteForceSearch.Search and the loop of filterFirst, one fragment.
ScanFragment ==
  /\ pc = "scan" /\ i <= Len(view)
  /\ LET frag == view[i] IN
     IF \/ ~HasColumn(frag, "vec")
        \/ \E r \in LookedAt(frag) : Column(frag, "vec")[r] \in q.undefined
     THEN Fail
     ELSE /\ candidates' = candidates \cup
               {[row |-> rowOffset + r - 1, score |-> Column(frag, "vec")[r]] :
                  r \in LookedAt(frag)}
          /\ i' = i + 1 /\ rowOffset' = rowOffset + RowsOf(frag)
          /\ UNCHANGED <<table, pc, call, view, matching, results, failed>>

\* sort.Slice by score, which keeps no order among equals.
Sorted(S) ==
  {s \in SetToSeqs(S) : \A k \in 1..(Len(s) - 1) : s[k].score <= s[k + 1].score}

\* The scan is over: sort, and answer or, with searchFirst, filter.
SortResults ==
  /\ pc = "scan" /\ i > Len(view)
  /\ \E rows \in Sorted(candidates) :
       \/ (q.filter # <<>> => q.plan = "filterFirst") /\ Finish(Limit(rows))
       \/ /\ q.filter # <<>> /\ q.plan = "searchFirst"
          /\ Loop("filter") /\ results' = rows
          /\ UNCHANGED <<table, call, view, matching, candidates, failed>>

Next ==
  \/ Insert \/ AddColumn \/ DropColumn
  \/ SearchCall \/ Load \/ ReadFails
  \/ FilterFragment \/ AnswerFilter \/ StartScan \/ AnswerEmpty \/ AnswerSearchFirst
  \/ ScanFragment \/ SortResults

Spec == Init /\ [][Next]_vars

-----------------------------------------------------------------------------
(* Properties *)

\* The rows of the view, and their number in it.
Rows == {x \in (1..Len(view)) \X (1..MaxRows) : x[2] <= view[x[1]].n}

RowID(x) ==
  Cardinality({y \in Rows : y[1] < x[1] \/ (y[1] = x[1] /\ y[2] < x[2])})

HasValue(x, n) ==
  HasColumn(view[x[1]], n) /\ x[2] <= Len(Column(view[x[1]], n))

\* The row meets every condition, of which there are some.
Satisfies(x) ==
  /\ Conditions # <<>>
  /\ \A cond \in ToSet(Conditions) :
       /\ HasValue(x, cond.column)
       /\ Matches(Column(view[x[1]], cond.column)[x[2]], cond)

\* The rows the query asks for: those that meet the filter and, with a vector
\* query, have a vector.
Qualifies(x) == (q.vector => HasValue(x, "vec")) /\ (q.filter # <<>> => Satisfies(x))

Wants == IF q.vector \/ q.filter # <<>> THEN {x \in Rows : Qualifies(x)} ELSE {}

Score(x) == IF q.vector THEN Column(view[x[1]], "vec")[x[2]] ELSE 0

\* query/hybrid_search.go:32-170, brute_force.go:38-94, scan_filter.go:22-72.
\* Whatever the plan, and however many fragments the rows are in and values
\* they lack, the answer has the rows asked for under their row ids, the
\* nearest first, and as many as the limit allows; none nearer is left out.
NearestMatching ==
  pc = "done" =>
    LET returned == {results[k].row : k \in DOMAIN results}
        all == Cardinality(Wants) IN
    /\ Len(results) = (IF q.limit > 0 /\ q.limit < all THEN q.limit ELSE all)
    /\ Cardinality(returned) = Len(results)
    /\ \A k \in DOMAIN results :
         \E x \in Wants : results[k] = [row |-> RowID(x), score |-> Score(x)]
    /\ \A k \in 1..(Len(results) - 1) : results[k].score <= results[k + 1].score
    /\ \A x \in Wants : RowID(x) \notin returned =>
         \A k \in DOMAIN results : results[k].score <= Score(x)

\* Fragment k has no file of the column that the schema the search began with
\* has under this name.
Lacks(k, n) == n \notin DOMAIN qschema \/ qschema[n] \notin DOMAIN view[k].data

\* The filter cannot be evaluated.
Unfilterable ==
  q.filter # <<>> /\ \E k \in DOMAIN view : \E cond \in ToSet(Conditions) : Lacks(k, cond.column)

\* The rows whose distances are asked for: with filterFirst the matching ones.
Measured ==
  {x \in Rows : HasValue(x, "vec") /\ (q.filter # <<>> /\ q.plan = "filterFirst" => Satisfies(x))}

\* The distances cannot be computed, and some are asked for.
Unmeasurable ==
  /\ q.vector
  /\ q.filter # <<>> /\ q.plan = "filterFirst" => \E x \in Rows : Satisfies(x)
  /\ \/ ~q.fits
     \/ \E k \in DOMAIN view : Lacks(k, "vec")
     \/ \E x \in Measured : Score(x) \in q.undefined

\* "Search should return a storage error when reading corrupted data"
\* (api/api_e2e_test.go:501), and "cosine distance fails on [0,0,0,0]" (:97).
\* A search answers only if each of its reads succeeded and every column and
\* distance it needed was there: never from part of the table.  It fails only
\* for one of these reasons, and not for AddColumn or DropColumn beside it
\* (api/table.go:221-272).
WholeOrError ==
  /\ pc = "done" => ~failed /\ ~Unfilterable /\ ~Unmeasurable
  /\ pc = "error" => failed \/ Unfilterable \/ Unmeasurable
=============================================================================
