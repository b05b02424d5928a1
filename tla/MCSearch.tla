------------------------------ MODULE MCSearch ------------------------------
(* Values and queries for Search. *)
EXTENDS Search
Num(v) == [kind |-> "num", v |-> v]
Text == [kind |-> "text", v |-> 0]
Tag(op, value) == [column |-> "tag", op |-> op, value |-> value]
MCTags == {Num(1), Num(2)}

\* A filter is a sequence: empty for none, or the one filter there is.
NoFilter == <<>>
Filter(conditions) == <<conditions>>

Query(vector, filter, limit, plan) ==
  [vector |-> vector, fits |-> TRUE, undefined |-> {}, filter |-> filter, limit |-> limit,
   plan |-> plan]

\* The query's vector is of another length, or zero, or meets a zero vector.
Misfit(query) == [query EXCEPT !.fits = FALSE]
Zero(query) == [query EXCEPT !.undefined = {1, 2}]
MeetsZero(query) == [query EXCEPT !.undefined = {2}]

Filters ==
  {Filter(<<Tag("EQ", Num(1))>>),
   Filter(<<Tag("GE", Num(1)), Tag("NE", Num(1))>>),
   Filter(<<>>)}

Plans == {"filterFirst", "searchFirst"}

MCQueries ==
  {Query(FALSE, NoFilter, 1, "filterFirst"), Query(TRUE, NoFilter, 2, "filterFirst"),
   Query(FALSE, Filter(<<Tag("LE", Num(1)), Tag("NE", Text)>>), 0, "filterFirst"),
   Query(FALSE, Filter(<<Tag("GT", Num(1)), Tag("In", <<Num(2), Text>>)>>), 1, "filterFirst"),
   Query(FALSE, Filter(<<Tag("Between", <<Num(1), Num(2)>>), Tag("LT", Num(2))>>), 1,
         "filterFirst")}
  \cup {Query(FALSE, Filter(<<Tag("EQ", Num(1)), [Tag("EQ", Num(1)) EXCEPT !.column = "blob"]>>), 0,
              "filterFirst"),
        Misfit(Query(TRUE, NoFilter, 1, "filterFirst")), Zero(Query(TRUE, NoFilter, 0, "filterFirst"))}
  \cup UNION {{query, Misfit(query), MeetsZero(query)} :
               query \in {Query(TRUE, Filter(<<Tag("EQ", Num(1))>>), 0, plan) : plan \in Plans}}
  \cup {Query(TRUE, filter, 1, plan) : filter \in Filters, plan \in Plans}
=============================================================================
