------------------------------ MODULE LRUCache ------------------------------
(***************************************************************************)
(* What a byte-bounded LRU cache promises, without maps, lists or a loop   *)
(* that evicts: its contents, the most recently used first, of which every *)
(* Put keeps as many as fit.                                               *)
(***************************************************************************)
EXTENDS Integers, SequencesExt, FiniteSetsExt

CONSTANTS Keys, Buffers, Size

VARIABLES capacity, contents

Entry == [key : Keys, data : Buffers]

Total(s) == FoldSeq(LAMBDA e, sum : Size[e.data] + sum, 0, s)

\* The longest prefix within the capacity.
Fitting(s) ==
  SubSeq(s, 1, Max({n \in 0..Len(s) : n = 0 \/ Total(SubSeq(s, 1, n)) <= capacity}))

\* The contents without the entry of k, if there is one: no key is there twice.
Others(k) == RemoveFirstMatch(contents, LAMBDA e : e.key = k)

Init == contents = <<>>

Put(k, d) ==
  /\ capacity # 0
  /\ contents' = Fitting(<<[key |-> k, data |-> d]>> \o Others(k))

Get(k) ==
  \E i \in DOMAIN contents :
    contents[i].key = k /\ contents' = <<contents[i]>> \o Others(k)

Delete(k) == contents' = Others(k)

Next ==
  /\ \E k \in Keys : Get(k) \/ Delete(k) \/ \E d \in Buffers : Put(k, d)
  /\ UNCHANGED capacity

Spec == Init /\ [][Next]_<<capacity, contents>>
=============================================================================
