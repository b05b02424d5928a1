----------------------------- MODULE BufferPool -----------------------------
(***************************************************************************)
(* storage.BufferPool: an LRU cache of byte buffers with a budget in       *)
(* bytes.  A map finds an entry, a list orders the entries by use, and a   *)
(* counter adds up their sizes: three pieces of state that every operation *)
(* has to keep in step, under one mutex.                                   *)
(*                                                                         *)
(* Put evicts from the back of the list, entry by entry, while it holds    *)
(* the mutex.  A Get that misses and Stats change nothing.  The package's  *)
(* configuration has a size for the pool, but no store uses it yet.        *)
(***************************************************************************)
EXTENDS Integers, SequencesExt, FiniteSetsExt

CONSTANTS
  Keys,
  Buffers,       \* the data
  Size,          \* the length of a buffer
  Capacities     \* the budgets a pool may be made with

ASSUME BufferPoolAssumption ==
  Size \in [Buffers -> Nat] /\ Capacities \subseteq Int

VARIABLES
  capacity,
  entries,       \* key -> data
  lru,           \* the keys, the most recently used first
  used,
  evicting       \* a Put is in evict, with the mutex held

vars == <<capacity, entries, lru, used, evicting>>

Init ==
  /\ capacity \in Capacities
  /\ entries = [k \in {} |-> <<>>] /\ lru = <<>> /\ used = 0
  /\ evicting = FALSE

Cached == DOMAIN entries

\* The list without the element of k, which the map leads to.
Without(k) == RemoveAt(lru, CHOOSE i \in DOMAIN lru : lru[i] = k)

\* Mutant: a hit leaves the order as it is.
MoveToFront_Never(k) == lru

MoveToFront(k) == <<k>> \o Without(k)

Get(k) ==
  /\ ~evicting /\ capacity # 0 /\ k \in Cached
  /\ lru' = MoveToFront(k)
  /\ UNCHANGED <<capacity, entries, used, evicting>>

\* Mutant: the size of the data that is replaced stays counted.
Growth_KeepsOld(k, data) == Size[data]

\* By how much used changes.
Growth(k, data) == Size[data] - (IF k \in Cached THEN Size[entries[k]] ELSE 0)

\* A key that is there moves to the front as a hit does, another one enters there.
Put(k, data) ==
  /\ ~evicting /\ capacity # 0
  /\ used' = used + Growth(k, data)
  /\ lru' = (IF k \in Cached THEN MoveToFront(k) ELSE <<k>> \o lru)
  /\ entries' = [x \in Cached \cup {k} |-> IF x = k THEN data ELSE entries[x]]
  /\ evicting' = TRUE
  /\ UNCHANGED capacity

Drop(k) ==
  /\ lru' = Without(k)
  /\ entries' = [x \in Cached \ {k} |-> entries[x]]
  /\ used' = used - Size[entries[k]]

\* One round of the loop in evict.
Evict ==
  /\ evicting /\ used > capacity /\ lru # <<>>
  /\ Drop(Last(lru))
  /\ UNCHANGED <<capacity, evicting>>

EvictDone ==
  /\ evicting /\ (used <= capacity \/ lru = <<>>)
  /\ evicting' = FALSE
  /\ UNCHANGED <<capacity, entries, lru, used>>

RemoveKey(k) ==
  /\ ~evicting /\ k \in Cached
  /\ Drop(k)
  /\ UNCHANGED <<capacity, evicting>>

Next ==
  \/ \E k \in Keys : Get(k) \/ RemoveKey(k) \/ \E data \in Buffers : Put(k, data)
  \/ Evict \/ EvictDone

Spec == Init /\ [][Next]_vars

-----------------------------------------------------------------------------
(* Properties *)

\* buffer_pool.go:56-73, 76-87, 96-108.  The counter that evict goes by is
\* the sum of the sizes of the entries, through every replacement, eviction
\* and removal, the list has the keys of the map, and between calls
\* the pool is within its budget.
WithinBudget ==
  /\ used = MapThenSumSet(LAMBDA k : Size[entries[k]], Cached)
  /\ ToSet(lru) = Cached /\ Len(lru) = Cardinality(Cached)
  /\ ~evicting => used <= capacity \/ Cached = {}

\* buffer_pool.go:34-108; "evicting LRU entries when over capacity"
\* (buffer_pool.go:49).  With the entries that evict is about to drop left
\* out, the pool behaves as LRUCache: it keeps the most recently used entries
\* that fit, and finds what was last put under a key.  That it evicts no more
\* than it must is WithinBudget, as evict goes by the counter.
Contents == [i \in DOMAIN lru |-> [key |-> lru[i], data |-> entries[lru[i]]]]

Ideal == INSTANCE LRUCache WITH contents <- Contents
LRU   == INSTANCE LRUCache WITH contents <- Ideal!Fitting(Contents)

ImplementsLRU == LRU!Spec
=============================================================================
