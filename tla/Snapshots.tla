----------------------------- MODULE Snapshots -----------------------------
(***************************************************************************)
(* What a versioned table promises, without files, caches or counters: a   *)
(* history of snapshots, each published once under a number higher than    *)
(* all before it, never changed or withdrawn, and each with the fragments  *)
(* of the one before it in their places, followed by new ones: its own,    *)
(* and those of mutations that took effect although they reported an       *)
(* error.                                                                  *)
(***************************************************************************)
EXTENDS Integers, Sequences, SequencesExt

VARIABLE history    \* version -> the fragments of that snapshot

Init == history = [v \in {} |-> <<>>]

\* The fragments of the newest snapshot.
Newest ==
  IF DOMAIN history = {} THEN <<>>
  ELSE history[CHOOSE v \in DOMAIN history : \A w \in DOMAIN history : w <= v]

Publish ==
  \E v \in DOMAIN history' \ DOMAIN history :
    /\ DOMAIN history' = DOMAIN history \cup {v}
    /\ \A w \in DOMAIN history : w < v /\ history'[w] = history[w]
    /\ IsPrefix(Newest, history'[v])
    /\ IsInjective(history'[v])

Spec == Init /\ [][Publish]_history
=============================================================================
