----------------------------- MODULE IngestLog -----------------------------
(***************************************************************************)
(* What an asynchronous writer promises about one table, without channels, *)
(* files or versions: batches are accepted one by one, and the table is a  *)
(* log to which groups of accepted batches are appended.  The log never    *)
(* shrinks or changes, holds every batch at most once, and holds the       *)
(* batches in the order in which they were accepted; a batch that was lost *)
(* in a crash stays accepted and is skipped.                               *)
(***************************************************************************)
EXTENDS Sequences, SequencesExt

CONSTANT Batches
VARIABLES accepted, log

Init == accepted = <<>> /\ log = <<>>

Accept(b) ==
  /\ b \notin ToSet(accepted)
  /\ accepted' = Append(accepted, b)
  /\ UNCHANGED log

\* a was accepted before b, and so is not b.
Earlier(a, b) ==
  \E k, l \in DOMAIN accepted : k < l /\ accepted[k] = a /\ accepted[l] = b

\* Accepted batches, in their order.
Group(g) ==
  /\ g # <<>> /\ ToSet(g) \subseteq ToSet(accepted)
  /\ \A k, l \in DOMAIN g : k < l => Earlier(g[k], g[l])

\* A group, what one fragment holds, follows what the log has.
Commit ==
  /\ log' # <<>> /\ log' = Append(log, Last(log'))
  /\ Group(Last(log'))
  /\ \A i \in DOMAIN log : \A a \in ToSet(log[i]), b \in ToSet(Last(log')) : Earlier(a, b)
  /\ UNCHANGED accepted

Next == Commit \/ \E b \in Batches : Accept(b)

Spec == Init /\ [][Next]_<<accepted, log>>
=============================================================================
