-------------------------- MODULE VersionRegister --------------------------
(***************************************************************************)
(* What an optimistic commit protocol promises: a register that holds the  *)
(* current version of a table and moves by compare-and-swap, and an owner  *)
(* for every version the register has held, who never changes and is only  *)
(* forgotten when an old version is deleted.                               *)
(***************************************************************************)
EXTENDS Integers

CONSTANT Owners
VARIABLES current, owner

Init == current = 0 /\ owner = [v \in {} |-> CHOOSE p \in Owners : TRUE]

\* The register moves from current to a later version.
Swap(p) ==
  /\ current' > current
  /\ owner' = [v \in DOMAIN owner \cup {current'} |->
                 IF v = current' THEN p ELSE owner[v]]

Expire(v) ==
  /\ v < current
  /\ owner' = [w \in DOMAIN owner \ {v} |-> owner[w]]
  /\ UNCHANGED current

Next == (\E p \in Owners : Swap(p)) \/ (\E v \in DOMAIN owner : Expire(v))

Spec == Init /\ [][Next]_<<current, owner>>
=============================================================================
