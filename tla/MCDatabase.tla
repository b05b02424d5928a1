---------------------------- MODULE MCDatabase ----------------------------
(* Values for Database. *)
EXTENDS Database, TLC
CONSTANTS c1, c2, b1, b2
MCClients == {c1, c2}
ClientSymmetry == Permutations(MCClients)
=============================================================================
