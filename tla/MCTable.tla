------------------------------ MODULE MCTable ------------------------------
(* Values for Table. *)
EXTENDS Table
CONSTANTS b1, b2, b3, r1
MCColumns == <<"id", "vec">>
=============================================================================
