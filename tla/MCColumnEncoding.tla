-------------------------- MODULE MCColumnEncoding --------------------------
(* Numbers that need one or two bytes, strings of no, one and two bytes. *)
EXTENDS ColumnEncoding

Numbers == {1, 258}
Strings == {<<>>, <<7>>, <<1, 0>>}
MCBlockSizes == {-1, 3, 8}
MCValues == [t \in Fixed |-> Numbers] @@ [t \in Variable |-> Strings]
=============================================================================
