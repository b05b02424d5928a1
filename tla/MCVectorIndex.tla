---------------------------- MODULE MCVectorIndex ----------------------------
(* Opposite, equal and zero vectors, and some whose mean is zero; row ids are *)
(* not positions.                                                             *)
EXTENDS VectorIndex

Vectors(coordinates) ==
  [v \in DOMAIN coordinates |-> [row |-> 10 - v, vector |-> coordinates[v]]]

MCInputs == {Vectors(c) : c \in {<<-12, 12>>, <<12, 24, -36>>, <<24, 24, 36, 0>>}}
MCQueries == {-36, 0, 12}
MCProbes == {0, 1}
=============================================================================
