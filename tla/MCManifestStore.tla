--------------------------- MODULE MCManifestStore ---------------------------
(* Values for ManifestStore. *)
EXTENDS ManifestStore, TLC
CONSTANTS p1, p2, h1, h2
Two == {p1, p2}
SharedHandle == [p \in Two |-> h1]
\* The variation in the README: an object each.
OwnHandle == (p1 :> h1) @@ (p2 :> h2)
Request(prev, version) == [prev |-> prev, version |-> version]
\* Contenders for the first version, one that skips it, and the successors, the
\* last of which has a digit more.
MCRequests == {Request(0, 8), Request(0, 9), Request(8, 9), Request(9, 10)}
=============================================================================
