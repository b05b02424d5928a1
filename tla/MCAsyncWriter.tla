--------------------------- MODULE MCAsyncWriter ---------------------------
(* Model values and bounds for AsyncWriter. *)
EXTENDS AsyncWriter

CONSTANTS b1, b2, b3, c1, c2

\* Two one-row batches and, for the row counter, one of two rows.
MCBatches  == {b1, b2, b3}
TwoBatches == {b1, b2}
OneBatch   == {b1}
MCColumns  == {"id", "vec"}
OneColumn  == {"id"}
MCRows     == (b1 :> 1) @@ (b2 :> 1) @@ (b3 :> 2)
MCKind     == [b \in MCBatches |-> [c \in MCColumns |-> "ok"]]
OneColumnKind == [b \in MCBatches |-> [c \in OneColumn |-> "ok"]]
MCClients  == {c1, c2}
OneClient  == {c1}
ClientSymmetry == Permutations(MCClients)

\* b2 carries a column of the wrong type.
MCMistyped == [b \in MCBatches |-> [c \in MCColumns |->
                 IF b = b2 /\ c = "vec" THEN "bad" ELSE "ok"]]

\* b1 lacks a column, so that another batch brings it in, and b3 carries one of
\* the wrong type.
MCUneven == [b \in MCBatches |->
               IF b = b1 THEN [c \in {"id"} |-> "ok"]
               ELSE [c \in MCColumns |-> IF b = b3 /\ c = "vec" THEN "bad" ELSE "ok"]]
=============================================================================
