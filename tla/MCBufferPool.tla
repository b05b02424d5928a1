---------------------------- MODULE MCBufferPool ----------------------------
(* Buffers of length 0 to 3 for pools that hold nothing, one or several. *)
EXTENDS BufferPool

MCBuffers == {"empty", "one", "two", "three"}
MCSize == [b \in MCBuffers |->
             CASE b = "empty" -> 0 [] b = "one" -> 1 [] b = "two" -> 2 [] b = "three" -> 3]
MCCapacities == {-1, 0, 2, 4}
=============================================================================
