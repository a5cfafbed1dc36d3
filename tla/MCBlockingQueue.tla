--------------------------- MODULE MCBlockingQueue ---------------------------
(* BlockingQueue for TLC: one element is larger than the others. *)
EXTENDS BlockingQueue, TLC
CONSTANT e2

MCSize == [v \in Elems |-> IF v = e2 THEN 2 ELSE 1]

=============================================================================
