--------------------------- MODULE MCDynamicHeap ----------------------------
(* DynamicHeap for TLC: in one of the two pages merging is cut by a         *)
(* multiple of 4096 in its middle, in the other by none.                    *)
EXTENDS DynamicHeap

MCBoundary == [p \in Pages |-> IF p = 1 THEN 0 ELSE 5]
=============================================================================
