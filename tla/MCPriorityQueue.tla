--------------------------- MODULE MCPriorityQueue ---------------------------
(* Four items, two of them equally important; up to six are queued. *)
EXTENDS PriorityQueue

MCPrio == [x \in Item |-> IF x < 3 THEN x ELSE x - 1]
=============================================================================
