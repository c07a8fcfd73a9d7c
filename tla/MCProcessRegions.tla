-------------------------- MODULE MCProcessRegions --------------------------
(***************************************************************************)
(* A heap of a page that can grow by one and a half, a stack of a page     *)
(* that can grow down to it, and the mapped regions above.                 *)
(***************************************************************************)
EXTENDS ProcessRegions

MCLayout == [t \in {"HEAP", "STACK"} |->
               IF t = "HEAP" THEN [start |-> 2, size |-> 2]
                             ELSE [start |-> 12, size |-> 2]]
=============================================================================
