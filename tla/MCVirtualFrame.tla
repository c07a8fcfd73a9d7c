--------------------------- MODULE MCVirtualFrame ---------------------------
(* Instances of the page cache for TLC. *)
EXTENDS VirtualFrame, TLC

PageSymmetry == Permutations(PageId)
PageValueSymmetry == Permutations(PageId) \cup Permutations(Value)
=============================================================================
