-------------------------- MODULE MCContinueRegion --------------------------
(* Instances of the table of runs for TLC. *)
EXTENDS ContinueRegion, TLC

HolderSymmetry == Permutations(Holder)
=============================================================================
