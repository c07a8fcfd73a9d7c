---------------------------- MODULE MCAddressSpace ----------------------------
(***************************************************************************)
(* Tables of two entries: sixteen pages, of which mmap has the upper ten.  *)
(***************************************************************************)
EXTENDS AddressSpace, TLC

PageSymmetry == Permutations(PageId)
=============================================================================
