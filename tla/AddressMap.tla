----------------------------- MODULE AddressMap -----------------------------
(***************************************************************************)
(* What addressSpace.c promises: regions apart from each other; a page     *)
(* given for an address in a region stays there, alone, until the region   *)
(* is unmapped and all its pages with it; a new region has none.  Page     *)
(* tables, slots and cells are open.                                       *)
(***************************************************************************)
VARIABLES
  regions,  \* disjoint sets of addresses
  mapping   \* the pages at the addresses that have one

vars == <<regions, mapping>>

Init == regions = {} /\ mapping = [v \in {} |-> v]

\* The process ends.
Exit == regions' = {} /\ mapping' = [v \in {} |-> v]

Mmap(r) ==
  /\ r \cap UNION regions = {} /\ r \cap DOMAIN mapping = {}
  /\ regions' = regions \cup {r}
  /\ UNCHANGED mapping

Fault(v, p) ==
  /\ v \in (UNION regions) \ DOMAIN mapping
  /\ p \notin {mapping[w] : w \in DOMAIN mapping}
  /\ mapping' = [w \in DOMAIN mapping \cup {v} |->
                   IF w = v THEN p ELSE mapping[w]]
  /\ UNCHANGED regions

Munmap(r) ==
  /\ regions' = regions \ {r}
  /\ mapping' = [w \in DOMAIN mapping \ r |-> mapping[w]]

Next ==
  \/ \E r \in regions' \ regions : Mmap(r)
  \/ \E v \in DOMAIN mapping' \ DOMAIN mapping : Fault(v, mapping'[v])
  \/ \E r \in regions \ regions' : Munmap(r)
  \/ Exit

Spec == Init /\ [][Next]_vars
=============================================================================
