----------------------------- MODULE PageLists ------------------------------
(***************************************************************************)
(* What VirtualFrame needs of its page table: pages are grouped into       *)
(* disjoint lists, a page joins the list of another and leaves it again,   *)
(* and a whole list can be updated from any page on it.  The order of a    *)
(* list does not matter; VirtualFrame.tla keeps it as this set of sets.    *)
(***************************************************************************)
CONSTANT Data

VARIABLES
  lists,  \* a set of disjoint sets of ids
  data    \* what is kept for each id that is on one

vars == <<lists, data>>

Live == DOMAIN data
ListOf(v) == CHOOSE l \in lists : v \in l

Init == lists = {} /\ data = [v \in {} |-> v]

Add(v, x) ==
  /\ data' = [w \in Live \cup {v} |-> IF w = v THEN x ELSE data[w]]
  /\ lists' = lists \cup {{v}}

\* w, alone so far, joins the list of v.
Join(v, w) ==
  /\ UNCHANGED data
  /\ v # w /\ {w} \in lists
  /\ lists' = (lists \ {ListOf(v), {w}}) \cup {ListOf(v) \cup {w}}

Set(v, x) ==
  /\ data' = [data EXCEPT ![v] = x]
  /\ UNCHANGED lists

\* Every page on the list of v gets x.
SetList(v, x) ==
  /\ LET l == ListOf(v)
     IN  data' = [w \in Live |-> IF w \in l THEN x ELSE data[w]]
  /\ UNCHANGED lists

\* The lists when v has left its own.
Without(v) == (lists \ {ListOf(v)}) \cup ({ListOf(v) \ {v}} \ {{}})

Leave(v) == /\ UNCHANGED data
            /\ lists' = Without(v) \cup {{v}}

Remove(v) == /\ data' = [w \in Live \ {v} |-> data[w]]
             /\ lists' = Without(v)

Next ==
  \/ \E v \in Live' \ Live, x \in Data : Add(v, x)
  \/ \E v \in Live, x \in Data : Set(v, x) \/ SetList(v, x)
  \/ \E v, w \in Live : Join(v, w)
  \/ \E v \in Live : Leave(v) \/ Remove(v)

Spec == Init /\ [][Next]_vars
=============================================================================
