--------------------------- MODULE DoubleLinkList ---------------------------
(***************************************************************************)
(* doubleLinkList.c: doubly linked lists whose nodes live in the slots of  *)
(* a DynamicArrOne and name each other by slot, with a client that uses    *)
(* them as virtualFrame.c does: a node is linked behind another when it    *)
(* was just added, and deleted after it was taken off its list.            *)
(***************************************************************************)
EXTENDS DynamicArr

CONSTANTS
  Data,      \* what a node holds
  MaxNodes   \* bound: the nodes at a time

ASSUME NodesAssumption == MaxNodes \in Nat

Node == [prev : Nat, next : Nat, data : Data]

ASSUME EmptyAssumption == Empty \notin Node

VARIABLE dll   \* the DynamicArrOne of nodes

listVars == <<dll>>

NULL_SLOT == 0
Nodes == Ids(dll)

\* The node at v, and DoubleLinkList__getPrev and __getNext.
At(d, v)     == GetOne(d, v)
PrevOf(d, v) == IF At(d, v) = Empty THEN NULL_SLOT ELSE At(d, v).prev
NextOf(d, v) == IF At(d, v) = Empty THEN NULL_SLOT ELSE At(d, v).next

\* A field of node v changed; of none if v is NULL_SLOT.
SetField(d, v, field, x) ==
  IF v = NULL_SLOT THEN d ELSE [d EXCEPT !.item[v - 1][field] = x]

\* The nodes met from v on: by getPrev, as DoubleLinkList__getRoot goes, and
\* by getNext, as DoubleLinkList__foreach does; NULL_SLOT behind the last.
\* A walk that ends does so in as many steps as there are nodes.
Back(d, v) ==
  LET prev == [w \in 0..d.length |-> PrevOf(d, w)]
      at[k \in 0..d.alloced] == IF k = 0 THEN v ELSE prev[at[k - 1]]
  IN  at
Forth(d, v) ==
  LET next == [w \in 0..d.length |-> NextOf(d, w)]
      at[k \in 0..d.alloced] == IF k = 0 THEN v ELSE next[at[k - 1]]
  IN  at

\* DoubleLinkList__getRoot
Root(d, v) ==
  IF At(d, v) = Empty THEN NULL_SLOT
  ELSE LET at == Back(d, v)
       IN  at[Max({k \in DOMAIN at : at[k] # NULL_SLOT})]

\* The nodes DoubleLinkList__foreach visits.
Visited(d, start) ==
  LET at == Forth(d, start)
  IN  {at[k] : k \in DOMAIN at} \ {NULL_SLOT}

\* Mutant of Foreach: it starts at the node itself, not at its root.
ForeachFromNode(d, v, x) ==
  [d EXCEPT !.item = [i \in DOMAIN @ |-> IF i + 1 \in Visited(d, v)
                                         THEN [@[i] EXCEPT !.data = x]
                                         ELSE @[i]]]

\* DoubleLinkList__foreach from the root of v, with a callback that answers x.
Foreach(d, v, x) ==
  [d EXCEPT !.item = [i \in DOMAIN @ |-> IF i + 1 \in Visited(d, Root(d, v))
                                         THEN [@[i] EXCEPT !.data = x]
                                         ELSE @[i]]]

NewNode(x) == [prev |-> NULL_SLOT, next |-> NULL_SLOT, data |-> x]

\* Mutant of LinkNodes: the node behind keeps naming `first`.
LinkForgetsThird(d, first, second) ==
  LET third == NextOf(d, first)
      e == SetField(d, first, "next", second)
      f == SetField(e, second, "next", third)
  IN  SetField(f, second, "prev", first)

\* DoubleLinkList__link of two different nodes: second goes behind first.
LinkNodes(d, first, second) ==
  LET third == NextOf(d, first)
      e == SetField(d, first, "next", second)
      f == SetField(e, second, "next", third)
      g == SetField(f, third, "prev", second)
  IN  SetField(g, second, "prev", first)

\* DoubleLinkList__delink: its neighbours close up, v is on its own.
DelinkNode(d, v) ==
  LET e == SetField(d, NextOf(d, v), "prev", PrevOf(d, v))
      f == SetField(e, PrevOf(d, v), "next", NextOf(d, v))
  IN  SetField(SetField(f, v, "next", NULL_SLOT), v, "prev", NULL_SLOT)

\* Mutant of Candidate: the next node even if there is none.
CandidateNext(d, v) == NextOf(d, v)

\* What DoubleLinkList__delink answers: a neighbour, the one before if any.
Candidate(d, v) ==
  IF PrevOf(d, v) # NULL_SLOT THEN PrevOf(d, v) ELSE NextOf(d, v)

-----------------------------------------------------------------------------

ListTypeOK ==
  /\ dll.length \in Nat \ {0}
  /\ dll \in [item : [0..(dll.length - 1) -> Node \cup {Empty}],
              alloced : Nat, length : Nat, tail : 0..(dll.length - 1)]
  /\ \A v \in Nodes : {PrevOf(dll, v), NextOf(dll, v)} \subseteq 0..dll.length

ListInit == dll = EmptyArr

Add(x) == /\ Cardinality(Nodes) < MaxNodes
          /\ dll' = AddOne(dll, NewNode(x)).arr

Link(first, second) ==
  /\ first \in Nodes /\ second \in Nodes /\ first # second
  /\ PrevOf(dll, second) = NULL_SLOT /\ NextOf(dll, second) = NULL_SLOT
  /\ dll' = LinkNodes(dll, first, second)

Update(v, x) == /\ v \in Nodes
                /\ dll' = SetField(dll, v, "data", x)

UpdateList(v, x) == /\ v \in Nodes
                    /\ dll' = Foreach(dll, v, x)

Delink(v) == /\ v \in Nodes
             /\ dll' = DelinkNode(dll, v)

\* DoubleLinkList__del, which takes the node off its list itself.
Del(v) == /\ v \in Nodes
          /\ dll' = DelOne(DelinkNode(dll, v), v)

ListNext ==
  \/ \E x \in Data : Add(x)
  \/ \E v \in Nodes, x \in Data : Update(v, x) \/ UpdateList(v, x)
  \/ \E v, w \in Nodes : Link(v, w)
  \/ \E v \in Nodes : Delink(v) \/ Del(v)

ListSpec == ListInit /\ [][ListNext]_listVars

-----------------------------------------------------------------------------
(***************************************************************************)
(* The array counts its items right and always has an empty slot to offer: *)
(* the loop of DynamicArr__alloc, which has no other way out, finds one,   *)
(* whatever was deleted and wherever tail stands.                          *)
(***************************************************************************)
SlotsCounted ==
  /\ ListTypeOK
  /\ dll.alloced = Cardinality(Occupied(dll))
  /\ dll.alloced <= dll.length - 2

(***************************************************************************)
(* Neighbours name each other, no node names one that was deleted, and     *)
(* both walks end: the loops of getRoot and foreach terminate.             *)
(***************************************************************************)
ListsWellFormed ==
  \A v \in Nodes :
    /\ NextOf(dll, v) # NULL_SLOT =>
         NextOf(dll, v) \in Nodes /\ PrevOf(dll, NextOf(dll, v)) = v
    /\ PrevOf(dll, v) # NULL_SLOT =>
         PrevOf(dll, v) \in Nodes /\ NextOf(dll, PrevOf(dll, v)) = v
    /\ Back(dll, v)[dll.alloced] = NULL_SLOT
    /\ Forth(dll, v)[dll.alloced] = NULL_SLOT

ListOf(v) == Visited(dll, Root(dll, v))

(***************************************************************************)
(* DoubleLinkList__delink answers 0 for the last node of a list, and       *)
(* otherwise a node that stays on it: VirtualFrame__delPage frees the      *)
(* frame and the swap block on a 0, and hands the frame over else.         *)
(***************************************************************************)
CandidateStays ==
  \A v \in Nodes :
    IF ListOf(v) = {v} THEN Candidate(dll, v) = NULL_SLOT
                       ELSE Candidate(dll, v) \in ListOf(v) \ {v}

Roots == {v \in Nodes : PrevOf(dll, v) = NULL_SLOT}

Lists == INSTANCE PageLists
           WITH lists <- {Visited(dll, v) : v \in Roots},
                data  <- [v \in Nodes |-> At(dll, v).data]

(***************************************************************************)
(* The linked nodes are what VirtualFrame takes them for: disjoint lists   *)
(* that a node joins and leaves whole, every one of which foreach, started *)
(* at the root of any node on it, updates entirely.                        *)
(***************************************************************************)
ImplementsPageLists == Lists!Spec
=============================================================================
