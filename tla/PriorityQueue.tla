--------------------------- MODULE PriorityQueue ---------------------------
(***************************************************************************)
(* The binary heap of priority_q.c.  A call of PriorityQueue__add or       *)
(* PriorityQueue__pop is one step up to its loop and one for each round.   *)
(***************************************************************************)
EXTENDS Integers, FiniteSets

CONSTANTS
  Item,       \* what is queued; the same pointer may be queued twice
  Prio,       \* its importance: compare(a, b) > 0 iff Prio[a] > Prio[b]
  Unset,      \* the content of a cell not yet written; no item
  MaxItems    \* bound: the items queued at a time

ASSUME ItemAssumption ==
  /\ Prio \in [Item -> Int] /\ Unset \notin Item
  /\ MaxItems \in Nat

VARIABLES
  queue,   \* the cells 0..len-1
  len,
  tail,    \* the number of items, and the first free cell
  at,      \* "idle", or the loop that runs, "bubble" or "sift"
  curr,    \* its variable
  got      \* what the last pop that found an item returned

vars == <<queue, len, tail, at, curr, got>>

TypeOK ==
  /\ len \in Nat /\ tail \in 0..(len - 1)
  /\ queue \in [0..(len - 1) -> Item \cup {Unset}]
  /\ \A i \in 0..(tail - 1) : queue[i] \in Item
  /\ at \in {"idle", "bubble", "sift"}
  /\ curr \in 0..(len - 1) /\ (at = "bubble" => curr < tail)
  /\ got \in Item \cup {Unset}

\* PriorityQueue__init
Init ==
  /\ len = 4 /\ queue = [i \in 0..3 |-> Unset]
  /\ tail = 0 /\ at = "idle" /\ curr = 0 /\ got = Unset

\* Mutant of Parent: the index is halved as if it counted from 1.
ParentFromOne(i) == i \div 2

\* PriorityQueue__parent
Parent(i) == IF i = 0 THEN 0 ELSE (i - 1) \div 2

\* PriorityQueue__child: the left one; the other is next to it.
Child(i) == 2 * i + 1

\* PriorityQueue__compare
MoreImportant(i, j) == Prio[queue[i]] > Prio[queue[j]]

\* PriorityQueue__swap
Swapped(i, j) == [queue EXCEPT ![i] = queue[j], ![j] = queue[i]]

\* The cells double when one is left.
IsFull == len = tail + 1

\* PriorityQueue__add up to its loop.
Add(x) ==
  /\ at = "idle" /\ tail < MaxItems
  /\ len' = IF IsFull THEN 2 * len ELSE len
  /\ queue' = [i \in 0..(len' - 1) |-> IF i = tail THEN x
                                       ELSE IF i < len THEN queue[i] ELSE Unset]
  /\ tail' = tail + 1
  /\ curr' = tail
  /\ at' = "bubble"
  /\ UNCHANGED got

MustBubble == curr # 0 /\ MoreImportant(curr, Parent(curr))

Bubble ==
  /\ at = "bubble" /\ MustBubble
  /\ queue' = Swapped(curr, Parent(curr))
  /\ curr' = Parent(curr)
  /\ UNCHANGED <<len, tail, at, got>>

Bubbled ==
  /\ at = "bubble" /\ ~ MustBubble
  /\ at' = "idle"
  /\ UNCHANGED <<queue, len, tail, curr, got>>

\* PriorityQueue__pop up to its loop; of an empty queue it changes nothing.
Pop ==
  /\ at = "idle" /\ tail # 0
  /\ got' = queue[0]
  /\ queue' = Swapped(0, tail - 1)
  /\ tail' = tail - 1
  /\ curr' = 0
  /\ at' = "sift"
  /\ UNCHANGED len

\* Mutant of Successor: the peer is not looked at.
SuccessorLeft == Child(curr)

\* The more important child.
Successor ==
  LET left == Child(curr)
  IN  IF left + 1 < tail /\ MoreImportant(left + 1, left) THEN left + 1 ELSE left

MustSift == Child(curr) < tail /\ MoreImportant(Successor, curr)

Sift ==
  /\ at = "sift" /\ MustSift
  /\ queue' = Swapped(curr, Successor)
  /\ curr' = Successor
  /\ UNCHANGED <<len, tail, at, got>>

Sifted ==
  /\ at = "sift" /\ ~ MustSift
  /\ at' = "idle"
  /\ UNCHANGED <<queue, len, tail, curr, got>>

Next ==
  \/ \E x \in Item : Add(x)
  \/ Bubble \/ Bubbled \/ Pop \/ Sift \/ Sifted

Spec == Init /\ [][Next]_vars
-----------------------------------------------------------------------------
Up(i) == (i - 1) \div 2

AtMost(i, j) == Prio[queue[i]] <= Prio[queue[j]]

(***************************************************************************)
(* Between calls no item is more important than the one above it.  In the  *)
(* loops that may fail only above curr, while an item bubbles up, or below *)
(* it, while one sifts down, and what is above curr is not less important  *)
(* than what is below: so the loops may stop at the first order they find. *)
(***************************************************************************)
HeapOrder ==
  /\ TypeOK
  /\ \A i \in 1..(tail - 1) :
       /\ \/ AtMost(i, Up(i))
          \/ at = "bubble" /\ i = curr
          \/ at = "sift" /\ Up(i) = curr
       /\ at # "idle" /\ Up(i) = curr /\ curr # 0 => AtMost(i, Up(curr))

Bag == INSTANCE PriorityBag
         WITH bag <- [x \in Item |->
                        Cardinality({i \in 0..(tail - 1) : queue[i] = x})]

(***************************************************************************)
(* Through growth and swaps no item is lost or doubled, and pop returns,   *)
(* and takes out, one that none is more important than.                    *)
(***************************************************************************)
ImplementsBag == Bag!Spec
=============================================================================
