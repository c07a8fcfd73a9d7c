---------------------------- MODULE PriorityBag ----------------------------
(***************************************************************************)
(* What priority_q.c promises: a bag of items from which a most important  *)
(* one is popped.  Which of equals is open.                                *)
(***************************************************************************)
EXTENDS Integers

CONSTANTS
  Item,
  Prio   \* how important an item is

VARIABLES
  bag,   \* how often it holds each item
  got    \* what was popped last

vars == <<bag, got>>

Init == bag = [x \in Item |-> 0] /\ got \notin Item

Add(x) == bag' = [bag EXCEPT ![x] = @ + 1] /\ UNCHANGED got

Pop(x) ==
  /\ bag[x] > 0
  /\ \A y \in Item : bag[y] > 0 => Prio[y] <= Prio[x]
  /\ bag' = [bag EXCEPT ![x] = @ - 1]
  /\ got' = x

Next == \E x \in Item : Add(x) \/ Pop(x)

Spec == Init /\ [][Next]_vars
=============================================================================
