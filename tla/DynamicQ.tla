------------------------------ MODULE DynamicQ ------------------------------
(***************************************************************************)
(* The growing circular queue of dynamicQ.c, as operators on a record      *)
(*   [arr, alloced, length, head, tail]                                    *)
(* with arr the cells 0..length-1 of item_arr.                             *)
(***************************************************************************)
EXTENDS Integers, Sequences

CONSTANTS
  Item,   \* what is queued
  Blank   \* the contents of a cell nothing was stored in

IsQueue(q) ==
  /\ q.length \in Nat \ {0}
  /\ q \in [arr : [0..(q.length - 1) -> Item \cup {Blank}], alloced : Nat,
            length : Nat, head : 0..(q.length - 1), tail : 0..(q.length - 1)]

\* DynamicQ__init
EmptyQ == [arr |-> [i \in 0..3 |-> Blank], alloced |-> 0, length |-> 4,
           head |-> 0, tail |-> 0]

IsEmpty(q) == q.alloced = 0

\* Mutant of MustGrow: grow when the cells are used up.
MustGrowLate(q) == q.alloced = q.length

\* The test on which DynamicQ__enQueue doubles the array.
MustGrow(q) == q.alloced = q.length - 2

\* Mutant of Wraps: the items are taken to wrap when they do not.
WrapsNot(q) == q.head < q.tail

\* The items run over the end of the array and on from its start.
Wraps(q) == q.tail < q.head

\* Twice the cells; items before head that wrapped are copied to where they
\* follow on.
Grow(q) ==
  LET n == q.length
      copied == IF Wraps(q) THEN q.tail ELSE 0
  IN  [q EXCEPT !.length = 2 * n,
                !.arr = [i \in 0..(2 * n - 1) |->
                           IF i < n THEN q.arr[i]
                           ELSE IF i - n < copied THEN q.arr[i - n]
                           ELSE Blank],
                !.tail = IF Wraps(q) THEN @ + n ELSE @]

\* Store at the tail and DynamicQ__incTail.
Put(q, x) ==
  [q EXCEPT !.arr[q.tail] = x, !.alloced = @ + 1, !.tail = (@ + 1) % q.length]

EnQueue(q, x) == Put(IF MustGrow(q) THEN Grow(q) ELSE q, x)

\* DynamicQ__first of a queue that is not empty.
First(q) == q.arr[q.head]

DeQueue(q) ==
  IF IsEmpty(q) THEN q
  ELSE [q EXCEPT !.alloced = @ - 1, !.head = (@ + 1) % q.length]
-----------------------------------------------------------------------------
Wrap(n, j) == IF j < n THEN j ELSE j - n

\* The cell that holds the i-th item, counting from 1.
Cell(q, i) == Wrap(q.length, q.head + (i - 1))

\* The items of a queue in the order they leave it.
Items(q) == [i \in 1..q.alloced |-> q.arr[Cell(q, i)]]

(***************************************************************************)
(* The representation of a queue: two cells are always free, and the tail  *)
(* is the cell after the last item.                                        *)
(***************************************************************************)
WellFormed(q) ==
  /\ q.length >= 4 /\ q.alloced <= q.length - 2
  /\ q.tail = Cell(q, q.alloced + 1)
  /\ \A i \in 1..q.alloced : q.arr[Cell(q, i)] \in Item
=============================================================================
