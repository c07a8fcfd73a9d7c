----------------------------- MODULE DynamicArr -----------------------------
(***************************************************************************)
(* The growing slot array of dynamic.c, as operators on a record           *)
(*   [item, alloced, length, tail]                                         *)
(* with item the slots 0..length-1 of item_arr, Empty where the pointer is *)
(* NULL.  dynamicArrOne.c gives the slots out counting from 1, so that 0   *)
(* stands for no slot: the operators that end in One.                      *)
(***************************************************************************)
EXTENDS Integers, FiniteSets, FiniteSetsExt

CONSTANT Empty   \* the content of a slot that holds no item

\* DynamicArr__init
EmptyArr == [item |-> [i \in 0..3 |-> Empty], alloced |-> 0, length |-> 4,
             tail |-> 0]

Occupied(da) == {i \in 0..(da.length - 1) : da.item[i] # Empty}

\* The slots double when all but two are in use.
GrowArr(da) ==
  [da EXCEPT !.length = 2 * @,
             !.item = [i \in 0..(2 * da.length - 1) |->
                         IF i < da.length THEN da.item[i] ELSE Empty]]

\* The first empty slot from tail on, round the array: where the while loop
\* of DynamicArr__alloc stops.
FreeSlot(da) ==
  LET slot(k) == (da.tail + k) % da.length
  IN  slot(Min({k \in 0..(da.length - 1) : da.item[slot(k)] = Empty}))

\* DynamicArr__incTail
IncTail(da, i) == (i + 1) % da.length

\* DynamicArr__alloc and DynamicArr__add: the slot taken and the array after.
ArrAdd(da, x) ==
  LET d == IF da.alloced = da.length - 2 THEN GrowArr(da) ELSE da
      slot == FreeSlot(d)
  IN  [id |-> slot,
       arr |-> [d EXCEPT !.item[slot] = x, !.alloced = @ + 1,
                         !.tail = IncTail(d, slot)]]

\* Mutant of ArrDel: the count of items stays.
ArrDelUncounted(da, i) == [da EXCEPT !.item[i] = Empty]

\* DynamicArr__del of a slot in use; of another it changes nothing.
ArrDel(da, i) ==
  IF da.item[i] = Empty THEN da
  ELSE [da EXCEPT !.item[i] = Empty, !.alloced = @ - 1]

-----------------------------------------------------------------------------
(* dynamicArrOne.c *)

Ids(da) == {i + 1 : i \in Occupied(da)}

AddOne(da, x) == LET r == ArrAdd(da, x) IN [r EXCEPT !.id = @ + 1]

\* DynamicArrOne__get; NULL for id 0 and for a slot not in use.
GetOne(da, id) == IF id = 0 THEN Empty ELSE da.item[id - 1]

DelOne(da, id) == IF id = 0 THEN da ELSE ArrDel(da, id - 1)
=============================================================================
