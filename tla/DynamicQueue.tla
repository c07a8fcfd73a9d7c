---------------------------- MODULE DynamicQueue ----------------------------
(***************************************************************************)
(* A queue of dynamicQ.c and its client: it enqueues, dequeues, walks the  *)
(* queue with DynamicQ__foreach (each round dequeues the first item after  *)
(* its callback returned) and filters it, one item at a time.              *)
(***************************************************************************)
EXTENDS DynamicQ, SeqFilter

CONSTANT MaxItems    \* bound: the items in the queue at a time

ASSUME MaxItemsAssumption == MaxItems \in Nat

VARIABLES
  dq,        \* the queue
  new,       \* the queue DynamicQ__filter is building
  passing,   \* the items for which the filter's cmp is true
  filtering, \* DynamicQ__filter has been called and has not returned
  expected   \* what it shall return

vars == <<dq, new, passing, filtering, expected>>

TypeOK == /\ IsQueue(dq) /\ IsQueue(new)
          /\ passing \subseteq Item /\ filtering \in BOOLEAN

Init == /\ dq = EmptyQ /\ new = EmptyQ
        /\ passing = {} /\ filtering = FALSE /\ expected = <<>>

Add(x) == /\ ~ filtering /\ dq.alloced < MaxItems
          /\ dq' = EnQueue(dq, x)
          /\ UNCHANGED <<new, passing, filtering, expected>>

Remove == /\ ~ filtering
          /\ dq' = DeQueue(dq)
          /\ UNCHANGED <<new, passing, filtering, expected>>

BeginFilter(pass) ==
  /\ ~ filtering
  /\ filtering' = TRUE /\ passing' = pass /\ new' = EmptyQ
  /\ expected' = Among(Items(dq), pass)
  /\ UNCHANGED dq

FilterStep ==
  /\ filtering /\ ~ IsEmpty(dq)
  /\ new' = IF First(dq) \in passing THEN EnQueue(new, First(dq)) ELSE new
  /\ dq' = DeQueue(dq)
  /\ UNCHANGED <<passing, filtering, expected>>

\* The old queue is freed, the caller goes on with the new one.
EndFilter ==
  /\ filtering /\ IsEmpty(dq)
  /\ dq' = new /\ new' = EmptyQ
  /\ passing' = {} /\ filtering' = FALSE /\ expected' = <<>>

Next ==
  \/ \E x \in Item : Add(x)
  \/ Remove
  \/ \E pass \in SUBSET Item : BeginFilter(pass)
  \/ FilterStep
  \/ EndFilter

Spec == Init /\ [][Next]_vars
-----------------------------------------------------------------------------
(***************************************************************************)
(* Both queues keep two cells free and their tail behind their last item,  *)
(* however the array has grown and wrapped.  With a full array tail would  *)
(* equal head, and enQueue could not tell whether the items wrap.          *)
(***************************************************************************)
QueuesWellFormed == TypeOK /\ WellFormed(dq) /\ WellFormed(new)

Fifos == INSTANCE Fifo WITH queue <- Items(dq), kept <- Items(new)

(***************************************************************************)
(* The queues behave as first-in first-out queues of items: no item is     *)
(* lost, repeated, overtaken or made up when the array doubles.            *)
(***************************************************************************)
ImplementsFifo == Fifos!Spec

(***************************************************************************)
(* DynamicQ__filter returns the items of its argument that pass, in order. *)
(***************************************************************************)
FilterReturnsPassing ==
  filtering => expected = Items(new) \o Among(Items(dq), passing)
=============================================================================
