-------------------------------- MODULE Fifo --------------------------------
(***************************************************************************)
(* What dynamicQ.c promises: items leave a queue in the order they         *)
(* entered it, none lost, none twice.  A filter moves the items that pass, *)
(* in order, from one queue to a new one that then replaces it.            *)
(***************************************************************************)
EXTENDS Sequences

CONSTANT Item

VARIABLES
  queue,  \* the queue clients use
  kept    \* the queue a filter is building

vars == <<queue, kept>>

TypeOK == queue \in Seq(Item) /\ kept \in Seq(Item)

Init == queue = <<>> /\ kept = <<>>

Enter(x) == queue' = Append(queue, x) /\ UNCHANGED kept

Leave == queue # <<>> /\ queue' = Tail(queue) /\ UNCHANGED kept

Keep == /\ queue # <<>>
        /\ kept' = Append(kept, Head(queue))
        /\ queue' = Tail(queue)

Replace == queue = <<>> /\ queue' = kept /\ kept' = <<>>

Next == (\E x \in Item : Enter(x)) \/ Leave \/ Keep \/ Replace

Spec == Init /\ [][Next]_vars
=============================================================================
