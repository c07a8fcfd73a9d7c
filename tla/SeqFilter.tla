------------------------------ MODULE SeqFilter ------------------------------
(***************************************************************************)
(* Part of a sequence, by a recursive function: SelectSeq, which takes an  *)
(* operator, cannot be proved about.                                       *)
(***************************************************************************)
EXTENDS Integers, Sequences

\* The items of s that are in P, in their order.
Among(s, P) ==
  LET kept[i \in 0..Len(s)] ==
        IF i = 0 THEN <<>>
        ELSE IF s[i] \in P THEN Append(kept[i - 1], s[i]) ELSE kept[i - 1]
  IN  kept[Len(s)]
=============================================================================
