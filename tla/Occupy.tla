------------------------------- MODULE Occupy -------------------------------
(***************************************************************************)
(* The bit table of occupy.c as operators on a record                      *)
(*   [free, data, occupied, size, tail].                                   *)
(* Positions count from 1; position p is bit (p-1) % SLOT_SIZE of word     *)
(* (p-1) \div SLOT_SIZE.  `free` holds the positions whose bit is set in   *)
(* oct->occupy, `data` those whose bit is set in oct->data.  SLOT_SIZE is  *)
(* 64 in the program.  `occupied` is an unsigned counter that wraps below  *)
(* zero; it is only compared for equality with size - 2, so an integer     *)
(* stands for it.                                                          *)
(***************************************************************************)
EXTENDS Integers, FiniteSetsExt

CONSTANT SLOT_SIZE

ASSUME SlotSizeAssumption == SLOT_SIZE \in Nat /\ SLOT_SIZE > 2

(***************************************************************************)
(* Occupy__init leaves oct->tail unset; a table of one word is probed at   *)
(* word 0 whatever it holds.                                               *)
(***************************************************************************)
EmptyTable(tail) ==
  [free |-> 1..SLOT_SIZE, data |-> {}, occupied |-> 0, size |-> SLOT_SIZE,
   tail |-> tail]

\* Mutant of Resize: the table is allocated anew instead of reallocated.
ResizeForgets(oct) ==
  [oct EXCEPT !.size = 2 * @, !.free = @ \cup ((oct.size + 1)..(2 * oct.size)),
              !.data = {}]

\* __Occupy__resize: twice the words, the new ones free and with no data.
Resize(oct) ==
  LET added == (oct.size + 1)..(2 * oct.size)
  IN  [oct EXCEPT !.size = 2 * @, !.free = @ \cup added, !.data = @ \ added]

\* The free positions of a word.
FreeInWord(oct, word) ==
  oct.free \cap ((word * SLOT_SIZE + 1)..((word + 1) * SLOT_SIZE))

\* The word Occupy__alloc looks at in round i of its loop.
Probe(oct, i) == ((i * SLOT_SIZE + oct.tail) % oct.size) \div SLOT_SIZE

\* Mutant of NearlyFull: grow when no position is left.
Full(oct) == oct.occupied = oct.size

\* The test on which Occupy__alloc grows the table.
NearlyFull(oct) == oct.occupied = oct.size - 2

(***************************************************************************)
(* Occupy__alloc: grow when two positions are left by the count, then take *)
(* the lowest free position of the first word, from that of `tail` on,     *)
(* that has one.  The position is 0 when no word has.                      *)
(***************************************************************************)
Alloc(oct) ==
  LET table  == IF NearlyFull(oct) THEN Resize(oct) ELSE oct
      rounds == {i \in 0..(table.size \div SLOT_SIZE - 1) :
                   FreeInWord(table, Probe(table, i)) # {}}
      pos    == Min(FreeInWord(table, Probe(table, Min(rounds))))
  IN  IF rounds = {}
      THEN [oct |-> table, pos |-> 0]
      ELSE [oct |-> [table EXCEPT !.free = @ \ {pos}, !.occupied = @ + 1,
                                  !.tail = pos],
            pos |-> pos]

\* Mutant of BitOf: the bit next to the one that was allocated.
NextBit(pos) == pos + 1

(***************************************************************************)
(* The position whose bit `1UL << (pos % SLOT_SIZE - 1)` of word           *)
(* `pos / SLOT_SIZE` is.  At a multiple of SLOT_SIZE the shift count is    *)
(* -1, which the processor takes as SLOT_SIZE - 1: the last bit of the     *)
(* word after the one Occupy__alloc took the position from.                *)
(***************************************************************************)
BitOf(pos) == IF pos % SLOT_SIZE = 0 THEN pos + SLOT_SIZE ELSE pos

\* Occupy__del.  A bit beyond the table's words changes none of them, and
\* __Occupy__resize sets every word it adds.
Del(oct, pos) ==
  [oct EXCEPT !.occupied = @ - 1,
              !.free = IF BitOf(pos) \in 1..oct.size THEN @ \cup {BitOf(pos)}
                                                     ELSE @]

(***************************************************************************)
(* What Occupy__get may return.  Beyond the table's words the bit is that  *)
(* of memory nobody has written: either value.                             *)
(***************************************************************************)
GetResults(oct, pos) ==
  IF pos > oct.size THEN {-1}
  ELSE IF BitOf(pos) > oct.size THEN {0, 1}
  ELSE IF BitOf(pos) \in oct.data THEN {1} ELSE {0}

\* Occupy__set(oct, pos, val): is the bit taken as allocated, and the table
\* after the call.
Settable(oct, pos) == pos <= oct.size /\ BitOf(pos) \notin oct.free

Set(oct, pos, val) ==
  IF ~ Settable(oct, pos) \/ BitOf(pos) > oct.size THEN oct
  ELSE [oct EXCEPT !.data = IF val > 0 THEN @ \cup {BitOf(pos)}
                                       ELSE @ \ {BitOf(pos)}]
=============================================================================
