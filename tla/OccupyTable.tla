---------------------------- MODULE OccupyTable ----------------------------
(***************************************************************************)
(* A bit table (occupy.c) and its clients: they allocate positions, set    *)
(* the data bit of the positions they hold and give them back, each at     *)
(* most as often as it was handed out.                                     *)
(***************************************************************************)
EXTENDS Occupy

CONSTANTS
  MaxSize,      \* bound: no allocation that would grow the table further
  MaxOccupied,  \* bound: no allocation when the table counts so many
  MaxLost,      \* bound: no Occupy__del that frees nothing beyond so many
  BitPosition   \* bound: the positions whose data bit clients set

ASSUME BoundAssumption ==
  /\ MaxSize \in Nat /\ MaxSize >= SLOT_SIZE
  /\ MaxOccupied \in Nat /\ MaxLost \in Nat
  /\ BitPosition \subseteq 1..MaxSize

VARIABLES
  oct,      \* the table
  holders,  \* how many clients hold each position
  wanted,   \* the value last given to Occupy__set by the present holders
  lost      \* how many Occupy__del calls made no position free

vars == <<oct, holders, wanted, lost>>

Position == 1..MaxSize
Unset == -1

TypeOK ==
  /\ oct.size \in {SLOT_SIZE * k : k \in 1..(MaxSize \div SLOT_SIZE)}
  /\ oct.free \subseteq 1..oct.size
  /\ oct.data \subseteq 1..oct.size
  /\ oct.occupied \in 0..(oct.size - 2)
  /\ oct.tail \in 0..oct.size
  /\ holders \in [Position -> Nat]
  /\ wanted \in [BitPosition -> {Unset, 0, 1}]
  /\ lost \in Nat

Init ==
  /\ \E tail \in 0..1 : oct = EmptyTable(tail)
  /\ holders = [p \in Position |-> 0]
  /\ wanted = [p \in BitPosition |-> Unset]
  /\ lost = 0

Forget(p) ==
  [q \in BitPosition |-> IF q = p THEN Unset ELSE wanted[q]]

MayGrow == NearlyFull(oct) => 2 * oct.size <= MaxSize

Take ==
  LET r == Alloc(oct)
  IN  /\ MayGrow /\ oct.occupied < MaxOccupied
      /\ r.pos # 0
      /\ oct' = r.oct
      /\ holders' = [holders EXCEPT ![r.pos] = @ + 1]
      /\ wanted' = Forget(r.pos)
      /\ UNCHANGED lost

Release(p) ==
  /\ holders[p] > 0
  /\ oct' = Del(oct, p)
  /\ holders' = [holders EXCEPT ![p] = @ - 1]
  /\ wanted' = Forget(p)
  /\ lost' = IF oct'.free = oct.free THEN lost + 1 ELSE lost
  /\ lost' <= MaxLost

SetBit(p, val) ==
  /\ holders[p] > 0
  /\ oct' = Set(oct, p, val)
  /\ wanted' = [wanted EXCEPT ![p] = val]
  /\ UNCHANGED <<holders, lost>>

Next ==
  \/ Take
  \/ \E p \in Position : Release(p)
  \/ \E p \in BitPosition, val \in {0, 1} : SetBit(p, val)

Spec == Init /\ [][Next]_vars
-----------------------------------------------------------------------------
InLastBit(p) == p % SLOT_SIZE = 0

(***************************************************************************)
(* Occupy__alloc hands a position to one holder at a time, and never one   *)
(* it has marked free: except for the last bit of a word, where the shift  *)
(* by -1 of Occupy__del frees the last bit of the next word instead.       *)
(***************************************************************************)
HeldByOne ==
  \A p \in Position : holders[p] > 0 /\ ~ InLastBit(p)
                      => holders[p] = 1 /\ p \notin oct.free

(***************************************************************************)
(* A bit that Occupy__set gave a held position is what Occupy__get         *)
(* returns, through growth of the table and whatever is done to other      *)
(* positions: except for the last bit of a word.                           *)
(***************************************************************************)
BitsKept ==
  \A p \in BitPosition :
    holders[p] > 0 /\ wanted[p] # Unset /\ ~ InLastBit(p)
    => GetResults(oct, p) = {wanted[p]}

(***************************************************************************)
(* Occupy__alloc doubles the table before it is full, so it finds a        *)
(* position as long as fewer than three calls of Occupy__del were lost on  *)
(* last bits; no other history of calls makes it answer 0.  (The types     *)
(* bound the count it goes by.)                                            *)
(***************************************************************************)
AllocServes == TypeOK /\ (MayGrow /\ lost < 3 => Alloc(oct).pos # 0)
=============================================================================
