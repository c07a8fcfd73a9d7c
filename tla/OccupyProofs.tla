---------------------------- MODULE OccupyProofs ----------------------------
(***************************************************************************)
(* A position of the bit table of occupy.c has one holder and keeps its    *)
(* bit, the last of each word apart: for every word size and every number  *)
(* of words.                                                               *)
(***************************************************************************)
EXTENDS OccupyTable, OccupyLemmas

\* Del marks free the position it is given, or the last of another word.
LEMMA DelFields ==
  ASSUME NEW t \in Table, t.free \subseteq 1..t.size, NEW p \in 1..t.size
  PROVE  /\ Del(t, p) \in Table
         /\ Del(t, p).free \subseteq 1..t.size
         /\ Del(t, p).size = t.size /\ Del(t, p).data = t.data
         /\ \A q \in Nat : ~ InLastBit(q) /\ q # p
                        => (q \in Del(t, p).free <=> q \in t.free)
<1> DEFINE b == BitOf(p)
           F == IF b \in 1..t.size THEN t.free \cup {b} ELSE t.free
           n == t.occupied - 1
<1>1. Del(t, p) = [t EXCEPT !.occupied = n, !.free = F]
  BY DEF Del
<1>2. b \in Nat /\ \A q \in Nat : q = b /\ q # p => InLastBit(q)
  BY SlotSizeAssumption, LastBitMoves DEF BitOf, InLastBit, Table
<1> HIDE DEF b
<1>3. n \in Int /\ F \in SUBSET Nat /\ F \subseteq 1..t.size
  BY <1>2 DEF Table
<1>4. \A q \in Nat : ~ InLastBit(q) /\ q # p => (q \in F <=> q \in t.free)
  BY <1>2
<1> HIDE DEF F, n
<1>5. Del(t, p) = [free |-> F, data |-> t.data, occupied |-> n,
                   size |-> t.size, tail |-> t.tail]
  BY <1>1 DEF Table
<1>6. Del(t, p) \in Table
  BY <1>3, <1>5 DEF Table
<1> QED BY <1>3, <1>4, <1>5, <1>6

-----------------------------------------------------------------------------
(***************************************************************************)
(* The inductive invariant.  Held positions are inside the table, so that  *)
(* the words it grows by belong to nobody.                                 *)
(***************************************************************************)
TypeInv ==
  /\ oct \in Table /\ oct.free \subseteq 1..oct.size
  /\ holders \in [Position -> Nat]
  /\ wanted \in [BitPosition -> {Unset, 0, 1}]

HeldInside == \A p \in Position : holders[p] > 0 => p <= oct.size

IInv == TypeInv /\ HeldInside /\ HeldByOne /\ BitsKept

\* The table Occupy__init makes has no holder.
LEMMA InitIInv == Init => IInv
<1> SUFFICES ASSUME Init PROVE IInv
  OBVIOUS
<1>1. PICK tail \in 0..1 : oct = EmptyTable(tail)
  BY DEF Init
<1>2. TypeInv
  BY <1>1, SlotSizeAssumption DEF Init, TypeInv, Table, EmptyTable, Unset
<1>3. \A p \in Position : holders[p] = 0
  BY DEF Init
<1>4. HeldInside /\ HeldByOne
  BY <1>3 DEF HeldInside, HeldByOne
<1>5. BitPosition \subseteq Position
  BY BoundAssumption DEF Position
<1>6. BitsKept
  BY <1>3, <1>5 DEF BitsKept
<1> QED BY <1>2, <1>4, <1>6 DEF IInv

\* Occupy__alloc: the position it answers had no holder, for it was free or new.
LEMMA TakeKeeps == IInv /\ Take => IInv'
<1> SUFFICES ASSUME IInv, Take PROVE IInv'
  OBVIOUS
<1> DEFINE pos == Alloc(oct).pos
           t == Searched(oct)
<1>1. /\ oct \in Table /\ oct.free \subseteq 1..oct.size /\ pos # 0
      /\ holders \in [Position -> Nat]
      /\ wanted \in [BitPosition -> {Unset, 0, 1}]
      /\ BitPosition \subseteq Position
  BY BoundAssumption DEF IInv, TypeInv, Take, Position
<1>2. /\ t \in Table /\ t.free \subseteq 1..t.size /\ oct.size <= t.size
      /\ \A p \in 1..oct.size : /\ p \in t.free <=> p \in oct.free
                                /\ p \in t.data <=> p \in oct.data
  BY <1>1, SearchedFields
<1>3. /\ pos \in t.free
      /\ oct' = [free |-> t.free \ {pos}, data |-> t.data,
                 occupied |-> t.occupied + 1, size |-> t.size, tail |-> pos]
  BY <1>1, AllocTakesFree DEF Take
<1>4. holders' = [holders EXCEPT ![pos] = @ + 1] /\ wanted' = Forget(pos)
  BY DEF Take
<1>5. /\ oct.size \in Nat /\ t.size \in Nat /\ t.occupied \in Int
      /\ t.data \subseteq Nat /\ t.free \subseteq Nat
  BY <1>1, <1>2 DEF Table
<1> HIDE DEF pos, t
<1>6. TypeInv'
  <2>1. oct' \in Table /\ oct'.free \subseteq 1..oct'.size
    BY <1>2, <1>3, <1>5 DEF Table
  <2>2. holders' \in [Position -> Nat]
    <3>1. /\ holders' = [q \in Position |-> IF q = pos THEN holders[q] + 1
                                                       ELSE holders[q]]
          /\ \A q \in Position : holders[q] \in Nat
      BY <1>1, <1>4
    <3> QED BY <3>1
  <2>3. wanted' \in [BitPosition -> {Unset, 0, 1}]
    BY <1>1, <1>4 DEF Forget
  <2> QED BY <2>1, <2>2, <2>3 DEF TypeInv
<1>7. HeldInside'
  BY <1>1, <1>2, <1>3, <1>4, <1>5 DEF IInv, HeldInside, Position
<1>8. HeldByOne'
  <2> SUFFICES ASSUME NEW p \in Position, holders'[p] > 0, ~ InLastBit(p)
               PROVE  holders'[p] = 1 /\ p \notin oct'.free
    BY DEF HeldByOne, InLastBit
  <2>1. CASE p = pos
    <3>1. holders[p] = 0
      <4>1. holders[p] > 0 => p \in 1..oct.size /\ p \notin oct.free
        BY <1>5 DEF IInv, HeldInside, HeldByOne, Position
      <4> QED BY <1>1, <1>2, <1>3, <2>1, <4>1
    <3> QED BY <1>1, <1>3, <1>4, <2>1, <3>1
  <2>2. CASE p # pos
    <3>1. holders'[p] = holders[p] /\ p \in 1..oct.size /\ p \notin oct.free
      BY <1>1, <1>4, <1>5, <2>2 DEF IInv, HeldInside, HeldByOne, Position
    <3>2. holders[p] = 1
      BY <3>1 DEF IInv, HeldByOne
    <3> QED BY <1>2, <1>3, <3>1, <3>2
  <2> QED BY <2>1, <2>2
<1>9. BitsKept'
  <2> SUFFICES ASSUME NEW p \in BitPosition, holders'[p] > 0,
                      wanted'[p] # Unset, ~ InLastBit(p)
               PROVE  GetResults(oct', p) = {wanted'[p]}
    BY DEF BitsKept, InLastBit
  <2>1. p # pos /\ wanted'[p] = wanted[p]
    BY <1>4 DEF Forget
  <2>2. p \in Position /\ holders[p] > 0 /\ p \in 1..oct.size
    BY <1>1, <1>4, <1>5, <2>1 DEF IInv, HeldInside, Position
  <2>3. GetResults(oct, p) = {wanted[p]}
    BY <2>1, <2>2 DEF IInv, BitsKept
  <2>4. BitOf(p) = p
    BY DEF BitOf, InLastBit
  <2>5. ~ (p > oct.size) /\ ~ (p > t.size) /\ p \in Nat
    BY <1>2, <1>5, <2>2
  <2>6. GetResults(oct', p) = GetResults(oct, p)
    BY <1>2, <1>3, <2>2, <2>4, <2>5 DEF GetResults
  <2> QED BY <2>1, <2>3, <2>6
<1> QED BY <1>6, <1>7, <1>8, <1>9 DEF IInv

\* Occupy__del: what it frees is the position itself or the last of a word.
LEMMA ReleaseKeeps ==
  ASSUME IInv, NEW pos \in Position, Release(pos)
  PROVE  IInv'
<1>1. /\ oct \in Table /\ oct.free \subseteq 1..oct.size /\ oct.size \in Nat
      /\ holders \in [Position -> Nat]
      /\ wanted \in [BitPosition -> {Unset, 0, 1}]
      /\ BitPosition \subseteq Position
  BY BoundAssumption DEF IInv, TypeInv, Position, Table
<1>2. holders[pos] > 0 /\ pos \in 1..oct.size
  BY <1>1 DEF Release, IInv, HeldInside, Position
<1>3. /\ oct' \in Table /\ oct'.free \subseteq 1..oct.size
      /\ oct'.size = oct.size /\ oct'.data = oct.data
      /\ \A q \in Nat : ~ InLastBit(q) /\ q # pos
                        => (q \in oct'.free <=> q \in oct.free)
  BY <1>1, <1>2, DelFields DEF Release
<1>4. /\ holders' = [q \in Position |-> IF q = pos THEN holders[q] - 1
                                                   ELSE holders[q]]
      /\ wanted' = Forget(pos)
      /\ \A q \in Position : holders[q] \in Nat
  BY <1>1 DEF Release
<1>5. TypeInv'
  <2>1. holders' \in [Position -> Nat]
    BY <1>2, <1>4
  <2>2. wanted' \in [BitPosition -> {Unset, 0, 1}]
    BY <1>1, <1>4 DEF Forget
  <2> QED BY <1>3, <2>1, <2>2 DEF TypeInv
<1>6. HeldInside'
  BY <1>1, <1>3, <1>4 DEF IInv, HeldInside
<1>7. HeldByOne'
  <2> SUFFICES ASSUME NEW p \in Position, holders'[p] > 0, ~ InLastBit(p)
               PROVE  holders'[p] = 1 /\ p \notin oct'.free
    BY DEF HeldByOne, InLastBit
  <2>1. holders[p] = 1 /\ p \notin oct.free
    BY <1>4 DEF IInv, HeldByOne
  <2>2. p # pos /\ holders'[p] = 1
    BY <1>4, <2>1
  <2> QED BY <1>3, <2>1, <2>2 DEF Position
<1>8. BitsKept'
  <2> SUFFICES ASSUME NEW p \in BitPosition, holders'[p] > 0,
                      wanted'[p] # Unset, ~ InLastBit(p)
               PROVE  GetResults(oct', p) = {wanted'[p]}
    BY DEF BitsKept, InLastBit
  <2>1. p # pos /\ wanted'[p] = wanted[p]
    BY <1>4 DEF Forget
  <2>2. p \in Position /\ holders[p] > 0
    BY <1>1, <1>4, <2>1
  <2>3. GetResults(oct, p) = {wanted[p]}
    BY <2>1, <2>2 DEF IInv, BitsKept
  <2>4. GetResults(oct', p) = GetResults(oct, p)
    BY <1>3 DEF GetResults
  <2> QED BY <2>1, <2>3, <2>4
<1> QED BY <1>5, <1>6, <1>7, <1>8 DEF IInv

\* Occupy__set: what it writes is the position itself or the last of a word.
LEMMA SetBitKeeps ==
  ASSUME IInv, NEW pos \in BitPosition, NEW val \in {0, 1}, SetBit(pos, val)
  PROVE  IInv'
<1>1. /\ oct \in Table /\ oct.free \subseteq 1..oct.size /\ oct.size \in Nat
      /\ wanted \in [BitPosition -> {Unset, 0, 1}]
      /\ BitPosition \subseteq Position /\ Position \subseteq Nat
  BY BoundAssumption DEF IInv, TypeInv, Position, Table
<1>2. /\ oct' = Set(oct, pos, val) /\ holders' = holders
      /\ wanted' = [wanted EXCEPT ![pos] = val] /\ holders[pos] > 0
  BY DEF SetBit
<1>3. BitOf(pos) \in Nat
  BY <1>1, SlotSizeAssumption DEF BitOf
<1>4. /\ oct' \in Table /\ oct'.size = oct.size /\ oct'.free = oct.free
      /\ \A q \in Nat : q # BitOf(pos)
                        => (q \in oct'.data <=> q \in oct.data)
      /\ ~ InLastBit(pos) => (pos \in oct'.data <=> val = 1)
  <2>1. CASE ~ Settable(oct, pos) \/ BitOf(pos) > oct.size
    <3>1. oct' = oct
      BY <1>2, <2>1 DEF Set
    <3>2. InLastBit(pos)
      <4>1. SUFFICES ASSUME ~ InLastBit(pos) PROVE FALSE
        OBVIOUS
      <4>2. BitOf(pos) = pos /\ pos \in Position
        BY <1>1, <4>1 DEF BitOf, InLastBit
      <4>3. pos <= oct.size /\ pos \notin oct.free
        BY <1>2, <4>1, <4>2 DEF IInv, HeldInside, HeldByOne
      <4> QED BY <1>1, <2>1, <4>2, <4>3 DEF Settable
    <3> QED BY <1>1, <3>1, <3>2
  <2>2. CASE ~ (~ Settable(oct, pos) \/ BitOf(pos) > oct.size)
    <3> DEFINE b == BitOf(pos)
               D == IF val > 0 THEN oct.data \cup {b} ELSE oct.data \ {b}
    <3>1. oct' = [oct EXCEPT !.data = D]
      BY <1>2, <2>2 DEF Set
    <3>2. D \in SUBSET Nat
      BY <1>1, <1>3 DEF Table
    <3>3. /\ \A q \in Nat : q # b => (q \in D <=> q \in oct.data)
          /\ b \in D <=> val = 1
      OBVIOUS
    <3>4. ~ InLastBit(pos) => b = pos
      BY DEF BitOf, InLastBit
    <3> HIDE DEF D, b
    <3>5. oct' = [free |-> oct.free, data |-> D, occupied |-> oct.occupied,
                  size |-> oct.size, tail |-> oct.tail]
      BY <1>1, <3>1 DEF Table
    <3>6. oct' \in Table
      BY <1>1, <3>2, <3>5 DEF Table
    <3> QED BY <3>3, <3>4, <3>5, <3>6 DEF b
  <2> QED BY <2>1, <2>2
<1>5. TypeInv'
  BY <1>1, <1>2, <1>4 DEF IInv, TypeInv
<1>6. HeldInside' /\ HeldByOne'
  BY <1>2, <1>4 DEF IInv, HeldInside, HeldByOne
<1>7. BitsKept'
  <2> SUFFICES ASSUME NEW p \in BitPosition, holders'[p] > 0,
                      wanted'[p] # Unset, ~ InLastBit(p)
               PROVE  GetResults(oct', p) = {wanted'[p]}
    BY DEF BitsKept, InLastBit
  <2>1. BitOf(p) = p /\ p \in Nat /\ p <= oct.size /\ ~ (p > oct.size)
    BY <1>1, <1>2 DEF IInv, HeldInside, BitOf, InLastBit
  <2>2. CASE p = pos
    <3>1. wanted'[p] = val
      BY <1>1, <1>2, <2>2
    <3>2. p \in oct'.data <=> val = 1
      BY <1>4, <2>2
    <3> QED BY <1>4, <2>1, <3>1, <3>2 DEF GetResults
  <2>3. CASE p # pos
    <3>1. wanted'[p] = wanted[p]
      BY <1>1, <1>2, <2>3
    <3>2. GetResults(oct, p) = {wanted[p]}
      BY <1>1, <1>2, <3>1 DEF IInv, BitsKept
    <3>3. p # BitOf(pos)
      <4>1. InLastBit(pos) => InLastBit(BitOf(pos))
        BY <1>1, LastBitMoves DEF InLastBit, BitOf
      <4>2. ~ InLastBit(pos) => BitOf(pos) = pos
        BY DEF InLastBit, BitOf
      <4> QED BY <2>3, <4>1, <4>2
    <3>4. p \in oct'.data <=> p \in oct.data
      BY <1>4, <2>1, <3>3
    <3> QED BY <1>4, <2>1, <3>1, <3>2, <3>4 DEF GetResults
  <2> QED BY <2>2, <2>3
<1> QED BY <1>5, <1>6, <1>7 DEF IInv

\* Every step keeps the invariant.
LEMMA NextIInv == IInv /\ [Next]_vars => IInv'
<1> SUFFICES ASSUME IInv, [Next]_vars PROVE IInv'
  OBVIOUS
<1>1. CASE Take
  BY <1>1, TakeKeeps
<1>2. CASE \E p \in Position : Release(p)
  BY <1>2, ReleaseKeeps
<1>3. CASE \E p \in BitPosition, val \in {0, 1} : SetBit(p, val)
  BY <1>3, SetBitKeeps
<1>4. CASE UNCHANGED vars
  BY <1>4 DEF vars, IInv, TypeInv, HeldInside, HeldByOne, BitsKept
<1> QED BY <1>1, <1>2, <1>3, <1>4 DEF Next

\* The invariant holds throughout.
LEMMA InvariantHolds == Spec => []IInv
BY InitIInv, NextIInv, PTL DEF Spec

(***************************************************************************)
(* Occupy__alloc gives a position that is not the last of a word to one    *)
(* holder at a time, and no history of calls marks a held one free.        *)
(***************************************************************************)
THEOREM OneHolder == Spec => []HeldByOne
<1>1. IInv => HeldByOne
  BY DEF IInv
<1> QED BY <1>1, InvariantHolds, PTL

(***************************************************************************)
(* Occupy__get answers the bit Occupy__set was last given for a held       *)
(* position that is not the last of a word, through every growth.          *)
(***************************************************************************)
THEOREM BitsStay == Spec => []BitsKept
<1>1. IInv => BitsKept
  BY DEF IInv
<1> QED BY <1>1, InvariantHolds, PTL

-----------------------------------------------------------------------------
(* The counts *)

\* What clients hold: a position as often as it was handed out.
Handed(held) == UNION {{p} \X (1..held[p]) : p \in Position}

(***************************************************************************)
(* The second inductive invariant: the table counts what is handed out,    *)
(* and its bits and its last position lie inside.                          *)
(***************************************************************************)
CountInv ==
  /\ lost \in Nat /\ Counted(oct, lost)
  /\ IsFiniteSet(Handed(holders))
  /\ Cardinality(Handed(holders)) = oct.occupied
  /\ oct.size <= MaxSize /\ oct.tail \in 0..oct.size
  /\ oct.data \subseteq 1..oct.size

\* What is handed out, one by one.
LEMMA HandedHas ==
  ASSUME NEW held, NEW p \in Position, NEW i \in Nat
  PROVE  <<p, i>> \in Handed(held) <=> i \in 1..held[p]
BY DEF Handed

\* Everything handed out is such a pair.
LEMMA HandedIsPair ==
  ASSUME NEW held, NEW h \in Handed(held)
  PROVE  \E p \in Position, i \in Nat : h = <<p, i>>
<1>1. PICK p \in Position : h \in {p} \X (1..held[p])
  BY DEF Handed
<1>2. h = <<p, h[2]>> /\ h[2] \in 1..held[p] /\ h[2] \in Nat
  BY <1>1
<1> QED BY <1>2

\* A position that is handed out once more is one thing more to hold.
LEMMA OneMore ==
  ASSUME NEW held \in [Position -> Nat], NEW pos \in Position
  PROVE  LET more == [held EXCEPT ![pos] = @ + 1]
             last == <<pos, held[pos] + 1>>
         IN  /\ Handed(more) = Handed(held) \cup {last}
             /\ last \notin Handed(held)
             /\ Handed(held) = Handed(more) \ {last}
<1> DEFINE more == [held EXCEPT ![pos] = @ + 1]
           last == <<pos, held[pos] + 1>>
<1>1. held[pos] \in Nat /\ more[pos] = held[pos] + 1
  OBVIOUS
<1>2. \A p \in Position : p # pos => more[p] = held[p]
  OBVIOUS
<1>3. last \notin Handed(held)
  BY <1>1, HandedHas
<1> HIDE DEF more
<1>4. ASSUME NEW p \in Position, NEW i \in Nat
      PROVE  <<p, i>> \in Handed(more) <=> <<p, i>> \in Handed(held)
                                           \/ <<p, i>> = last
  <2>1. <<p, i>> \in Handed(more) <=> i \in 1..more[p]
    BY HandedHas
  <2>2. <<p, i>> \in Handed(held) <=> i \in 1..held[p]
    BY HandedHas
  <2>3. CASE p = pos
    BY <1>1, <2>1, <2>2, <2>3
  <2>4. CASE p # pos
    BY <1>2, <2>1, <2>2, <2>4
  <2> QED BY <2>3, <2>4
<1>5. \A h \in Handed(more) : \E p \in Position, i \in Nat : h = <<p, i>>
  BY HandedIsPair
<1>6. \A h \in Handed(held) : \E p \in Position, i \in Nat : h = <<p, i>>
  BY HandedIsPair
<1>7. Handed(more) = Handed(held) \cup {last}
  BY <1>1, <1>4, <1>5, <1>6
<1> QED BY <1>3, <1>7 DEF more

\* An empty table counts nothing.
LEMMA InitCounts == Init => CountInv
<1> SUFFICES ASSUME Init PROVE CountInv
  OBVIOUS
<1>1. PICK tail \in 0..1 : oct = EmptyTable(tail)
  BY DEF Init
<1>2. SLOT_SIZE \in Nat /\ SLOT_SIZE > 2 /\ SLOT_SIZE <= MaxSize /\ MaxSize \in Nat
  BY SlotSizeAssumption, BoundAssumption
<1>3. /\ oct.free = 1..SLOT_SIZE /\ oct.data = {} /\ oct.occupied = 0
      /\ oct.size = SLOT_SIZE /\ oct.tail = tail
  BY <1>1 DEF EmptyTable
<1>4. lost = 0 /\ \A p \in Position : holders[p] = 0
  BY DEF Init
<1>5. Handed(holders) = {}
  BY <1>4 DEF Handed
<1>6. Cardinality(1..SLOT_SIZE) = SLOT_SIZE
  <2>1. 1 \in Int /\ SLOT_SIZE \in Int
    BY <1>2
  <2>2. Cardinality(1..SLOT_SIZE)
          = IF 1 > SLOT_SIZE THEN 0 ELSE SLOT_SIZE - 1 + 1
    BY <2>1, FS_Interval
  <2> QED BY <1>2, <2>2
<1>7. Counted(oct, lost)
  <2>1. SLOT_SIZE = SLOT_SIZE * 1
    BY <1>2
  <2> QED BY <1>2, <1>3, <1>4, <1>6, <2>1 DEF Counted
<1>8. IsFiniteSet(Handed(holders)) /\ Cardinality(Handed(holders)) = 0
  BY <1>5, FS_EmptySet
<1> QED BY <1>2, <1>3, <1>4, <1>7, <1>8 DEF CountInv

\* Occupy__alloc counts what it hands out.
LEMMA TakeCounts == IInv /\ CountInv /\ Take => CountInv'
<1> SUFFICES ASSUME IInv, CountInv, Take PROVE CountInv'
  OBVIOUS
<1> DEFINE pos == Alloc(oct).pos
           t == Searched(oct)
<1>1. /\ oct \in Table /\ oct.free \subseteq 1..oct.size /\ pos # 0
      /\ holders \in [Position -> Nat] /\ lost \in Nat /\ Counted(oct, lost)
      /\ MaxSize \in Nat
  BY BoundAssumption DEF IInv, TypeInv, Take, CountInv
<1>2. /\ t \in Table /\ t.free \subseteq 1..t.size /\ oct.size <= t.size
      /\ Counted(t, lost) /\ t.occupied = oct.occupied
  BY <1>1, SearchedFields, SearchedCounted
<1>3. /\ pos \in t.free
      /\ oct' = [free |-> t.free \ {pos}, data |-> t.data,
                 occupied |-> t.occupied + 1, size |-> t.size, tail |-> pos]
  BY <1>1, AllocTakesFree DEF Take
<1>4. holders' = [holders EXCEPT ![pos] = @ + 1] /\ lost' = lost
  BY DEF Take
<1>5. Counted(oct', lost')
  <2>1. Counted(Alloc(oct).oct, lost)
    BY <1>1, AllocCounted
  <2> QED BY <1>4, <2>1 DEF Take
<1>6. oct.size \in Nat /\ t.size \in Nat /\ oct.occupied \in Int
  BY <1>1, <1>2 DEF Table
<1>7. t.size <= MaxSize /\ t.data \subseteq 1..t.size
  <2>1. CASE NearlyFull(oct)
    <3>1. t.size = 2 * oct.size /\ t.data \subseteq oct.data
      BY <1>1, <2>1, ResizeFields DEF Searched
    <3>2. 2 * oct.size <= MaxSize
      BY <2>1 DEF Take, MayGrow
    <3> QED BY <1>2, <1>6, <3>1, <3>2 DEF CountInv
  <2>2. CASE ~ NearlyFull(oct)
    BY <2>2 DEF Searched, CountInv
  <2> QED BY <2>1, <2>2
<1> HIDE DEF pos, t
<1>8. pos \in Position
  BY <1>1, <1>2, <1>3, <1>6, <1>7 DEF Position
<1>9. /\ IsFiniteSet(Handed(holders'))
      /\ Cardinality(Handed(holders')) = oct.occupied + 1
  <2> DEFINE last == <<pos, holders[pos] + 1>>
  <2>1. /\ Handed(holders') = Handed(holders) \cup {last}
        /\ last \notin Handed(holders)
    BY <1>1, <1>4, <1>8, OneMore
  <2>2. /\ IsFiniteSet(Handed(holders))
        /\ Cardinality(Handed(holders)) = oct.occupied
    BY DEF CountInv
  <2> HIDE DEF last
  <2> QED BY <2>1, <2>2, FS_AddElement
<1>10. /\ oct'.size = t.size /\ oct'.tail = pos /\ oct'.data = t.data
       /\ oct'.occupied = oct.occupied + 1
  BY <1>2, <1>3
<1>11. pos \in 0..t.size
  BY <1>2, <1>3, <1>6
<1> QED BY <1>1, <1>4, <1>5, <1>7, <1>9, <1>10, <1>11 DEF CountInv

\* Occupy__del takes one off the count, and frees one or has lost one more.
LEMMA ReleaseCounts ==
  ASSUME IInv, CountInv, NEW pos \in Position, Release(pos)
  PROVE  CountInv'
<1>1. /\ oct \in Table /\ oct.free \subseteq 1..oct.size
      /\ oct.size \in Nat /\ oct.occupied \in Int /\ oct.tail \in Nat
      /\ holders \in [Position -> Nat] /\ lost \in Nat /\ Counted(oct, lost)
      /\ Position \subseteq Nat
  BY DEF IInv, TypeInv, CountInv, Table, Position
<1>2. holders[pos] > 0 /\ pos \in 1..oct.size
  BY <1>1 DEF Release, IInv, HeldInside, Position
<1> DEFINE b == BitOf(pos)
           F == IF b \in 1..oct.size THEN oct.free \cup {b} ELSE oct.free
           n == oct.occupied - 1
<1>3. oct' = [free |-> F, data |-> oct.data, occupied |-> n,
              size |-> oct.size, tail |-> oct.tail]
  <2>1. oct' = [oct EXCEPT !.occupied = n, !.free = F]
    BY DEF Release, Del
  <2> HIDE DEF F, n
  <2> QED BY <1>1, <2>1 DEF Table
<1>4. lost' = IF F = oct.free THEN lost + 1 ELSE lost
  BY <1>3 DEF Release
<1>5. IsFiniteSet(oct.free)
  BY <1>1, CountedFinite
<1>6. lost' \in Nat /\ Cardinality(F) = oct.size - n - lost'
  <2>1. Cardinality(oct.free) = oct.size - oct.occupied - lost
    BY <1>1 DEF Counted
  <2>2. CASE F = oct.free
    BY <1>1, <1>4, <2>1, <2>2
  <2>3. CASE F # oct.free
    <3>1. F = oct.free \cup {b} /\ b \notin oct.free
      BY <2>3
    <3> HIDE DEF F, b
    <3>2. Cardinality(F) = Cardinality(oct.free) + 1
      BY <1>5, <3>1, FS_AddElement
    <3> QED BY <1>1, <1>4, <2>1, <2>3, <3>2
  <2> QED BY <2>2, <2>3
<1>7. F \subseteq 1..oct.size
  BY <1>1
<1> HIDE DEF b, F, n
<1>8. /\ oct'.size = oct.size /\ oct'.free = F /\ oct'.occupied = n
      /\ oct'.data = oct.data /\ oct'.tail = oct.tail
  BY <1>3
<1>9. Counted(oct', lost')
  BY <1>1, <1>6, <1>7, <1>8 DEF Counted, n
<1>10. /\ IsFiniteSet(Handed(holders'))
       /\ Cardinality(Handed(holders')) = n
  <2>1. holders' = [holders EXCEPT ![pos] = @ - 1]
    BY DEF Release
  <2>2. /\ holders' \in [Position -> Nat]
        /\ holders = [holders' EXCEPT ![pos] = @ + 1]
    <3> DEFINE less == [q \in Position |-> IF q = pos THEN holders[q] - 1
                                                     ELSE holders[q]]
    <3>1. holders' = less
      BY <1>1, <2>1
    <3>2. less \in [Position -> Nat]
      BY <1>1, <1>2
    <3>3. \A q \in Position :
            holders[q] = IF q = pos THEN less[q] + 1 ELSE less[q]
      BY <1>1
    <3> HIDE DEF less
    <3>4. holders = [less EXCEPT ![pos] = @ + 1]
      BY <1>1, <3>2, <3>3
    <3> QED BY <3>1, <3>2, <3>4
  <2> DEFINE last == <<pos, holders'[pos] + 1>>
  <2>3. /\ Handed(holders') = Handed(holders) \ {last}
        /\ Handed(holders) = Handed(holders') \cup {last}
    BY <2>2, OneMore
  <2>4. /\ IsFiniteSet(Handed(holders))
        /\ Cardinality(Handed(holders)) = oct.occupied
    BY DEF CountInv
  <2> HIDE DEF last
  <2>5. last \in Handed(holders)
    BY <2>3
  <2> QED BY <2>3, <2>4, <2>5, FS_RemoveElement DEF n
<1> QED BY <1>6, <1>8, <1>9, <1>10 DEF CountInv

\* Occupy__set changes no count, and no bit outside.
LEMMA SetBitCounts ==
  ASSUME IInv, CountInv, NEW pos \in BitPosition, NEW val \in {0, 1},
         SetBit(pos, val)
  PROVE  CountInv'
<1>1. oct \in Table /\ oct.size \in Nat /\ pos \in Nat /\ pos > 0
  BY BoundAssumption DEF IInv, TypeInv, Table
<1>2. oct' = Set(oct, pos, val) /\ holders' = holders /\ lost' = lost
  BY DEF SetBit
<1>3. BitOf(pos) \in Nat /\ BitOf(pos) > 0
  BY <1>1, SlotSizeAssumption DEF BitOf
<1>4. CASE ~ Settable(oct, pos) \/ BitOf(pos) > oct.size
  BY <1>2, <1>4 DEF Set, CountInv
<1>5. CASE ~ (~ Settable(oct, pos) \/ BitOf(pos) > oct.size)
  <2> DEFINE D == IF val > 0 THEN oct.data \cup {BitOf(pos)}
                             ELSE oct.data \ {BitOf(pos)}
  <2>1. oct' = [oct EXCEPT !.data = D]
    BY <1>2, <1>5 DEF Set
  <2>2. D \subseteq 1..oct.size
    BY <1>1, <1>3, <1>5 DEF CountInv
  <2> HIDE DEF D
  <2>3. oct' = [free |-> oct.free, data |-> D, occupied |-> oct.occupied,
                size |-> oct.size, tail |-> oct.tail]
    BY <1>1, <2>1 DEF Table
  <2>4. /\ oct'.free = oct.free /\ oct'.data = D /\ oct'.size = oct.size
        /\ oct'.occupied = oct.occupied /\ oct'.tail = oct.tail
    BY <2>3
  <2>5. Counted(oct', lost')
    BY <1>2, <2>4 DEF CountInv, Counted
  <2> QED BY <1>2, <2>2, <2>4, <2>5 DEF CountInv
<1> QED BY <1>4, <1>5

\* Every step keeps the counts.
LEMMA NextCounts == IInv /\ CountInv /\ [Next]_vars => CountInv'
<1> SUFFICES ASSUME IInv, CountInv, [Next]_vars PROVE CountInv'
  OBVIOUS
<1>1. CASE Take
  BY <1>1, TakeCounts
<1>2. CASE \E p \in Position : Release(p)
  BY <1>2, ReleaseCounts
<1>3. CASE \E p \in BitPosition, val \in {0, 1} : SetBit(p, val)
  BY <1>3, SetBitCounts
<1>4. CASE UNCHANGED vars
  BY <1>4 DEF vars, CountInv
<1> QED BY <1>1, <1>2, <1>3, <1>4 DEF Next

\* The counts are bounded as the types say.
LEMMA CountsTyped == IInv /\ CountInv => TypeOK
<1> SUFFICES ASSUME IInv, CountInv PROVE TypeOK
  OBVIOUS
<1>1. /\ SLOT_SIZE \in Nat /\ SLOT_SIZE > 0 /\ MaxSize \in Nat
      /\ oct.occupied \in Int /\ oct.size \in Nat
  BY SlotSizeAssumption, BoundAssumption DEF IInv, TypeInv, Table
<1>2. oct.size \in {SLOT_SIZE * k : k \in 1..(MaxSize \div SLOT_SIZE)}
  <2>1. PICK k \in Nat : k > 0 /\ oct.size = SLOT_SIZE * k
    BY DEF CountInv, Counted
  <2> DEFINE d == MaxSize \div SLOT_SIZE
             r == MaxSize % SLOT_SIZE
  <2>2. d \in Nat /\ r \in 0..(SLOT_SIZE - 1) /\ MaxSize = SLOT_SIZE * d + r
    BY <1>1, QuotientAndRest
  <2> HIDE DEF d, r
  <2>3. k <= d
    <3>1. SUFFICES ASSUME k >= d + 1 PROVE FALSE
      BY <2>1, <2>2
    <3>2. SLOT_SIZE * k >= SLOT_SIZE * (d + 1)
      BY <1>1, <2>1, <2>2, <3>1
    <3>3. SLOT_SIZE * (d + 1) = SLOT_SIZE * d + SLOT_SIZE
      BY <1>1, <2>2
    <3> QED BY <1>1, <2>1, <2>2, <3>2, <3>3 DEF CountInv
  <2> QED BY <2>1, <2>2, <2>3 DEF d
<1>3. oct.occupied \in 0..(oct.size - 2)
  <2>1. oct.occupied \in Nat
    BY FS_CardinalityType DEF CountInv
  <2> QED BY <1>1, <2>1 DEF CountInv, Counted
<1> QED BY <1>2, <1>3 DEF TypeOK, CountInv, Counted, IInv, TypeInv

(***************************************************************************)
(* Occupy__alloc doubles its table in time: it answers a position as long  *)
(* as fewer than three calls of Occupy__del freed nothing, for every word  *)
(* size, and the counts and bits stay within the table.                    *)
(***************************************************************************)
THEOREM AllocAnswers == Spec => []AllocServes
<1>1. IInv /\ CountInv => AllocServes
  <2> SUFFICES ASSUME IInv, CountInv PROVE AllocServes
    OBVIOUS
  <2>1. oct \in Table /\ Counted(oct, lost) /\ lost \in Nat
    BY DEF IInv, TypeInv, CountInv
  <2>2. lost < 3 => lost \in 0..2
    BY <2>1
  <2> QED BY <2>1, <2>2, CountsTyped, CountedServes DEF AllocServes
<1>2. Spec => []CountInv
  BY InvariantHolds, InitCounts, NextCounts, PTL DEF Spec
<1> QED BY <1>1, <1>2, InvariantHolds, PTL
=============================================================================
