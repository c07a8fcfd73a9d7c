---------------------------- MODULE OccupyLemmas ----------------------------
(***************************************************************************)
(* What Occupy__alloc does to a table, and arithmetic on positions, for    *)
(* the proofs about the modules that use the bit table.                    *)
(***************************************************************************)
EXTENDS Occupy, FiniteSetTheorems, WellFoundedInduction, TLAPS

\* A set of numbers has a least one, which Min picks.
LEMMA MinOfNats ==
  ASSUME NEW S, S \subseteq Nat, S # {}
  PROVE  Min(S) \in S /\ \A m \in S : Min(S) <= m
<1>1. \E n \in S : \A m \in S : n <= m
  <2>1. PICK n \in S : \A m \in S : ~ (<<m, n>> \in OpToRel(<, Nat))
    BY NatLessThanWellFounded, WFMin
  <2>2. ASSUME NEW m \in S PROVE n <= m
    <3>1. <<m, n>> \in Nat \X Nat
      OBVIOUS
    <3>2. ~ (m < n)
      BY <2>1, <3>1 DEF OpToRel
    <3> QED BY <3>2
  <2> QED BY <2>2
<1> QED BY <1>1 DEF Min

\* Occupy_s with its fields in their types.
Table == [free : SUBSET Nat, data : SUBSET Nat, occupied : Int, size : Nat,
          tail : Nat]

\* The table Occupy__alloc searches: grown if it is nearly full.
Searched(t) == IF NearlyFull(t) THEN Resize(t) ELSE t

\* __Occupy__resize doubles the table; its new words are free and hold 0.
LEMMA ResizeFields ==
  ASSUME NEW t \in Table, t.free \subseteq 1..t.size
  PROVE  /\ Resize(t) \in Table
         /\ Resize(t).size = 2 * t.size
         /\ Resize(t).free = t.free \cup ((t.size + 1)..(2 * t.size))
         /\ Resize(t).data = t.data \ ((t.size + 1)..(2 * t.size))
         /\ Resize(t).free \subseteq 1..(2 * t.size)
<1> DEFINE n == 2 * t.size
           F == t.free \cup ((t.size + 1)..(2 * t.size))
           D == t.data \ ((t.size + 1)..(2 * t.size))
<1>1. Resize(t) = [t EXCEPT !.size = n, !.free = F, !.data = D]
  BY DEF Resize
<1>2. /\ t.size \in Nat /\ t.data \subseteq Nat /\ t.tail \in Nat
      /\ t.occupied \in Int
  BY DEF Table
<1>3. n \in Nat /\ F \subseteq Nat /\ D \subseteq Nat /\ F \subseteq 1..n
  BY <1>2
<1> HIDE DEF n, F, D
<1>4. Resize(t) = [free |-> F, data |-> D, occupied |-> t.occupied, size |-> n,
                   tail |-> t.tail]
  BY <1>1 DEF Table
<1>5. Resize(t) \in Table
  BY <1>2, <1>3, <1>4 DEF Table
<1> QED BY <1>3, <1>4, <1>5 DEF n, F, D

\* Growth leaves the positions there were as they were.
LEMMA SearchedFields ==
  ASSUME NEW t \in Table, t.free \subseteq 1..t.size
  PROVE  /\ Searched(t) \in Table
         /\ Searched(t).free \subseteq 1..Searched(t).size
         /\ t.size <= Searched(t).size
         /\ \A p \in 1..t.size : /\ p \in Searched(t).free <=> p \in t.free
                                 /\ p \in Searched(t).data <=> p \in t.data
<1>1. CASE NearlyFull(t)
  <2>1. Searched(t) = Resize(t)
    BY <1>1 DEF Searched
  <2>2. t.size \in Nat
    BY DEF Table
  <2> QED BY <2>1, <2>2, ResizeFields
<1>2. CASE ~ NearlyFull(t)
  BY <1>2 DEF Searched, Table
<1> QED BY <1>1, <1>2

\* A position that Occupy__alloc answers was free.
LEMMA AllocTakesFree ==
  ASSUME NEW t \in Table, t.free \subseteq 1..t.size, Alloc(t).pos # 0
  PROVE  /\ Alloc(t).pos \in Searched(t).free
         /\ Alloc(t).oct = [free |-> Searched(t).free \ {Alloc(t).pos},
                            data |-> Searched(t).data,
                            occupied |-> Searched(t).occupied + 1,
                            size |-> Searched(t).size,
                            tail |-> Alloc(t).pos]
<1> DEFINE table  == Searched(t)
           rounds == {i \in 0..(table.size \div SLOT_SIZE - 1) :
                        FreeInWord(table, Probe(table, i)) # {}}
           found  == FreeInWord(table, Probe(table, Min(rounds)))
<1>1. Alloc(t) = IF rounds = {}
                 THEN [oct |-> table, pos |-> 0]
                 ELSE [oct |-> [table EXCEPT !.free = @ \ {Min(found)},
                                             !.occupied = @ + 1,
                                             !.tail = Min(found)],
                       pos |-> Min(found)]
  BY DEF Alloc, Searched
<1>2. rounds # {}
  BY <1>1
<1>3. rounds \subseteq Nat
  OBVIOUS
<1>4. Min(rounds) \in rounds
  BY <1>2, <1>3, MinOfNats
<1>5. found # {} /\ found \subseteq table.free
  BY <1>4 DEF FreeInWord
<1>6. table.free \subseteq Nat
  BY SearchedFields DEF Table
<1>7. Min(found) \in found
  BY <1>5, <1>6, MinOfNats
<1> DEFINE p == Min(found)
           F == table.free \ {p}
           n == table.occupied + 1
           after == [table EXCEPT !.free = F, !.occupied = n, !.tail = p]
<1>8. Alloc(t) = [oct |-> after, pos |-> p]
  BY <1>1, <1>2
<1>9. p \in table.free
  BY <1>5, <1>7
<1> HIDE DEF table, rounds, found, p, F, n, after
<1>10. Alloc(t).pos = p /\ Alloc(t).oct = after
  BY <1>8
<1>11. table \in Table
  BY SearchedFields DEF table
<1>12. after = [table EXCEPT !.free = F, !.occupied = n, !.tail = p]
  BY DEF after
<1>13. after = [free |-> F, data |-> table.data, occupied |-> n,
                size |-> table.size, tail |-> p]
  BY <1>11, <1>12 DEF Table
<1> QED BY <1>9, <1>10, <1>13 DEF table, F, n

-----------------------------------------------------------------------------
(* Arithmetic *)

\* Division with rest, by a divisor the prover knows no value of.
LEMMA QuotientAndRest ==
  ASSUME NEW a \in Nat, NEW b \in Nat, b > 0
  PROVE  /\ a \div b \in Nat /\ a % b \in 0..(b - 1)
         /\ a = b * (a \div b) + (a % b)
BY SMTT(20)

\* A number has one rest.
LEMMA RestIsUnique ==
  ASSUME NEW b \in Nat, b > 0, NEW q \in Int, NEW d \in Int,
         NEW r \in 0..(b - 1), NEW s \in 0..(b - 1), b * q + r = b * d + s
  PROVE  r = s
<1>1. CASE q = d
  BY <1>1
<1>2. CASE q > d
  <2>1. PICK e \in Nat : q = d + e /\ e >= 1
    <3>1. q - d \in Nat
      BY <1>2
    <3> QED BY <1>2, <3>1
  <2>2. b * e >= b /\ b * q = b * d + b * e
    BY <2>1
  <2> QED BY <2>2
<1>3. CASE q < d
  <2>1. PICK e \in Nat : d = q + e /\ e >= 1
    <3>1. d - q \in Nat
      BY <1>3
    <3> QED BY <1>3, <3>1
  <2>2. b * e >= b /\ b * d = b * q + b * e
    BY <2>1
  <2> QED BY <2>2
<1> QED BY <1>1, <1>2, <1>3

\* Adding a word moves no position into or out of the last place of a word.
LEMMA LastBitMoves ==
  ASSUME NEW p \in Nat
  PROVE  (p + SLOT_SIZE) % SLOT_SIZE = p % SLOT_SIZE
<1> DEFINE q == (p \div SLOT_SIZE) + 1
           r == p % SLOT_SIZE
           d == (p + SLOT_SIZE) \div SLOT_SIZE
           s == (p + SLOT_SIZE) % SLOT_SIZE
<1>1. SLOT_SIZE \in Nat /\ SLOT_SIZE > 0 /\ p + SLOT_SIZE \in Nat
  BY SlotSizeAssumption
<1>2. /\ p = SLOT_SIZE * (p \div SLOT_SIZE) + r
      /\ p \div SLOT_SIZE \in Nat /\ r \in 0..(SLOT_SIZE - 1)
  BY <1>1, QuotientAndRest
<1>3. /\ p + SLOT_SIZE = SLOT_SIZE * d + s
      /\ d \in Nat /\ s \in 0..(SLOT_SIZE - 1)
  BY <1>1, QuotientAndRest
<1>4. SLOT_SIZE * q = SLOT_SIZE * (p \div SLOT_SIZE) + SLOT_SIZE
  BY <1>1, <1>2
<1>5. /\ q \in Int /\ d \in Int /\ SLOT_SIZE * q + r = SLOT_SIZE * d + s
      /\ r \in 0..(SLOT_SIZE - 1) /\ s \in 0..(SLOT_SIZE - 1)
  BY <1>1, <1>2, <1>3, <1>4
<1> HIDE DEF q, r, d, s
<1>6. r = s
  BY <1>1, <1>5, RestIsUnique
<1> QED BY <1>6 DEF r, s

\* Nor has it two quotients.
LEMMA QuotientIsUnique ==
  ASSUME NEW b \in Nat, b > 0, NEW a \in Nat, NEW q \in Int,
         NEW r \in 0..(b - 1), a = b * q + r
  PROVE  a \div b = q /\ a % b = r
<1> DEFINE d == a \div b
           s == a % b
<1>1. d \in Nat /\ s \in 0..(b - 1) /\ a = b * d + s
  BY QuotientAndRest
<1> HIDE DEF d, s
<1>2. r = s
  <2>1. b * q + r = b * d + s /\ d \in Int
    BY <1>1
  <2> QED BY <1>1, <2>1, RestIsUnique
<1>3. b * q = b * d
  BY <1>1, <1>2
<1>4. q = d
  BY <1>1, <1>3
<1> QED BY <1>2, <1>4 DEF d, s

\* Going round m places from any of them comes by every other.
LEMMA RoundComesBy ==
  ASSUME NEW m \in Nat, m > 0, NEW a \in Nat, NEW w \in 0..(m - 1)
  PROVE  \E i \in 0..(m - 1), q \in Int : i + a = m * q + w
<1> DEFINE d == a \div m
           r == a % m
<1>1. d \in Nat /\ r \in 0..(m - 1) /\ a = m * d + r
  BY QuotientAndRest
<1> HIDE DEF d, r
<1>2. CASE w >= r
  <2>1. (w - r) + a = m * d + w /\ w - r \in 0..(m - 1)
    BY <1>1, <1>2
  <2> QED BY <1>1, <2>1
<1>3. CASE w < r
  <2>1. m * (d + 1) = m * d + m
    BY <1>1
  <2>2. (w - r + m) + a = m * (d + 1) + w /\ w - r + m \in 0..(m - 1)
    BY <1>1, <1>3, <2>1
  <2> QED BY <1>1, <2>2
<1> QED BY <1>1, <1>2, <1>3

-----------------------------------------------------------------------------
(* Whether Occupy__alloc answers *)

\* Occupy__alloc looks at every word of a table.
LEMMA EveryWordProbed ==
  ASSUME NEW t \in Table, NEW m \in Nat, m > 0, t.size = SLOT_SIZE * m,
         NEW w \in 0..(m - 1)
  PROVE  /\ t.size \div SLOT_SIZE = m
         /\ \E i \in 0..(m - 1) : Probe(t, i) = w
<1>1. /\ SLOT_SIZE \in Nat /\ SLOT_SIZE > 0 /\ t.tail \in Nat /\ t.size \in Nat
  BY SlotSizeAssumption DEF Table
<1>2. t.size \div SLOT_SIZE = m
  <2>1. t.size = SLOT_SIZE * m + 0 /\ 0 \in 0..(SLOT_SIZE - 1)
    BY <1>1
  <2> QED BY <1>1, <2>1, QuotientIsUnique
<1> DEFINE a == t.tail \div SLOT_SIZE
           b == t.tail % SLOT_SIZE
<1>3. a \in Nat /\ b \in 0..(SLOT_SIZE - 1) /\ t.tail = SLOT_SIZE * a + b
  BY <1>1, QuotientAndRest
<1> HIDE DEF a, b
<1>4. PICK i \in 0..(m - 1), q \in Int : i + a = m * q + w
  BY <1>3, RoundComesBy
<1> DEFINE x == i * SLOT_SIZE + t.tail
           y == SLOT_SIZE * w + b
<1>5. x = t.size * q + y
  <2>1. x = SLOT_SIZE * (i + a) + b
    BY <1>1, <1>3
  <2>2. SLOT_SIZE * (m * q + w) = (SLOT_SIZE * m) * q + SLOT_SIZE * w
    BY <1>1
  <2> QED BY <1>1, <1>3, <1>4, <2>1, <2>2
<1>6. x \in Nat /\ y \in 0..(t.size - 1) /\ t.size > 0
  <2>1. i * SLOT_SIZE \in Nat /\ SLOT_SIZE * w \in Nat
    BY <1>1
  <2>2. SLOT_SIZE * (w + 1) <= SLOT_SIZE * m
    BY <1>1
  <2>3. SLOT_SIZE * (w + 1) = SLOT_SIZE * w + SLOT_SIZE
    BY <1>1
  <2> QED BY <1>1, <1>3, <2>1, <2>2, <2>3
<1> HIDE DEF x
<1>7. x % t.size = y
  <2> HIDE DEF y
  <2> QED BY <1>1, <1>5, <1>6, QuotientIsUnique
<1>8. y \div SLOT_SIZE = w
  BY <1>1, <1>3, <1>6, QuotientIsUnique
<1>9. Probe(t, i) = w
  BY <1>7, <1>8 DEF Probe, x
<1> QED BY <1>2, <1>9

\* It answers whenever the table it searches has a free position.
LEMMA AllocFindsFree ==
  ASSUME NEW t \in Table, t.free \subseteq 1..t.size,
         NEW m \in Nat, m > 0, Searched(t).size = SLOT_SIZE * m,
         Searched(t).free # {}
  PROVE  Alloc(t).pos # 0
<1> DEFINE table  == Searched(t)
           rounds == {i \in 0..(table.size \div SLOT_SIZE - 1) :
                        FreeInWord(table, Probe(table, i)) # {}}
           found  == FreeInWord(table, Probe(table, Min(rounds)))
<1>1. rounds # {} => Alloc(t).pos = Min(found)
  BY DEF Alloc, Searched
<1>2. /\ table \in Table /\ table.free \subseteq 1..table.size
      /\ table.size \in Nat /\ SLOT_SIZE \in Nat /\ SLOT_SIZE > 0
  BY SearchedFields, SlotSizeAssumption DEF Table
<1>3. PICK p \in table.free : p \in 1..table.size
  BY <1>2
<1> DEFINE w == (p - 1) \div SLOT_SIZE
           r == (p - 1) % SLOT_SIZE
<1>4. /\ w \in Nat /\ r \in 0..(SLOT_SIZE - 1) /\ p - 1 = SLOT_SIZE * w + r
  <2>1. p - 1 \in Nat
    BY <1>2, <1>3
  <2> QED BY <1>2, <2>1, QuotientAndRest
<1> HIDE DEF w, r, table
<1>5. w \in 0..(m - 1)
  <2>1. SUFFICES ASSUME w >= m PROVE FALSE
    BY <1>4
  <2>2. SLOT_SIZE * w >= SLOT_SIZE * m
    BY <1>2, <1>4, <2>1
  <2>3. p - 1 < SLOT_SIZE * m
    BY <1>2, <1>3 DEF table
  <2> QED BY <1>2, <1>4, <2>2, <2>3
<1>6. table.size = SLOT_SIZE * m
  BY DEF table
<1>7. PICK i \in 0..(m - 1) : Probe(table, i) = w
  BY <1>2, <1>5, <1>6, EveryWordProbed
<1>8. table.size \div SLOT_SIZE = m
  BY <1>2, <1>5, <1>6, EveryWordProbed
<1>9. p \in (w * SLOT_SIZE + 1)..((w + 1) * SLOT_SIZE)
  <2>1. w * SLOT_SIZE = SLOT_SIZE * w /\ (w + 1) * SLOT_SIZE = SLOT_SIZE * w + SLOT_SIZE
    BY <1>2, <1>4
  <2> QED BY <1>2, <1>3, <1>4, <2>1
<1>10. i \in rounds
  <2>1. p \in FreeInWord(table, Probe(table, i))
    BY <1>3, <1>7, <1>9 DEF FreeInWord
  <2>2. i \in 0..(table.size \div SLOT_SIZE - 1)
    BY <1>8
  <2>3. FreeInWord(table, Probe(table, i)) # {}
    BY <2>1
  <2> QED BY Zenon, <2>2, <2>3
<1>11. Min(rounds) \in rounds
  <2>1. rounds \subseteq Nat
    OBVIOUS
  <2> HIDE DEF rounds
  <2> QED BY <1>10, <2>1, MinOfNats
<1>12. found # {} /\ found \subseteq table.free /\ table.free \subseteq 1..table.size
  BY <1>2, <1>11 DEF FreeInWord
<1> HIDE DEF rounds, found
<1>13. Min(found) \in found
  BY <1>2, <1>12, MinOfNats
<1> QED BY <1>1, <1>2, <1>10, <1>12, <1>13

(***************************************************************************)
(* The table counts the positions in use, but for the calls of Occupy__del *)
(* that made none free, and keeps two that it does not count.              *)
(***************************************************************************)
Counted(t, lost) ==
  /\ \E k \in Nat : k > 0 /\ t.size = SLOT_SIZE * k
  /\ t.free \subseteq 1..t.size
  /\ Cardinality(t.free) = t.size - t.occupied - lost
  /\ t.occupied <= t.size - 2

\* The free positions can be counted.
LEMMA CountedFinite ==
  ASSUME NEW t \in Table, NEW lost, Counted(t, lost)
  PROVE  IsFiniteSet(t.free)
<1>1. 1 \in Int /\ t.size \in Int
  BY DEF Table
<1>2. IsFiniteSet(1..t.size)
  BY <1>1, FS_Interval
<1>3. t.free \in SUBSET (1..t.size)
  BY DEF Counted
<1> QED BY <1>2, <1>3, FS_Subset

\* The table Occupy__alloc searches is counted, too, and has one more.
LEMMA SearchedCounted ==
  ASSUME NEW t \in Table, NEW lost \in Nat, Counted(t, lost)
  PROVE  /\ Counted(Searched(t), lost)
         /\ Searched(t).occupied <= Searched(t).size - 3
         /\ Searched(t).occupied = t.occupied
<1>1. /\ t.size \in Nat /\ t.occupied \in Int
      /\ SLOT_SIZE \in Nat /\ SLOT_SIZE > 2
  BY SlotSizeAssumption DEF Table
<1>2. PICK k \in Nat : k > 0 /\ t.size = SLOT_SIZE * k
  BY DEF Counted
<1>3. CASE ~ NearlyFull(t)
  BY <1>1, <1>3 DEF Searched, NearlyFull, Counted
<1>4. CASE NearlyFull(t)
  <2> DEFINE added == (t.size + 1)..(2 * t.size)
  <2>1. Searched(t) = Resize(t) /\ t.occupied = t.size - 2
    BY <1>4 DEF Searched, NearlyFull
  <2>2. /\ Searched(t).size = 2 * t.size
        /\ Searched(t).free = t.free \cup added
        /\ Searched(t).free \subseteq 1..(2 * t.size)
    BY <2>1, ResizeFields DEF Counted
  <2>3. Searched(t).occupied = t.occupied
    BY <2>1 DEF Resize, Table
  <2>4. t.size >= 3
    <3>1. SLOT_SIZE * k >= SLOT_SIZE
      BY <1>1, <1>2
    <3> QED BY <1>1, <1>2, <3>1
  <2>5. 2 * t.size = SLOT_SIZE * (2 * k) /\ 2 * k \in Nat /\ 2 * k > 0
    BY <1>1, <1>2
  <2>6. Cardinality(t.free \cup added) = Cardinality(t.free) + t.size
    <3>1. IsFiniteSet(added) /\ Cardinality(added) = t.size
      <4>1. t.size + 1 \in Int /\ 2 * t.size \in Int
        BY <1>1
      <4>2. /\ IsFiniteSet(added)
            /\ Cardinality(added) = IF t.size + 1 > 2 * t.size THEN 0
                                    ELSE 2 * t.size - (t.size + 1) + 1
        BY <4>1, FS_Interval
      <4> HIDE DEF added
      <4> QED BY <1>1, <4>2
    <3>2. IsFiniteSet(t.free)
      BY CountedFinite
    <3>3. t.free \cap added = {}
      BY <1>1 DEF Counted
    <3>4. Cardinality(t.free) \in Nat
      BY <3>2, FS_CardinalityType
    <3>5. Cardinality(t.free \cup added)
            = Cardinality(t.free) + Cardinality(added) - Cardinality({})
      <4> HIDE DEF added
      <4>1. Cardinality(t.free \cup added) = Cardinality(t.free)
              + Cardinality(added) - Cardinality(t.free \cap added)
        BY <3>1, <3>2, FS_Union
      <4> QED BY <3>3, <4>1
    <3> HIDE DEF added
    <3> QED BY <1>1, <3>1, <3>4, <3>5, FS_EmptySet
  <2> HIDE DEF added
  <2>7. Cardinality(Searched(t).free)
          = Searched(t).size - Searched(t).occupied - lost
    BY <1>1, <2>2, <2>3, <2>6 DEF Counted
  <2> QED BY <1>1, <2>1, <2>2, <2>3, <2>4, <2>5, <2>7 DEF Counted
<1> QED BY <1>3, <1>4

\* Less than three lost positions leave one to find.
LEMMA CountedServes ==
  ASSUME NEW t \in Table, NEW lost \in 0..2, Counted(t, lost)
  PROVE  Alloc(t).pos # 0
<1> DEFINE u == Searched(t)
<1>1. lost \in Nat
  OBVIOUS
<1>2. Counted(u, lost) /\ u.occupied <= u.size - 3
  BY <1>1, SearchedCounted
<1>3. u \in Table
  BY SearchedFields DEF Counted
<1>4. u.free # {}
  <2>1. SUFFICES ASSUME u.free = {} PROVE FALSE
    OBVIOUS
  <2>2. Cardinality(u.free) = 0
    BY <2>1, FS_EmptySet
  <2>3. u.size \in Nat /\ u.occupied \in Int
    BY <1>3 DEF Table
  <2> HIDE DEF u
  <2> QED BY <1>2, <2>2, <2>3 DEF Counted
<1>5. PICK m \in Nat : m > 0 /\ u.size = SLOT_SIZE * m
  BY <1>2 DEF Counted
<1> QED BY <1>4, <1>5, AllocFindsFree DEF Counted

\* Occupy__alloc counts the position it takes.
LEMMA AllocCounted ==
  ASSUME NEW t \in Table, NEW lost \in Nat, Counted(t, lost), Alloc(t).pos # 0
  PROVE  Counted(Alloc(t).oct, lost)
<1> DEFINE u == Searched(t)
           p == Alloc(t).pos
<1>1. Counted(u, lost) /\ u.occupied <= u.size - 3
  BY SearchedCounted
<1>2. u \in Table /\ u.size \in Nat /\ u.occupied \in Int
  BY SearchedFields DEF Counted, Table
<1>3. /\ p \in u.free
      /\ Alloc(t).oct = [free |-> u.free \ {p}, data |-> u.data,
                         occupied |-> u.occupied + 1, size |-> u.size,
                         tail |-> p]
  BY AllocTakesFree DEF Counted
<1> HIDE DEF u, p
<1>4. Cardinality(u.free \ {p}) = Cardinality(u.free) - 1
  <2>1. IsFiniteSet(u.free)
    BY <1>1, <1>2, CountedFinite
  <2>2. Cardinality(u.free \ {p}) = IF p \in u.free THEN Cardinality(u.free) - 1
                                                   ELSE Cardinality(u.free)
    BY <2>1, FS_RemoveElement
  <2> QED BY <1>3, <2>2
<1>5. /\ Alloc(t).oct.size = u.size /\ Alloc(t).oct.free = u.free \ {p}
      /\ Alloc(t).oct.occupied = u.occupied + 1
  BY <1>3
<1> QED BY <1>1, <1>2, <1>4, <1>5 DEF Counted
=============================================================================
