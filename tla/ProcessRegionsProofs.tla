------------------------ MODULE ProcessRegionsProofs ------------------------
(***************************************************************************)
(* What addressRegion.c grants stays granted, the pages of mapRegions are  *)
(* those of the mapped regions, and munmap finds the region it is asked    *)
(* for: for every layout, page size and number of regions.                 *)
(***************************************************************************)
EXTENDS ProcessRegions, TableLemmas

(* Arithmetic of addresses *)

\* Sums and differences that need no turn, and those that need one.
LEMMA PlusIs ==
  ASSUME NEW a \in Nat, NEW b \in Nat, a + b < WORD
  PROVE  Plus(a, b) = a + b
<1>1. /\ WORD \in Nat /\ WORD > 0 /\ a + b \in Int /\ 0 \in Int
      /\ a + b \in 0..(WORD - 1) /\ a + b = WORD * 0 + (a + b)
  BY AddressAssumption
<1>2. (a + b) % WORD = a + b
  BY <1>1, QuotientIsUnique
<1> QED BY <1>2 DEF Plus

LEMMA MinusIs ==
  ASSUME NEW a \in Address, NEW b \in Address
  PROVE  Minus(a, b) = IF a >= b THEN a - b ELSE a - b + WORD
<1>1. WORD \in Nat /\ WORD > 0 /\ a \in Int /\ b \in Int /\ a - b \in Int
  BY AddressAssumption DEF Address
<1>2. CASE a >= b
  <2>1. a - b \in 0..(WORD - 1) /\ a - b = WORD * 0 + (a - b) /\ 0 \in Int
    BY <1>1, <1>2 DEF Address
  <2>2. (a - b) % WORD = a - b
    BY <1>1, <2>1, QuotientIsUnique
  <2> QED BY <1>2, <2>2 DEF Minus
<1>3. CASE ~ (a >= b)
  <2>1. /\ a - b + WORD \in 0..(WORD - 1) /\ -1 \in Int
        /\ a - b = WORD * (-1) + (a - b + WORD)
    BY <1>1, <1>3 DEF Address
  <2>2. (a - b) % WORD = a - b + WORD
    BY <1>1, <2>1, QuotientIsUnique
  <2> QED BY <1>3, <2>2 DEF Minus
<1> QED BY <1>2, <1>3

\* __size4kAlign of a size that is not about to wrap around.
LEMMA AlignIs ==
  ASSUME NEW n \in Nat, n + PAGE <= WORD
  PROVE  /\ Align(n) \in Nat /\ n <= Align(n) /\ Align(n) < n + PAGE
         /\ \E k \in Nat : Align(n) = PAGE * k /\ Align(n) \div PAGE = k
<1> DEFINE up == n + (PAGE - 1)
           q == up \div PAGE
           r == up % PAGE
<1>1. /\ PAGE \in Nat /\ PAGE > 0 /\ PAGE - 1 \in Nat /\ up \in Nat
      /\ up < WORD /\ WORD \in Nat
  BY AddressAssumption
<1>2. q \in Int /\ r \in 0..(PAGE - 1) /\ up = PAGE * q + r
  BY <1>1, QuotientAndRest
<1>3. Align(n) = up - r
  <2>1. Plus(n, PAGE - 1) = up
    BY <1>1, PlusIs
  <2> QED BY <2>1 DEF Align
<1> HIDE DEF up, q, r
<1>4. Align(n) = PAGE * q /\ n <= up - r /\ up - r < n + PAGE
  BY <1>1, <1>2, <1>3 DEF up
<1>5. q \in Nat
  <2>1. SUFFICES ASSUME q < 0 PROVE FALSE
    BY <1>2
  <2>2. PICK e \in Nat : q = - e /\ e >= 1
    <3>1. - q \in Nat /\ - q >= 1 /\ q = - (- q)
      BY <1>2, <2>1
    <3> QED BY <3>1
  <2>3. PAGE * e >= PAGE /\ PAGE * q = - (PAGE * e)
    BY <1>1, <2>2
  <2> QED BY <1>1, <1>2, <2>3
<1>6. Align(n) \div PAGE = q
  <2>1. Align(n) \in Int /\ Align(n) = PAGE * q + 0 /\ 0 \in 0..(PAGE - 1)
    BY <1>1, <1>2, <1>4
  <2> QED BY <1>1, <1>2, <2>1, QuotientIsUnique
<1>7. Align(n) \in Nat
  BY <1>1, <1>2, <1>3, <1>4
<1> QED BY <1>3, <1>4, <1>5, <1>6, <1>7

-----------------------------------------------------------------------------
(* A region on its own *)

(***************************************************************************)
(* A region in an address space whose mapRegions has n pages: one for mmap *)
(* lies where its pages are, and all others below.                         *)
(***************************************************************************)
Placed(r, n) ==
  IF r.type = "MMAP"
  THEN /\ r.crrt \in Run /\ r.crrt.start + r.crrt.size <= n /\ n <= MaxPages
       /\ r.start = MMAP_START + r.crrt.start * PAGE
       /\ r.size = r.crrt.size * PAGE
  ELSE /\ r.crrt = NULL /\ r.start + r.size <= MMAP_START
       /\ r.type = "STACK" => r.size >= PAGE
       /\ r.type = "HEAP" => r.start + r.size <= HeapEnd

\* What is assumed of the constants, as numbers.
LEMMA Numbers ==
  /\ PAGE \in Nat /\ PAGE > 0 /\ WORD \in Nat /\ MMAP_START \in Nat
  /\ HEAP_STEP \in Nat /\ STACK_STEP \in Nat /\ MaxPages \in Nat
  /\ HeapEnd \in Nat /\ HeapEnd <= MMAP_START
  /\ MMAP_START + HEAP_STEP + PAGE <= WORD
  /\ MMAP_START + STACK_STEP + PAGE <= WORD
  /\ MMAP_START + MaxPages * PAGE + PAGE <= WORD
  /\ \A n \in Sizes : n \in Nat /\ MMAP_START + n + PAGE <= WORD
BY AddressAssumption, LayoutAssumption

LEMMA RecordFields ==
  ASSUME NEW r \in RegionRecord
  PROVE  /\ r.start \in Nat /\ r.size \in Nat
         /\ r.start \in Address /\ r.size \in Address
         /\ r = [type |-> r.type, start |-> r.start, size |-> r.size,
                 crrt |-> r.crrt]
         /\ r.type \in DOMAIN Layout \cup {"MMAP"} /\ r.crrt \in Run \cup {NULL}
BY Numbers DEF RegionRecord, Address

\* No region comes to the end of the address space, so that the bounds of
\* __strictInRegion do not wrap around.
LEMMA ExtentIs ==
  ASSUME NEW r \in RegionRecord, NEW n \in Nat, Placed(r, n)
  PROVE  /\ r.start + r.size < WORD
         /\ \A a \in Nat : StrictlyIn(r, a) <=> r.start <= a /\ a < r.start + r.size
<1>1. r.start \in Nat /\ r.size \in Nat
  BY RecordFields
<1>2. r.start + r.size < WORD
  <2>1. CASE r.type = "MMAP"
    <3> DEFINE x == r.crrt.start
               y == r.crrt.size
    <3>1. /\ x \in Nat /\ y \in Nat /\ x + y <= MaxPages
          /\ r.start = MMAP_START + x * PAGE /\ r.size = y * PAGE
      BY <2>1, Numbers DEF Placed, Run
    <3> HIDE DEF x, y
    <3>2. PICK z \in Nat : MaxPages = x + y + z
      <4>1. MaxPages - (x + y) \in Nat /\ MaxPages = x + y + (MaxPages - (x + y))
        BY <3>1, Numbers
      <4> QED BY <4>1
    <3>3. /\ MaxPages * PAGE = x * PAGE + y * PAGE + z * PAGE
          /\ z * PAGE \in Nat /\ x * PAGE \in Nat /\ y * PAGE \in Nat
      BY <3>1, <3>2, Numbers
    <3> QED BY <3>1, <3>3, Numbers
  <2>2. CASE r.type # "MMAP"
    BY <1>1, <2>2, Numbers DEF Placed
  <2> QED BY <2>1, <2>2
<1>3. Plus(r.start, r.size) = r.start + r.size
  BY <1>1, <1>2, PlusIs
<1> QED BY <1>1, <1>2, <1>3 DEF StrictlyIn

\* Whatever a size and an address are, a region that has grown is a record
\* of the same kind.
LEMMA GrownRecords ==
  ASSUME NEW r \in RegionRecord, NEW a \in Address
  PROVE  /\ HeapGrown(r, a) \in RegionRecord /\ HeapGrown(r, a).type = r.type
         /\ StackGrown(r, a) \in RegionRecord /\ StackGrown(r, a).type = r.type
<1>1. /\ r.start \in Address /\ r.size \in Address
      /\ r = [type |-> r.type, start |-> r.start, size |-> r.size,
              crrt |-> r.crrt]
      /\ r.type \in DOMAIN Layout \cup {"MMAP"} /\ r.crrt \in Run \cup {NULL}
  BY RecordFields
<1>2. \A x, y \in Int : Plus(x, y) \in Address /\ Minus(x, y) \in Address
  <2>1. \A z \in Int : z % WORD \in Address
    BY Numbers, AddressAssumption, QuotientAndRest DEF Address
  <2>2. \A x, y \in Int : x + y \in Int /\ x - y \in Int
    OBVIOUS
  <2> QED BY <2>1, <2>2 DEF Plus, Minus
<1>3. \A x \in Address : Align(x) \in Address
  <2>1. ASSUME NEW x \in Address PROVE Align(x) \in Address
    <3> DEFINE up == Plus(x, PAGE - 1)
               q == up \div PAGE
               m == up % PAGE
    <3>1. up \in Address
      <4>1. x \in Int /\ PAGE - 1 \in Int
        BY Numbers DEF Address
      <4> QED BY <1>2, <4>1
    <3> HIDE DEF up
    <3>2. q \in Int /\ m \in 0..(PAGE - 1) /\ up = PAGE * q + m
          /\ up \in Nat /\ up < WORD
      BY <3>1, Numbers, QuotientAndRest DEF Address
    <3> HIDE DEF q, m
    <3>3. q >= 0
      <4>1. SUFFICES ASSUME q < 0 PROVE FALSE
        BY <3>2
      <4>2. PICK e \in Nat : q = - e /\ e >= 1
        <5>1. - q \in Nat /\ - q >= 1 /\ q = - (- q)
          BY <3>2, <4>1
        <5> QED BY <5>1
      <4>3. PAGE * e >= PAGE /\ PAGE * q = - (PAGE * e)
        BY Numbers, <4>2
      <4> QED BY Numbers, <3>2, <4>3
    <3>4. up - m = PAGE * q /\ PAGE * q >= 0
      BY <3>2, <3>3, Numbers
    <3>5. up - m \in Address
      BY <3>2, <3>4, Numbers DEF Address
    <3>6. Align(x) = up - m
      BY DEF Align, up, m
    <3> QED BY <3>5, <3>6
  <2> QED BY <2>1
<1>4. Address \subseteq Int
  BY Numbers DEF Address
<1> DEFINE m == Align(Minus(a, r.start))
           n == Align(Minus(r.start, a))
           s == Minus(r.start, n)
           z == Plus(r.size, n)
<1>5. m \in Address /\ n \in Address
  BY <1>1, <1>2, <1>3, <1>4
<1> HIDE DEF m, n
<1>6. s \in Address /\ z \in Address
  BY <1>1, <1>2, <1>4, <1>5
<1> HIDE DEF s, z
<1>7. /\ HeapGrown(r, a) = [r EXCEPT !.size = m]
      /\ StackGrown(r, a) = [r EXCEPT !.start = s, !.size = z]
  BY DEF HeapGrown, StackGrown, m, n, s, z
<1>8. /\ HeapGrown(r, a) = [type |-> r.type, start |-> r.start, size |-> m,
                            crrt |-> r.crrt]
      /\ StackGrown(r, a) = [type |-> r.type, start |-> s, size |-> z,
                             crrt |-> r.crrt]
  BY <1>1, <1>7
<1>9. HeapGrown(r, a).type = r.type /\ StackGrown(r, a).type = r.type
  BY <1>8
<1>10. HeapGrown(r, a) \in RegionRecord /\ StackGrown(r, a) \in RegionRecord
  BY <1>1, <1>5, <1>6, <1>8 DEF RegionRecord
<1> QED BY <1>9, <1>10

\* A heap that reaches up to an address has all below it, and what it had.
LEMMA HeapReaches ==
  ASSUME NEW r \in RegionRecord, NEW n \in Nat, Placed(r, n), r.type = "HEAP",
         NEW a \in Address, ~ StrictlyIn(r, a), MayReach(r, a),
         HeapGrown(r, a).start + HeapGrown(r, a).size <= HeapEnd
  PROVE  LET g == HeapGrown(r, a)
         IN  /\ g \in RegionRecord /\ Placed(g, n) /\ g.type = "HEAP"
             /\ \A b \in Nat : StrictlyIn(r, b) => StrictlyIn(g, b)
             /\ \A b \in r.start..(a - 1) : b \in Address /\ StrictlyIn(g, b)
<1> DEFINE g == HeapGrown(r, a)
           m == Align(Minus(a, r.start))
<1>1. /\ r.start \in Nat /\ r.size \in Nat /\ r.start \in Address
      /\ r.size \in Address /\ a \in Nat /\ a < WORD
      /\ r = [type |-> r.type, start |-> r.start, size |-> r.size,
              crrt |-> r.crrt]
      /\ r.type \in DOMAIN Layout \cup {"MMAP"} /\ r.crrt \in Run \cup {NULL}
  BY RecordFields, Numbers DEF Address
<1>2. /\ r.crrt = NULL /\ r.start + r.size <= HeapEnd
      /\ r.start + r.size <= MMAP_START
  BY DEF Placed
<1>3. /\ r.start + r.size < WORD
      /\ \A b \in Nat : StrictlyIn(r, b) <=> r.start <= b /\ b < r.start + r.size
  BY ExtentIs
<1>4. Minus(Minus(a, r.start), r.size) <= HEAP_STEP
  BY DEF MayReach
<1>5. a >= r.start + r.size
  <2>1. SUFFICES ASSUME a < r.start PROVE FALSE
    BY <1>1, <1>3
  <2> DEFINE x == Minus(a, r.start)
  <2>2. x = a - r.start + WORD
    BY <1>1, <2>1, MinusIs
  <2> HIDE DEF x
  <2>3. x \in Address /\ x >= r.size
    BY <1>1, <1>2, <1>3, <2>1, <2>2, Numbers DEF Address
  <2>4. Minus(x, r.size) = x - r.size
    BY <1>1, <2>3, MinusIs
  <2>5. x - r.size <= HEAP_STEP
    BY <1>4, <2>4 DEF x
  <2> QED BY <1>1, <1>2, <2>2, <2>5, Numbers
<1>6. Minus(a, r.start) = a - r.start
  BY <1>1, <1>5, MinusIs
<1>7. a - r.start \in Nat /\ a - r.start + PAGE <= WORD
  <2>1. a - r.start \in Address /\ a - r.start >= r.size
    BY <1>1, <1>5, Numbers DEF Address
  <2>2. Minus(a - r.start, r.size) = a - r.start - r.size
    BY <1>1, <2>1, MinusIs
  <2>3. a - r.start - r.size <= HEAP_STEP
    BY <1>4, <1>6, <2>2
  <2> QED BY <1>1, <1>2, <1>5, <2>3, Numbers
<1>8. m \in Nat /\ a - r.start <= m
  BY <1>6, <1>7, AlignIs
<1> HIDE DEF m
<1>9. g = [r EXCEPT !.size = m]
  BY DEF HeapGrown, m
<1>10. g = [type |-> r.type, start |-> r.start, size |-> m, crrt |-> r.crrt]
  BY <1>1, <1>9
<1>11. /\ g.type = r.type /\ g.start = r.start /\ g.size = m
       /\ g.crrt = r.crrt
  BY <1>10
<1>12. r.start + m <= HeapEnd
  BY <1>11
<1>13. m \in Address
  BY <1>1, <1>8, <1>12, Numbers DEF Address
<1> HIDE DEF g
<1>14. g \in RegionRecord
  BY <1>1, <1>10, <1>13 DEF RegionRecord
<1>15. Placed(g, n)
  BY <1>1, <1>2, <1>8, <1>11, <1>12, Numbers DEF Placed
<1>16. \A b \in Nat : StrictlyIn(g, b) <=> r.start <= b /\ b < r.start + m
  BY <1>11, <1>14, <1>15, ExtentIs
<1>17. ASSUME NEW b \in Nat, StrictlyIn(r, b) PROVE StrictlyIn(g, b)
  BY <1>1, <1>3, <1>5, <1>8, <1>16, <1>17
<1>18. ASSUME NEW b \in r.start..(a - 1)
       PROVE  b \in Address /\ StrictlyIn(g, b)
  <2>1. b \in Nat /\ r.start <= b /\ b < r.start + m /\ b < WORD
    BY <1>1, <1>8, Numbers
  <2> QED BY <1>16, <2>1, Numbers DEF Address
<1> QED BY <1>11, <1>14, <1>15, <1>17, <1>18 DEF g

\* A stack that reaches down to an address has it and all above, and what it
\* had.
LEMMA StackReaches ==
  ASSUME NEW r \in RegionRecord, NEW n \in Nat, Placed(r, n), r.type = "STACK",
         NEW a \in Address, ~ StrictlyIn(r, a), MayReach(r, a),
         StackGrown(r, a).start < MMAP_START
  PROVE  LET g == StackGrown(r, a)
         IN  /\ g \in RegionRecord /\ Placed(g, n) /\ g.type = "STACK"
             /\ \A b \in Nat : StrictlyIn(r, b) => StrictlyIn(g, b)
             /\ \A b \in {a} \cup (a..(r.start - 1)) :
                  b \in Address /\ StrictlyIn(g, b)
<1> DEFINE g == StackGrown(r, a)
           m == Align(Minus(r.start, a))
           s == Minus(r.start, m)
           z == Plus(r.size, m)
<1>1. /\ r.start \in Nat /\ r.size \in Nat /\ r.start \in Address
      /\ r.size \in Address /\ a \in Nat /\ a < WORD
      /\ r = [type |-> r.type, start |-> r.start, size |-> r.size,
              crrt |-> r.crrt]
      /\ r.type \in DOMAIN Layout \cup {"MMAP"} /\ r.crrt \in Run \cup {NULL}
  BY RecordFields, Numbers DEF Address
<1>2. r.crrt = NULL /\ r.start + r.size <= MMAP_START /\ r.size >= PAGE
  BY DEF Placed
<1>3. /\ r.start + r.size < WORD
      /\ \A b \in Nat : StrictlyIn(r, b) <=> r.start <= b /\ b < r.start + r.size
  BY ExtentIs
<1>4. m <= STACK_STEP
  BY DEF MayReach
<1>5. g = [r EXCEPT !.start = s, !.size = z]
  BY <1>1 DEF StackGrown
<1>6. g = [type |-> r.type, start |-> s, size |-> z, crrt |-> r.crrt]
  <2> HIDE DEF s, z, g
  <2> QED BY <1>1, <1>5
<1>7. /\ g.type = r.type /\ g.start = s /\ g.size = z
      /\ g.crrt = r.crrt
  BY <1>6
<1>8. s < MMAP_START
  BY <1>7
<1>9. /\ Minus(r.start, a) \in Nat /\ Minus(r.start, a) + PAGE <= WORD
      /\ Minus(r.start, a) = IF r.start >= a THEN r.start - a
                                             ELSE r.start - a + WORD
  <2>1. Minus(r.start, a) = IF r.start >= a THEN r.start - a
                                            ELSE r.start - a + WORD
    BY <1>1, MinusIs
  <2>2. CASE r.start >= a
    BY <1>1, <1>2, <2>1, <2>2, Numbers
  <2>3. CASE ~ (r.start >= a)
    <3>1. a >= r.start + r.size
      BY <1>1, <1>3, <2>3
    <3> QED BY <1>1, <1>2, <2>1, <2>3, <3>1, Numbers
  <2> QED BY <2>2, <2>3, <2>1
<1>10. m \in Nat /\ Minus(r.start, a) <= m
  BY <1>9, AlignIs
<1>11. m \in Address
  BY <1>4, <1>10, Numbers DEF Address
<1>12. s = IF r.start >= m THEN r.start - m ELSE r.start - m + WORD
  BY <1>1, <1>11, MinusIs
<1> HIDE DEF g, m
<1>13. m <= r.start
  <2>1. SUFFICES ASSUME m > r.start PROVE FALSE
    BY <1>1, <1>10
  <2>2. s = r.start - m + WORD
    BY <1>1, <1>10, <1>12, <2>1
  <2> HIDE DEF s, z
  <2> QED BY <1>1, <1>4, <1>8, <1>10, <2>2, Numbers
<1>14. a < r.start /\ r.start - a <= m
  <2>1. CASE r.start >= a
    <3>1. r.start # a
      BY <1>1, <1>2, <1>3, Numbers
    <3> QED BY <1>1, <1>9, <1>10, <2>1, <3>1
  <2>2. CASE ~ (r.start >= a)
    BY <1>1, <1>9, <1>10, <1>13, <2>2, Numbers
  <2> QED BY <2>1, <2>2
<1>15. s = r.start - m /\ s \in Nat
  BY <1>1, <1>10, <1>12, <1>13
<1>16. z = r.size + m
  <2>1. r.size + m < WORD
    BY <1>1, <1>3, <1>10, <1>13, Numbers
  <2> QED BY <1>1, <1>10, <2>1, PlusIs
<1> HIDE DEF s, z
<1>17. s + z = r.start + r.size
  BY <1>1, <1>10, <1>15, <1>16
<1>18. z \in Nat /\ s \in Address /\ z \in Address /\ z >= PAGE
  BY <1>1, <1>2, <1>3, <1>10, <1>15, <1>16, <1>17, Numbers DEF Address
<1>19. g \in RegionRecord
  BY <1>1, <1>6, <1>18 DEF RegionRecord
<1>20. Placed(g, n)
  BY <1>1, <1>2, <1>7, <1>17, <1>18 DEF Placed
<1>21. \A b \in Nat : StrictlyIn(g, b) <=> s <= b /\ b < r.start + r.size
  BY <1>7, <1>17, <1>19, <1>20, ExtentIs
<1>22. ASSUME NEW b \in Nat, StrictlyIn(r, b) PROVE StrictlyIn(g, b)
  BY <1>1, <1>3, <1>10, <1>15, <1>21, <1>22
<1>23. ASSUME NEW b \in {a} \cup (a..(r.start - 1))
       PROVE  b \in Address /\ StrictlyIn(g, b)
  <2>1. b \in Nat /\ s <= b /\ b < r.start + r.size /\ b < WORD
    BY <1>1, <1>2, <1>10, <1>14, <1>15, Numbers
  <2> QED BY <1>21, <2>1, Numbers DEF Address
<1> QED BY <1>7, <1>19, <1>20, <1>22, <1>23 DEF g

-----------------------------------------------------------------------------
(* The regions of an address space *)

CellsIn(s, i) == Cells(Region(s, i).crrt.start, Region(s, i).crrt.size)
MmapsOf(s)    == SlotsOf(s, "MMAP")

\* The table of mapRegions has in use what the mapped regions have.
PagesMatch(s) ==
  /\ s.mapRegions.occupied = UNION {CellsIn(s, i) : i \in MmapsOf(s)}
  /\ \A i, j \in MmapsOf(s) : i # j => CellsIn(s, i) \cap CellsIn(s, j) = {}

(***************************************************************************)
(* The inductive invariant, of an address space s: slots and pages are     *)
(* counted, every region is where it may be, those the loader declared are *)
(* there once, and pages and mapped regions match.                         *)
(***************************************************************************)
SpaceInv(s) ==
  /\ s = [regions |-> s.regions, mapRegions |-> s.mapRegions]
  /\ Slotted(s.regions, RegionRecord) /\ s.mapRegions \in Regions
  /\ \A i \in Slots(s) : Placed(Region(s, i), s.mapRegions.size)
  /\ \A i, j \in Slots(s) :
       i # j /\ Region(s, i).type = Region(s, j).type => Region(s, i).type = "MMAP"
  /\ PagesMatch(s)

\* And of what its process may use: it is in a region.
UsableIn(s, u) == u \subseteq Address /\ \A a \in u : IsInRegion(s, a)

LEMMA SlotFacts ==
  ASSUME NEW s, SpaceInv(s)
  PROVE  /\ s.regions.length \in Nat
         /\ Slots(s) \subseteq 0..s.regions.length /\ IsFiniteSet(Slots(s))
         /\ \A i \in Slots(s) : Region(s, i) \in RegionRecord
<1>1. Slotted(s.regions, RegionRecord)
  BY DEF SpaceInv
<1>2. s.regions.length \in Nat
  BY <1>1 DEF Slotted
<1>3. /\ Slots(s) \subseteq 0..(s.regions.length - 1)
      /\ IsFiniteSet(Slots(s))
  BY <1>2, OccupiedFinite DEF Slots
<1>4. Slots(s) \subseteq 0..s.regions.length
  BY <1>2, <1>3
<1>5. ASSUME NEW i \in Slots(s) PROVE Region(s, i) \in RegionRecord
  <2>1. s.regions.item[i] \in RegionRecord \cup {Empty}
    BY <1>1, <1>3 DEF Slotted
  <2>2. s.regions.item[i] # Empty
    BY DEF Slots, Occupied
  <2> QED BY <2>1, <2>2 DEF Region
<1> QED BY <1>2, <1>3, <1>4, <1>5

\* The slot __getRegionByType keeps, of those of a type that the loader
\* declared.
LEMMA FirstOfType ==
  ASSUME NEW s, SpaceInv(s), NEW type, SlotsOf(s, type) # {}
  PROVE  Min(SlotsOf(s, type)) \in SlotsOf(s, type)
<1> DEFINE S == SlotsOf(s, type)
<1>1. S \subseteq Nat
  BY SlotFacts DEF SlotsOf
<1> HIDE DEF S
<1>2. S # {} => Min(S) \in S
  BY <1>1, MinOfNats
<1> QED BY <1>2 DEF S

\* The slot __inRegionCB keeps.
LEMMA LastThere ==
  ASSUME NEW s, SpaceInv(s), NEW a, SlotsAt(s, a) # {}
  PROVE  Max(SlotsAt(s, a)) \in SlotsAt(s, a)
<1> DEFINE S == SlotsAt(s, a)
           m == s.regions.length
<1>1. S \subseteq 0..m /\ m \in Nat
  BY SlotFacts DEF SlotsAt
<1> HIDE DEF S, m
<1>2. S # {} => Max(S) \in S
  BY <1>1, MaxOfNats
<1> QED BY <1>2 DEF S

\* What of a mapped region there is to know, as numbers.
LEMMA MmapFacts ==
  ASSUME NEW s, SpaceInv(s), NEW i \in MmapsOf(s)
  PROVE  LET r == Region(s, i)
         IN  /\ i \in Slots(s) /\ r.type = "MMAP"
             /\ r.crrt.start \in Nat /\ r.crrt.size \in Nat
             /\ r.crrt.start + r.crrt.size <= s.mapRegions.size
             /\ s.mapRegions.size <= MaxPages
             /\ r.start = MMAP_START + r.crrt.start * PAGE
             /\ r.size = r.crrt.size * PAGE
             /\ CellsIn(s, i) \subseteq s.mapRegions.occupied
<1> DEFINE r == Region(s, i)
<1>1. i \in Slots(s) /\ r.type = "MMAP" /\ Placed(r, s.mapRegions.size)
  BY DEF MmapsOf, SlotsOf, SpaceInv
<1>2. CellsIn(s, i) \subseteq s.mapRegions.occupied
  BY DEF SpaceInv, PagesMatch
<1> QED BY <1>1, <1>2 DEF Placed, Run

(***************************************************************************)
(* A region added: declare, where the table of mapRegions stays, or        *)
(* declareForMmap, where it has the cells of the new one in use besides.   *)
(***************************************************************************)
LEMMA AddedKeeps ==
  ASSUME NEW s, SpaceInv(s), NEW t \in Regions, NEW r \in RegionRecord,
         s.mapRegions.size <= t.size, MmapsOf(s) # {} => t.size <= MaxPages,
         Placed(r, t.size),
         IF r.type = "MMAP"
         THEN /\ t.occupied = s.mapRegions.occupied
                                \cup Cells(r.crrt.start, r.crrt.size)
              /\ Cells(r.crrt.start, r.crrt.size) \cap s.mapRegions.occupied = {}
         ELSE t.occupied = s.mapRegions.occupied /\ SlotsOf(s, r.type) = {}
  PROVE  LET add == ArrAdd(s.regions, r)
             e   == [regions |-> add.arr, mapRegions |-> t]
         IN  /\ SpaceInv(e)
             /\ Slots(e) = Slots(s) \cup {add.id} /\ add.id \notin Slots(s)
             /\ Region(e, add.id) = r
             /\ \A j \in Slots(s) : Region(e, j) = Region(s, j)
<1> DEFINE id == ArrAdd(s.regions, r).id
           arr == ArrAdd(s.regions, r).arr
           e == [regions |-> arr, mapRegions |-> t]
<1>1. /\ Slotted(s.regions, RegionRecord) /\ s.mapRegions \in Regions
      /\ \A i \in Slots(s) : Placed(Region(s, i), s.mapRegions.size)
      /\ \A i, j \in Slots(s) :
           i # j /\ Region(s, i).type = Region(s, j).type
             => Region(s, i).type = "MMAP"
      /\ PagesMatch(s)
  BY DEF SpaceInv
<1>2. /\ Slotted(arr, RegionRecord) /\ id \in Nat \ Slots(s)
      /\ Occupied(arr) = Slots(s) \cup {id} /\ arr.item[id] = r
      /\ \A j \in Slots(s) : arr.item[j] = s.regions.item[j]
  BY <1>1, EmptyAssumption, AddHolds DEF Slots
<1> HIDE DEF id, arr
<1>3. e.regions = arr /\ e.mapRegions = t
  OBVIOUS
<1>4. e = [regions |-> e.regions, mapRegions |-> e.mapRegions]
  OBVIOUS
<1> HIDE DEF e
<1>5. Slots(e) = Slots(s) \cup {id} /\ Region(e, id) = r
  BY <1>2, <1>3 DEF Slots, Region
<1>6. \A j \in Slots(s) : Region(e, j) = Region(s, j)
  BY <1>2, <1>3 DEF Region
<1>7. \A i \in Slots(e) : Placed(Region(e, i), e.mapRegions.size)
  <2>1. Placed(Region(e, id), e.mapRegions.size)
    BY <1>3, <1>5
  <2>2. ASSUME NEW i \in Slots(s) PROVE Placed(Region(e, i), e.mapRegions.size)
    <3>1. Placed(Region(s, i), s.mapRegions.size) /\ Region(e, i) = Region(s, i)
      BY <1>1, <1>6
    <3>2. /\ s.mapRegions.size \in Nat /\ t.size \in Nat
          /\ e.mapRegions.size = t.size
      BY <1>1, <1>3 DEF Regions
    <3>3. Region(s, i).type = "MMAP" => t.size <= MaxPages
      BY DEF MmapsOf, SlotsOf
    <3> QED BY <3>1, <3>2, <3>3, Numbers DEF Placed, Run
  <2> QED BY <1>5, <2>1, <2>2
<1>8. \A i, j \in Slots(e) :
        i # j /\ Region(e, i).type = Region(e, j).type
          => Region(e, i).type = "MMAP"
  <2>1. ASSUME NEW i \in Slots(s), Region(s, i).type = r.type
        PROVE  r.type = "MMAP"
    BY <2>1 DEF SlotsOf
  <2> QED BY <1>1, <1>5, <1>6, <2>1
<1>9. PagesMatch(e)
  <2>1. \A i \in Slots(s) : CellsIn(e, i) = CellsIn(s, i)
    BY <1>6 DEF CellsIn
  <2>2. CellsIn(e, id) = Cells(r.crrt.start, r.crrt.size)
    BY <1>5 DEF CellsIn
  <2>3. MmapsOf(s) \subseteq Slots(s) /\ id \notin MmapsOf(s)
    BY <1>2 DEF MmapsOf, SlotsOf
  <2>4. CASE r.type = "MMAP"
    <3>1. MmapsOf(e) = MmapsOf(s) \cup {id}
      BY <1>5, <1>6, <2>4 DEF MmapsOf, SlotsOf
    <3>2. e.mapRegions.occupied = s.mapRegions.occupied \cup CellsIn(e, id)
      BY <1>3, <2>2, <2>4
    <3>3. \A i \in MmapsOf(s) : CellsIn(e, i) \cap CellsIn(e, id) = {}
      BY <1>1, <2>1, <2>2, <2>3, <2>4 DEF PagesMatch
    <3>4. e.mapRegions.occupied = UNION {CellsIn(e, i) : i \in MmapsOf(e)}
      BY <1>1, <2>1, <2>3, <3>1, <3>2 DEF PagesMatch
    <3>5. \A i, j \in MmapsOf(e) :
            i # j => CellsIn(e, i) \cap CellsIn(e, j) = {}
      BY <1>1, <2>1, <2>3, <3>1, <3>3 DEF PagesMatch
    <3> QED BY <3>4, <3>5 DEF PagesMatch
  <2>5. CASE r.type # "MMAP"
    <3>1. MmapsOf(e) = MmapsOf(s)
      BY <1>5, <1>6, <2>5 DEF MmapsOf, SlotsOf
    <3>2. e.mapRegions.occupied = s.mapRegions.occupied
      BY <1>3, <2>5
    <3> QED BY <1>1, <2>1, <2>3, <3>1, <3>2 DEF PagesMatch
  <2> QED BY <2>4, <2>5
<1>10. SpaceInv(e)
  BY <1>2, <1>3, <1>4, <1>7, <1>8, <1>9 DEF SpaceInv
<1> QED BY <1>2, <1>5, <1>6, <1>10 DEF e, id, arr

\* What a process may use after a region was added.
LEMMA AddedUsable ==
  ASSUME NEW s, NEW e, NEW id \in Slots(e), Slots(s) \subseteq Slots(e),
         \A j \in Slots(s) : Region(e, j) = Region(s, j),
         NEW u, UsableIn(s, u), NEW w, w \subseteq Address,
         \A a \in w : StrictlyIn(Region(e, id), a)
  PROVE  UsableIn(e, u \cup w)
<1>1. ASSUME NEW a \in u PROVE IsInRegion(e, a)
  BY DEF UsableIn, IsInRegion, SlotsAt
<1>2. ASSUME NEW a \in w PROVE IsInRegion(e, a)
  BY DEF IsInRegion, SlotsAt
<1> QED BY <1>1, <1>2 DEF UsableIn

\* A region changed where it is.
SetRegion(s, i, r) == [s EXCEPT !.regions = ArrSet(@, i, r)]

LEMMA ChangedFields ==
  ASSUME NEW s, SpaceInv(s), NEW i \in Slots(s), NEW r \in RegionRecord
  PROVE  LET e == SetRegion(s, i, r)
         IN  /\ e = [regions |-> e.regions, mapRegions |-> e.mapRegions]
             /\ Slotted(e.regions, RegionRecord) /\ e.mapRegions = s.mapRegions
             /\ Slots(e) = Slots(s) /\ Region(e, i) = r
             /\ \A j \in Slots(s) : j # i => Region(e, j) = Region(s, j)
<1> DEFINE arr == ArrSet(s.regions, i, r)
           e == SetRegion(s, i, r)
<1>1. /\ s = [regions |-> s.regions, mapRegions |-> s.mapRegions]
      /\ Slotted(s.regions, RegionRecord)
  BY DEF SpaceInv
<1>2. /\ Slotted(arr, RegionRecord) /\ Occupied(arr) = Slots(s)
      /\ arr.item[i] = r
      /\ \A j \in Slots(s) : j # i => arr.item[j] = s.regions.item[j]
  BY <1>1, EmptyAssumption, SetHolds DEF Slots
<1>3. e = [s EXCEPT !.regions = arr]
  BY DEF SetRegion
<1> HIDE DEF arr, e
<1>4. e = [regions |-> arr, mapRegions |-> s.mapRegions]
  BY <1>1, <1>3
<1>5. /\ e.regions = arr /\ e.mapRegions = s.mapRegions
      /\ e = [regions |-> e.regions, mapRegions |-> e.mapRegions]
  <2>1. e.regions = arr /\ e.mapRegions = s.mapRegions
    BY <1>4
  <2> QED BY <1>4, <2>1
<1>6. Slots(e) = Slots(s) /\ Region(e, i) = r
  BY <1>2, <1>5 DEF Slots, Region
<1>7. \A j \in Slots(s) : j # i => Region(e, j) = Region(s, j)
  BY <1>2, <1>5 DEF Region
<1> QED BY <1>2, <1>5, <1>6, <1>7 DEF e

\* The invariant holds when one the loader declared stays where it may be.
LEMMA ChangedKeeps ==
  ASSUME NEW s, SpaceInv(s), NEW i \in Slots(s), NEW r \in RegionRecord,
         r.type = Region(s, i).type, r.type # "MMAP",
         Placed(r, s.mapRegions.size)
  PROVE  SpaceInv(SetRegion(s, i, r))
<1> DEFINE e == SetRegion(s, i, r)
<1>1. /\ s.mapRegions \in Regions
      /\ \A j \in Slots(s) : Placed(Region(s, j), s.mapRegions.size)
      /\ \A j, k \in Slots(s) :
           j # k /\ Region(s, j).type = Region(s, k).type
             => Region(s, j).type = "MMAP"
      /\ PagesMatch(s)
  BY DEF SpaceInv
<1>2. /\ e = [regions |-> e.regions, mapRegions |-> e.mapRegions]
      /\ Slotted(e.regions, RegionRecord) /\ e.mapRegions = s.mapRegions
      /\ Slots(e) = Slots(s) /\ Region(e, i) = r
      /\ \A j \in Slots(s) : j # i => Region(e, j) = Region(s, j)
  BY ChangedFields
<1> HIDE DEF e
<1>3. \A j \in Slots(s) : Region(e, j).type = Region(s, j).type
  BY <1>2
<1>4. \A j \in Slots(e) : Placed(Region(e, j), e.mapRegions.size)
  BY <1>1, <1>2
<1>5. \A j, k \in Slots(e) :
        j # k /\ Region(e, j).type = Region(e, k).type
          => Region(e, j).type = "MMAP"
  BY <1>1, <1>2, <1>3
<1>6. PagesMatch(e)
  <2>1. MmapsOf(e) = MmapsOf(s) /\ i \notin MmapsOf(s)
        /\ MmapsOf(s) \subseteq Slots(s)
    BY <1>2, <1>3 DEF MmapsOf, SlotsOf
  <2>2. \A j \in MmapsOf(s) : CellsIn(e, j) = CellsIn(s, j)
    BY <1>2, <2>1 DEF CellsIn
  <2> QED BY <1>1, <1>2, <2>1, <2>2 DEF PagesMatch
<1>7. SpaceInv(e)
  BY <1>1, <1>2, <1>4, <1>5, <1>6 DEF SpaceInv
<1> QED BY <1>7 DEF e

\* What a process may use after a region has grown.
LEMMA ChangedUsable ==
  ASSUME NEW s, NEW e, NEW i \in Slots(s), Slots(e) = Slots(s),
         \A j \in Slots(s) : j # i => Region(e, j) = Region(s, j),
         \A a \in Nat : StrictlyIn(Region(s, i), a) => StrictlyIn(Region(e, i), a),
         NEW u, UsableIn(s, u), NEW w, w \subseteq Address,
         \A a \in w : StrictlyIn(Region(e, i), a)
  PROVE  UsableIn(e, u \cup w)
<1>1. ASSUME NEW a \in u PROVE IsInRegion(e, a)
  <2>1. a \in Nat
    BY Numbers DEF UsableIn, Address
  <2>2. PICK j \in Slots(s) : StrictlyIn(Region(s, j), a)
    BY DEF UsableIn, IsInRegion, SlotsAt
  <2>3. StrictlyIn(Region(e, j), a)
    BY <2>1, <2>2
  <2> QED BY <2>3 DEF IsInRegion, SlotsAt
<1>2. ASSUME NEW a \in w PROVE IsInRegion(e, a)
  BY DEF IsInRegion, SlotsAt
<1> QED BY <1>1, <1>2 DEF UsableIn

\* A mapped region taken away, and its pages given back.
LEMMA RemovedKeeps ==
  ASSUME NEW s, SpaceInv(s), NEW i \in MmapsOf(s)
  PROVE  LET r == Region(s, i)
             e == [regions |-> ArrDel(s.regions, i),
                   mapRegions |-> Release(s.mapRegions, r.crrt.start,
                                          r.crrt.size)]
         IN  /\ SpaceInv(e) /\ Slots(e) = Slots(s) \ {i}
             /\ \A j \in Slots(e) : Region(e, j) = Region(s, j)
<1> DEFINE r == Region(s, i)
           arr == ArrDel(s.regions, i)
           t == Release(s.mapRegions, r.crrt.start, r.crrt.size)
           e == [regions |-> arr, mapRegions |-> t]
<1>1. /\ Slotted(s.regions, RegionRecord) /\ s.mapRegions \in Regions
      /\ \A j \in Slots(s) : Placed(Region(s, j), s.mapRegions.size)
      /\ \A j, k \in Slots(s) :
           j # k /\ Region(s, j).type = Region(s, k).type
             => Region(s, j).type = "MMAP"
      /\ PagesMatch(s)
  BY DEF SpaceInv
<1>2. /\ i \in Slots(s) /\ r.crrt.start \in Nat /\ r.crrt.size \in Nat
      /\ CellsIn(s, i) \subseteq s.mapRegions.occupied
      /\ CellsIn(s, i) = Cells(r.crrt.start, r.crrt.size)
  BY MmapFacts DEF CellsIn
<1>3. /\ Slotted(arr, RegionRecord) /\ Occupied(arr) = Slots(s) \ {i}
      /\ \A j \in Occupied(arr) : arr.item[j] = s.regions.item[j]
  BY <1>1, <1>2, EmptyAssumption, DelHolds DEF Slots
<1>4. /\ t \in Regions /\ t.size = s.mapRegions.size
      /\ t.occupied = s.mapRegions.occupied \ CellsIn(s, i)
  BY <1>1, <1>2, ReleaseFrees
<1> HIDE DEF arr, t, r
<1>5. /\ e.regions = arr /\ e.mapRegions = t
      /\ e = [regions |-> e.regions, mapRegions |-> e.mapRegions]
  OBVIOUS
<1> HIDE DEF e
<1>6. Slots(e) = Slots(s) \ {i}
  BY <1>3, <1>5 DEF Slots
<1>7. \A j \in Slots(e) : Region(e, j) = Region(s, j)
  BY <1>3, <1>5, <1>6 DEF Region
<1>8. \A j \in Slots(e) : Placed(Region(e, j), e.mapRegions.size)
  BY <1>1, <1>4, <1>5, <1>6, <1>7
<1>9. \A j, k \in Slots(e) :
        j # k /\ Region(e, j).type = Region(e, k).type
          => Region(e, j).type = "MMAP"
  BY <1>1, <1>6, <1>7
<1>10. PagesMatch(e)
  <2>1. MmapsOf(e) = MmapsOf(s) \ {i}
    BY <1>6, <1>7 DEF MmapsOf, SlotsOf
  <2>2. \A j \in MmapsOf(e) : CellsIn(e, j) = CellsIn(s, j)
    BY <1>7 DEF CellsIn, MmapsOf, SlotsOf
  <2>3. e.mapRegions.occupied = s.mapRegions.occupied \ CellsIn(s, i)
    BY <1>4, <1>5
  <2>4. ASSUME NEW c \in e.mapRegions.occupied
        PROVE  \E j \in MmapsOf(e) : c \in CellsIn(e, j)
    BY <1>1, <2>1, <2>2, <2>3 DEF PagesMatch
  <2>5. ASSUME NEW j \in MmapsOf(e), NEW c \in CellsIn(e, j)
        PROVE  c \in e.mapRegions.occupied
    BY <1>1, <2>1, <2>2, <2>3 DEF PagesMatch
  <2>6. e.mapRegions.occupied = UNION {CellsIn(e, j) : j \in MmapsOf(e)}
    BY <2>4, <2>5
  <2>7. \A j, k \in MmapsOf(e) : j # k => CellsIn(e, j) \cap CellsIn(e, k) = {}
    BY <1>1, <2>1, <2>2 DEF PagesMatch
  <2> QED BY <2>6, <2>7 DEF PagesMatch
<1>11. SpaceInv(e)
  BY <1>3, <1>4, <1>5, <1>8, <1>9, <1>10 DEF SpaceInv
<1> QED BY <1>6, <1>7, <1>11 DEF e, arr, t, r

-----------------------------------------------------------------------------
(* The calls *)

\* What an address space looks like for its process.
IInv == SpaceInv(ar) /\ UsableIn(ar, usable)

\* AddressRegion__init
LEMMA InitKeeps == Init => IInv
<1> SUFFICES ASSUME Init PROVE IInv
  OBVIOUS
<1> DEFINE arr == [item |-> [i \in 0..3 |-> Empty], alloced |-> 0, length |-> 4,
                   tail |-> 0]
           t == [occupied |-> {}, size |-> 4, allocated |-> 0, last_index |-> 0]
<1>1. ar = [regions |-> arr, mapRegions |-> t] /\ usable = {}
  BY DEF Init, EmptySpace, EmptyArr, EmptyRegions
<1>2. arr.length = 4 /\ \A i \in 0..3 : arr.item[i] = Empty
  OBVIOUS
<1>3. Occupied(arr) = {}
  <2>1. 0..(arr.length - 1) = 0..3
    BY <1>2
  <2> HIDE DEF arr
  <2> QED BY <1>2, <2>1 DEF Occupied
<1>4. Slotted(arr, RegionRecord)
  <2>1. Cardinality(Occupied(arr)) = 0
    BY <1>3, FS_EmptySet
  <2>2. arr.item \in [0..3 -> RegionRecord \cup {Empty}]
    OBVIOUS
  <2>3. /\ arr.alloced = 0 /\ arr.length = 4 /\ arr.tail = 0
        /\ arr = [item |-> arr.item, alloced |-> arr.alloced,
                  length |-> arr.length, tail |-> arr.tail]
    OBVIOUS
  <2> HIDE DEF arr
  <2> QED BY <2>1, <2>2, <2>3 DEF Slotted
<1>5. t \in Regions
  <2>1. Cardinality({}) = 0
    BY FS_EmptySet
  <2>2. /\ t.occupied = {} /\ t.size = 4 /\ t.allocated = 0 /\ t.last_index = 0
        /\ t \in [occupied : SUBSET Nat, size : Nat, allocated : Nat,
                  last_index : Nat]
    OBVIOUS
  <2> HIDE DEF t
  <2> QED BY <2>1, <2>2 DEF Regions
<1>6. t.occupied = {}
  OBVIOUS
<1> HIDE DEF arr, t
<1>7. /\ ar.regions = arr /\ ar.mapRegions = t
      /\ ar = [regions |-> ar.regions, mapRegions |-> ar.mapRegions]
  BY <1>1
<1>8. Slots(ar) = {} /\ MmapsOf(ar) = {}
  BY <1>3, <1>7 DEF Slots, MmapsOf, SlotsOf
<1>9. PagesMatch(ar)
  BY <1>6, <1>7, <1>8 DEF PagesMatch
<1>10. SpaceInv(ar)
  BY <1>4, <1>5, <1>7, <1>8, <1>9 DEF SpaceInv
<1> QED BY <1>1, <1>10 DEF IInv, UsableIn

\* AddressRegion__declare
LEMMA DeclareKeeps ==
  ASSUME IInv, NEW type \in DOMAIN Layout, DeclareRegion(type)
  PROVE  IInv'
<1> DEFINE r == [type |-> type, size |-> Layout[type].size, crrt |-> NULL,
                 start |-> IF type = "STACK"
                           THEN Minus(Layout[type].start, Layout[type].size)
                           ELSE Layout[type].start]
           id == ArrAdd(ar.regions, r).id
           e == [regions |-> ArrAdd(ar.regions, r).arr,
                 mapRegions |-> ar.mapRegions]
<1>1. /\ SpaceInv(ar) /\ UsableIn(ar, usable)
      /\ ar = [regions |-> ar.regions, mapRegions |-> ar.mapRegions]
      /\ ar.mapRegions \in Regions
  BY DEF IInv, SpaceInv
<1>2. /\ type # "MMAP" /\ Layout[type].start \in Nat /\ Layout[type].size \in Nat
      /\ Layout[type].size >= PAGE
      /\ IF type = "STACK"
         THEN /\ Layout[type].size <= Layout[type].start
              /\ Layout[type].start <= MMAP_START
         ELSE Layout[type].start + Layout[type].size <= MMAP_START
      /\ type = "HEAP" => Layout[type].start + Layout[type].size <= HeapEnd
  BY LayoutAssumption
<1>3. /\ r.type = type /\ r.size = Layout[type].size /\ r.crrt = NULL
      /\ r.start = IF type = "STACK" THEN Layout[type].start - Layout[type].size
                                     ELSE Layout[type].start
  <2>1. Layout[type].start \in Address /\ Layout[type].size \in Address
    BY <1>2, Numbers DEF Address
  <2>2. type = "STACK" => Minus(Layout[type].start, Layout[type].size)
                            = Layout[type].start - Layout[type].size
    BY <1>2, <2>1, MinusIs
  <2> QED BY <2>2
<1>4. r.start \in Address /\ r.size \in Address
  BY <1>2, <1>3, Numbers DEF Address
<1>5. r \in RegionRecord
  <2>1. r = [type |-> r.type, start |-> r.start, size |-> r.size,
             crrt |-> r.crrt]
    BY DEF r
  <2> HIDE DEF r
  <2> QED BY <1>3, <1>4, <2>1 DEF RegionRecord
<1>6. ar' = e
  <2>1. ar' = [ar EXCEPT !.regions = ArrAdd(ar.regions, r).arr]
    BY DEF DeclareRegion, Declare
  <2> HIDE DEF r
  <2> QED BY <1>1, <2>1
<1> HIDE DEF r
<1>7. Placed(r, ar.mapRegions.size)
  BY <1>2, <1>3, Numbers DEF Placed
<1>8. SlotsOf(ar, r.type) = {} /\ usable' = usable
        \cup RangeOf(Region(ar', Max(SlotsOf(ar', type))))
  BY <1>3 DEF DeclareRegion
<1>9. MmapsOf(ar) # {} => ar.mapRegions.size <= MaxPages
  BY <1>1, MmapFacts
<1>10. /\ SpaceInv(e)
       /\ Slots(e) = Slots(ar) \cup {id} /\ id \notin Slots(ar)
       /\ Region(e, id) = r
       /\ \A j \in Slots(ar) : Region(e, j) = Region(ar, j)
  <2>1. ar.mapRegions.size <= ar.mapRegions.size
    BY <1>1 DEF Regions
  <2> QED BY <1>1, <1>2, <1>3, <1>5, <1>7, <1>8, <1>9, <2>1, AddedKeeps
<1> HIDE DEF e, id
<1>11. Max(SlotsOf(e, type)) = id
  <2>1. SlotsOf(e, type) = {id}
    BY <1>3, <1>8, <1>10 DEF SlotsOf
  <2> DEFINE S == SlotsOf(e, type)
             m == e.regions.length
  <2>2. S \subseteq 0..m /\ m \in Nat /\ S # {}
    BY <1>10, <2>1, SlotFacts DEF SlotsOf
  <2> HIDE DEF S, m
  <2>3. Max(S) \in S
    BY <2>2, MaxOfNats
  <2> QED BY <2>1, <2>3 DEF S
<1>12. RangeOf(r) \subseteq Address /\ \A a \in RangeOf(r) : StrictlyIn(r, a)
  <2>1. /\ r.start \in Nat /\ r.size \in Nat /\ r.start + r.size < WORD
        /\ \A a \in Nat : StrictlyIn(r, a)
                            <=> r.start <= a /\ a < r.start + r.size
    <3>1. ar.mapRegions.size \in Nat
      BY <1>1 DEF Regions
    <3> QED BY <1>5, <1>7, <3>1, ExtentIs, RecordFields
  <2>2. ASSUME NEW a \in RangeOf(r) PROVE a \in Address /\ StrictlyIn(r, a)
    <3>1. a \in Nat /\ r.start <= a /\ a < r.start + r.size /\ a < WORD
      BY <2>1, Numbers DEF RangeOf
    <3> QED BY <2>1, <3>1, Numbers DEF Address
  <2> QED BY <2>2
<1>13. UsableIn(e, usable \cup RangeOf(r))
  <2>1. id \in Slots(e) /\ Slots(ar) \subseteq Slots(e)
    BY <1>10
  <2> DEFINE w == RangeOf(r)
  <2>2. w \subseteq Address /\ \A a \in w : StrictlyIn(Region(e, id), a)
    BY <1>10, <1>12
  <2> HIDE DEF w
  <2>3. UsableIn(e, usable \cup w)
    BY <1>1, <1>10, <2>1, <2>2, AddedUsable
  <2> QED BY <2>3 DEF w
<1> QED BY <1>6, <1>8, <1>10, <1>11, <1>13 DEF IInv

\* AddressRegion__declareForMmap
LEMMA MmapKeeps ==
  ASSUME IInv, NEW size \in Sizes, Mmap(size)
  PROVE  IInv'
<1> DEFINE n == Align(size) \div PAGE
           run == RequestRegion(ar.mapRegions, n)
           b == run.start
           t == run.cr
           r == [type |-> "MMAP", start |-> Plus(run.start * PAGE, MMAP_START),
                 size |-> (n * PAGE) % WORD,
                 crrt |-> [start |-> run.start, size |-> n]]
           id == ArrAdd(ar.regions, r).id
           e == [regions |-> ArrAdd(ar.regions, r).arr, mapRegions |-> t]
<1>1. /\ SpaceInv(ar) /\ UsableIn(ar, usable) /\ ar.mapRegions \in Regions
  BY DEF IInv, SpaceInv
<1>2. size \in Nat /\ MMAP_START + size + PAGE <= WORD
  BY Numbers
<1>3. n \in Nat /\ Align(size) = PAGE * n /\ size <= Align(size)
  <2>1. size + PAGE <= WORD
    BY <1>2, Numbers
  <2> QED BY <1>2, <2>1, AlignIs
<1>4. /\ ar' = e /\ t.size <= MaxPages
      /\ usable' = usable \cup (r.start..(r.start + size - 1))
  BY DEF Mmap, DeclareForMmap
<1> HIDE DEF n
<1>5. /\ t \in Regions /\ ar.mapRegions.size <= t.size
      /\ b \in Nat /\ b + n <= t.size
      /\ Cells(b, n) \cap ar.mapRegions.occupied = {}
      /\ t.occupied = ar.mapRegions.occupied \cup Cells(b, n)
  BY <1>1, <1>3, RequestGrants
<1> HIDE DEF run
<1>6. /\ b * PAGE \in Nat /\ n * PAGE \in Nat /\ n * PAGE = PAGE * n
      /\ MMAP_START + b * PAGE + n * PAGE < WORD
  <2>1. PICK z \in Nat : MaxPages = b + n + z
    <3>1. MaxPages - (b + n) \in Nat /\ MaxPages = b + n + (MaxPages - (b + n))
          /\ t.size \in Nat
      BY <1>3, <1>4, <1>5, Numbers DEF Regions
    <3> QED BY <3>1
  <2> HIDE DEF b
  <2>2. /\ MaxPages * PAGE = b * PAGE + n * PAGE + z * PAGE
        /\ z * PAGE \in Nat /\ b * PAGE \in Nat /\ n * PAGE \in Nat
        /\ n * PAGE = PAGE * n
    BY <1>3, <1>5, <2>1, Numbers
  <2> QED BY <2>2, Numbers
<1>7. /\ r.start = MMAP_START + b * PAGE /\ r.size = n * PAGE /\ r.type = "MMAP"
      /\ r.crrt = [start |-> b, size |-> n]
  <2> DEFINE x == n * PAGE
             y == b * PAGE
  <2>1. x \in Nat /\ x < WORD /\ y \in Nat /\ y + MMAP_START < WORD
    BY <1>6, Numbers
  <2> HIDE DEF x, y
  <2>2. x % WORD = x
    <3>1. x \in 0..(WORD - 1) /\ x \in Int /\ 0 \in Int /\ x = WORD * 0 + x
      BY <2>1, Numbers
    <3> QED BY <3>1, Numbers, QuotientIsUnique
  <2>3. Plus(y, MMAP_START) = y + MMAP_START
    BY <2>1, Numbers, PlusIs
  <2> QED BY <2>1, <2>2, <2>3, Numbers DEF x, y
<1>8. r.crrt.start = b /\ r.crrt.size = n /\ r.crrt \in Run
  BY <1>3, <1>5, <1>7 DEF Run
<1>9. r \in RegionRecord
  <2>1. r = [type |-> r.type, start |-> r.start, size |-> r.size,
             crrt |-> r.crrt]
    BY DEF r
  <2> HIDE DEF r, b, t, e, id
  <2>2. r.start \in Address /\ r.size \in Address
    BY <1>6, <1>7, Numbers DEF Address
  <2> QED BY <1>7, <1>8, <2>1, <2>2 DEF RegionRecord
<1> HIDE DEF r, b, t
<1>10. Placed(r, t.size)
  BY <1>4, <1>5, <1>7, <1>8 DEF Placed
<1>11. /\ SpaceInv(e)
       /\ Slots(e) = Slots(ar) \cup {id} /\ id \notin Slots(ar)
       /\ Region(e, id) = r
       /\ \A j \in Slots(ar) : Region(e, j) = Region(ar, j)
  BY <1>1, <1>4, <1>5, <1>7, <1>8, <1>9, <1>10, AddedKeeps
<1> HIDE DEF e, id
<1> DEFINE w == r.start..(r.start + size - 1)
<1>12. w \subseteq Address /\ \A a \in w : StrictlyIn(Region(e, id), a)
  <2>1. /\ r.start \in Nat /\ r.size \in Nat /\ r.start + r.size < WORD
        /\ \A a \in Nat : StrictlyIn(r, a)
                            <=> r.start <= a /\ a < r.start + r.size
    <3>1. t.size \in Nat
      BY <1>5 DEF Regions
    <3> QED BY <1>9, <1>10, <3>1, ExtentIs, RecordFields
  <2>2. size <= r.size
    BY <1>3, <1>6, <1>7
  <2>3. ASSUME NEW a \in w PROVE a \in Address /\ StrictlyIn(r, a)
    <3>1. a \in Nat /\ r.start <= a /\ a < r.start + r.size /\ a < WORD
      BY <1>2, <2>1, <2>2, Numbers
    <3> QED BY <2>1, <3>1, Numbers DEF Address
  <2> QED BY <1>11, <2>3
<1> HIDE DEF w
<1>13. UsableIn(e, usable \cup w)
  <2>1. id \in Slots(e) /\ Slots(ar) \subseteq Slots(e)
    BY <1>11
  <2> QED BY <1>1, <1>11, <1>12, <2>1, AddedUsable
<1> QED BY <1>4, <1>11, <1>13 DEF IInv, w

\* AddressRegion__unmap
LEMMA MunmapKeeps ==
  ASSUME IInv, NEW a, NEW size, Munmap(a, size)
  PROVE  IInv'
<1> DEFINE i == Max(SlotsAt(ar, a))
           r == Region(ar, i)
           e == [regions |-> ArrDel(ar.regions, i),
                 mapRegions |-> Release(ar.mapRegions, r.crrt.start,
                                        r.crrt.size)]
<1>1. SpaceInv(ar) /\ UsableIn(ar, usable)
  BY DEF IInv
<1>2. Unmappable(ar, a, size)
  BY DEF Munmap, Unmap
<1>3. /\ ar' = e /\ usable' = usable \ (r.start..(r.start + size - 1))
  BY <1>2 DEF Munmap, Unmap
<1>4. i \in Slots(ar) /\ r.type = "MMAP" /\ r.size = size
  <2>1. SlotsAt(ar, a) # {} /\ r.type = "MMAP" /\ r.size = size
    BY <1>2 DEF Unmappable, IsInRegion, TypeAt
  <2> QED BY <1>1, <2>1, LastThere DEF SlotsAt
<1> HIDE DEF i
<1>5. i \in MmapsOf(ar)
  BY <1>4 DEF MmapsOf, SlotsOf
<1>6. /\ SpaceInv(e) /\ Slots(e) = Slots(ar) \ {i}
      /\ \A j \in Slots(e) : Region(e, j) = Region(ar, j)
  BY <1>1, <1>5, RemovedKeeps
<1> HIDE DEF e
<1>7. ASSUME NEW b \in usable \ (r.start..(r.start + size - 1))
      PROVE  b \in Address /\ IsInRegion(e, b)
  <2>1. b \in Address /\ IsInRegion(ar, b) /\ b \in Nat
    BY <1>1, Numbers DEF UsableIn, Address
  <2>2. PICK j \in Slots(ar) : StrictlyIn(Region(ar, j), b)
    BY <2>1 DEF IsInRegion, SlotsAt
  <2>3. j # i
    <3>1. SUFFICES ASSUME StrictlyIn(r, b) PROVE FALSE
      BY <2>2
    <3>2. /\ r \in RegionRecord /\ Placed(r, ar.mapRegions.size)
          /\ ar.mapRegions.size \in Nat
      BY <1>1, <1>4, SlotFacts DEF SpaceInv, Regions
    <3>3. r.start \in Nat /\ r.size \in Nat
          /\ (StrictlyIn(r, b) <=> r.start <= b /\ b < r.start + r.size)
      BY <2>1, <3>2, ExtentIs, RecordFields
    <3>4. b \in r.start..(r.start + size - 1)
      BY <1>4, <2>1, <3>1, <3>3
    <3> QED BY <3>4
  <2>4. j \in Slots(e) /\ StrictlyIn(Region(e, j), b)
    BY <1>6, <2>2, <2>3
  <2> QED BY <2>1, <2>4 DEF IsInRegion, SlotsAt
<1>8. UsableIn(e, usable \ (r.start..(r.start + size - 1)))
  BY <1>7 DEF UsableIn
<1> QED BY <1>3, <1>6, <1>8 DEF IInv

\* AddressRegion__resizeByAddr
LEMMA ResizeKeeps ==
  ASSUME IInv, NEW type \in {"HEAP", "STACK"}, NEW a \in Touched, Resize(type, a)
  PROVE  IInv'
<1> DEFINE i == Min(SlotsOf(ar, type))
           r == Region(ar, i)
           g == IF type = "HEAP" THEN HeapGrown(r, a) ELSE StackGrown(r, a)
           e == SetRegion(ar, i, g)
<1>1. /\ SpaceInv(ar) /\ UsableIn(ar, usable) /\ ar.mapRegions.size \in Nat
  BY DEF IInv, SpaceInv, Regions
<1>2. a \in Address /\ a \in Nat
  BY LayoutAssumption, Numbers DEF Address
<1>3. /\ ar' = ResizeByAddr(ar, type, a).ar
      /\ usable' = IF ResizeByAddr(ar, type, a).ok
                   THEN usable \cup Granted(type, a) ELSE usable
      /\ \A j \in SlotsOf(ar', "HEAP") :
           Region(ar', j).start + Region(ar', j).size <= HeapEnd
      /\ \A j \in SlotsOf(ar', "STACK") : Region(ar', j).start < MMAP_START
  BY DEF Resize, InBounds
<1>4. CASE ~ ResizeByAddr(ar, type, a).ok
  <2>1. ar' = ar /\ usable' = usable
    <3>1. ResizeByAddr(ar, type, a).ar = ar
      BY <1>4 DEF ResizeByAddr
    <3> QED BY <1>3, <1>4, <3>1
  <2> QED BY <1>1, <2>1 DEF IInv
<1>5. CASE ResizeByAddr(ar, type, a).ok
  <2>1. SlotsOf(ar, type) # {}
    BY <1>5 DEF ResizeByAddr
  <2>2. i \in Slots(ar) /\ r.type = type /\ i \in SlotsOf(ar, type)
    BY <1>1, <2>1, FirstOfType DEF SlotsOf
  <2>3. /\ Granted(type, a) = IF type = "HEAP" THEN r.start..(a - 1)
                                               ELSE {a} \cup (a..(r.start - 1))
        /\ usable' = usable \cup Granted(type, a)
    BY <1>3, <1>5 DEF Granted
  <2>4. StrictlyIn(r, a) \/ MayReach(r, a)
    BY <1>5, <2>1 DEF ResizeByAddr
  <2>5. ar' = IF StrictlyIn(r, a) THEN ar ELSE e
    <3>1. CASE StrictlyIn(r, a)
      BY <1>3, <2>1, <3>1 DEF ResizeByAddr
    <3>2. CASE ~ StrictlyIn(r, a)
      <4>1. ar' = [ar EXCEPT !.regions.item[i] =
                     IF type = "HEAP" THEN HeapGrown(r, a) ELSE StackGrown(r, a)]
        BY <1>3, <2>1, <2>4, <3>2 DEF ResizeByAddr
      <4>2. ar' = e
        BY <4>1 DEF ArrSet, SetRegion
      <4> QED BY <3>2, <4>2
    <3> QED BY <3>1, <3>2
  <2> HIDE DEF i
  <2>6. /\ r \in RegionRecord /\ Placed(r, ar.mapRegions.size)
        /\ r.start \in Nat /\ r.size \in Nat /\ r.start + r.size < WORD
        /\ \A b \in Nat : StrictlyIn(r, b)
                            <=> r.start <= b /\ b < r.start + r.size
    <3>1. r \in RegionRecord /\ Placed(r, ar.mapRegions.size)
      BY <1>1, <2>2, SlotFacts DEF SpaceInv
    <3> QED BY <1>1, <3>1, ExtentIs, RecordFields
  <2>7. CASE StrictlyIn(r, a)
    <3>1. ar' = ar
      BY <2>5, <2>7
    <3>2. r.start <= a /\ a < r.start + r.size
      BY <1>2, <2>6, <2>7
    <3>3. ASSUME NEW b \in Granted(type, a) PROVE b \in Address /\ StrictlyIn(r, b)
      <4>1. b \in r.start..a
        BY <1>2, <2>3, <2>6, <3>2
      <4>2. b \in Nat /\ r.start <= b /\ b < r.start + r.size /\ b < WORD
        BY <1>2, <2>6, <3>2, <4>1, Numbers
      <4> QED BY <2>6, <4>2, Numbers DEF Address
    <3>4. UsableIn(ar, usable \cup Granted(type, a))
      BY <1>1, <2>2, <3>3 DEF UsableIn, IsInRegion, SlotsAt
    <3> QED BY <1>1, <2>3, <3>1, <3>4 DEF IInv
  <2>8. CASE ~ StrictlyIn(r, a)
    <3>1. ar' = e /\ MayReach(r, a)
      BY <2>4, <2>5, <2>8
    <3>2. g \in RegionRecord /\ g.type = type
      BY <1>2, <2>2, <2>6, GrownRecords
    <3> HIDE DEF r
    <3>3. /\ Slots(e) = Slots(ar) /\ Region(e, i) = g
          /\ \A j \in Slots(ar) : j # i => Region(e, j) = Region(ar, j)
      <4> HIDE DEF g
      <4> QED BY <1>1, <2>2, <3>2, ChangedFields
    <3>4. i \in SlotsOf(ar', type) /\ Region(ar', i) = g
      BY <2>2, <3>1, <3>2, <3>3 DEF SlotsOf
    <3>5. /\ Placed(g, ar.mapRegions.size)
          /\ \A b \in Nat : StrictlyIn(r, b) => StrictlyIn(g, b)
          /\ \A b \in Granted(type, a) : b \in Address /\ StrictlyIn(g, b)
      <4>1. CASE type = "HEAP"
        <5>1. g = HeapGrown(r, a) /\ g.start + g.size <= HeapEnd
          BY <1>3, <3>4, <4>1
        <5> QED BY <1>1, <1>2, <2>2, <2>3, <2>6, <2>8, <3>1, <4>1, <5>1,
                   HeapReaches DEF r
      <4>2. CASE type = "STACK"
        <5>1. g = StackGrown(r, a) /\ g.start < MMAP_START
          BY <1>3, <3>4, <4>2
        <5> QED BY <1>1, <1>2, <2>2, <2>3, <2>6, <2>8, <3>1, <4>2, <5>1,
                   StackReaches DEF r
      <4> QED BY <4>1, <4>2
    <3> HIDE DEF g
    <3>6. SpaceInv(e)
      <4>1. g.type = Region(ar, i).type /\ g.type # "MMAP"
        BY <2>2, <3>2 DEF r
      <4> QED BY <1>1, <2>2, <3>2, <3>5, <4>1, ChangedKeeps
    <3>7. UsableIn(e, usable \cup Granted(type, a))
      <4> DEFINE w == Granted(type, a)
      <4>1. w \subseteq Address /\ \A b \in w : StrictlyIn(Region(e, i), b)
        BY <3>3, <3>5
      <4> HIDE DEF w, e
      <4>2. \A b \in Nat : StrictlyIn(Region(ar, i), b)
                              => StrictlyIn(Region(e, i), b)
        BY <3>3, <3>5 DEF r
      <4>3. UsableIn(e, usable \cup w)
        BY <1>1, <2>2, <3>3, <4>1, <4>2, ChangedUsable
      <4> QED BY <4>3 DEF w
    <3> QED BY <2>3, <3>1, <3>6, <3>7 DEF IInv
  <2> QED BY <2>7, <2>8
<1> QED BY <1>4, <1>5

\* AddressRegion__regionAddSize
LEMMA AddSizeKeeps ==
  ASSUME IInv, NEW n \in Sizes, AddSize(n)
  PROVE  IInv'
<1> DEFINE i == Min(SlotsOf(ar, "HEAP"))
           r == Region(ar, i)
           z == Plus(r.size, n)
           g == [r EXCEPT !.size = z]
           e == SetRegion(ar, i, g)
<1>1. /\ SpaceInv(ar) /\ UsableIn(ar, usable) /\ ar.mapRegions.size \in Nat
  BY DEF IInv, SpaceInv, Regions
<1>2. SlotsOf(ar, "HEAP") # {}
  BY LayoutAssumption DEF AddSize, Loaded
<1>3. i \in Slots(ar) /\ r.type = "HEAP"
  BY <1>1, <1>2, FirstOfType DEF SlotsOf
<1>4. /\ \A j \in SlotsOf(ar', "HEAP") :
           Region(ar', j).start + Region(ar', j).size <= HeapEnd
      /\ usable' = usable \cup RangeOf(Region(ar', Min(SlotsOf(ar', "HEAP"))))
  BY DEF AddSize, InBounds
<1>5. ar' = e
  <2>1. ar' = [ar EXCEPT !.regions.item[i].size = Plus(@, n)]
    BY <1>2 DEF AddSize, RegionAddSize
  <2> QED BY <2>1 DEF SetRegion, ArrSet, Region
<1> HIDE DEF i
<1>6. /\ r \in RegionRecord /\ Placed(r, ar.mapRegions.size)
      /\ r.start \in Nat /\ r.size \in Nat /\ r.start \in Address
      /\ r = [type |-> r.type, start |-> r.start, size |-> r.size,
              crrt |-> r.crrt]
      /\ r.type \in DOMAIN Layout \cup {"MMAP"} /\ r.crrt \in Run \cup {NULL}
      /\ \A b \in Nat : StrictlyIn(r, b)
                          <=> r.start <= b /\ b < r.start + r.size
  <2>1. r \in RegionRecord /\ Placed(r, ar.mapRegions.size)
    BY <1>1, <1>3, SlotFacts DEF SpaceInv
  <2> QED BY <1>1, <2>1, ExtentIs, RecordFields
<1>7. /\ r.crrt = NULL /\ r.start + r.size <= MMAP_START
  BY <1>3, <1>6 DEF Placed
<1>8. z = r.size + n /\ n \in Nat
  <2>1. n \in Nat /\ r.size + n < WORD
    BY <1>6, <1>7, Numbers
  <2> QED BY <1>6, <2>1, PlusIs
<1> HIDE DEF r, z
<1>9. g = [type |-> r.type, start |-> r.start, size |-> z, crrt |-> r.crrt]
  BY <1>6
<1>10. g.type = "HEAP" /\ g.start = r.start /\ g.size = z /\ g.crrt = NULL
  BY <1>3, <1>7, <1>9
<1>11. z \in Address
  BY <1>6, <1>7, <1>8, Numbers DEF Address
<1>12. g \in RegionRecord
  BY <1>6, <1>9, <1>11 DEF RegionRecord
<1> HIDE DEF g
<1>13. /\ Slots(e) = Slots(ar) /\ Region(e, i) = g
       /\ \A j \in Slots(ar) : j # i => Region(e, j) = Region(ar, j)
  BY <1>1, <1>3, <1>12, ChangedFields
<1>14. i \in SlotsOf(e, "HEAP")
  BY <1>3, <1>10, <1>13 DEF SlotsOf
<1>15. g.start + g.size <= HeapEnd
  BY <1>4, <1>5, <1>13, <1>14
<1>16. Placed(g, ar.mapRegions.size)
  BY <1>6, <1>8, <1>10, <1>15, Numbers DEF Placed
<1>17. SpaceInv(e)
  <2>1. g.type = Region(ar, i).type /\ g.type # "MMAP"
    BY <1>3, <1>10 DEF r
  <2> QED BY <1>1, <1>3, <1>12, <1>16, <2>1, ChangedKeeps
<1> HIDE DEF e
<1>18. Min(SlotsOf(e, "HEAP")) = i
  <2> DEFINE j == Min(SlotsOf(e, "HEAP"))
  <2>1. j \in SlotsOf(e, "HEAP")
    BY <1>14, <1>17, FirstOfType
  <2> HIDE DEF j
  <2>2. j = i
    BY <1>14, <1>17, <2>1 DEF SlotsOf, SpaceInv
  <2> QED BY <2>2 DEF j
<1> DEFINE w == RangeOf(g)
<1>19. /\ \A b \in Nat : StrictlyIn(r, b) => StrictlyIn(g, b)
       /\ w \subseteq Address /\ \A b \in w : StrictlyIn(g, b)
  <2>1. /\ g.start + g.size < WORD
        /\ \A b \in Nat : StrictlyIn(g, b)
                            <=> g.start <= b /\ b < g.start + g.size
    BY <1>1, <1>12, <1>16, ExtentIs
  <2>2. ASSUME NEW b \in Nat, StrictlyIn(r, b) PROVE StrictlyIn(g, b)
    BY <1>6, <1>8, <1>10, <2>1, <2>2
  <2>3. ASSUME NEW b \in w PROVE b \in Address /\ StrictlyIn(g, b)
    <3>1. b \in Nat /\ g.start <= b /\ b < g.start + g.size /\ b < WORD
      BY <1>6, <1>8, <1>10, <2>1, Numbers DEF RangeOf
    <3> QED BY <2>1, <3>1, Numbers DEF Address
  <2> QED BY <2>2, <2>3
<1> HIDE DEF w
<1>20. UsableIn(e, usable \cup w)
  <2>1. \A b \in w : StrictlyIn(Region(e, i), b)
    BY <1>13, <1>19
  <2>2. \A b \in Nat : StrictlyIn(Region(ar, i), b) => StrictlyIn(Region(e, i), b)
    BY <1>13, <1>19 DEF r
  <2> QED BY <1>1, <1>3, <1>13, <1>19, <2>1, <2>2, ChangedUsable
<1> QED BY <1>4, <1>5, <1>13, <1>17, <1>18, <1>20 DEF IInv, w

LEMMA NextKeeps == IInv /\ [Next]_vars => IInv'
<1> SUFFICES ASSUME IInv, [Next]_vars PROVE IInv'
  OBVIOUS
<1>1. ASSUME NEW t \in DOMAIN Layout, DeclareRegion(t) PROVE IInv'
  BY <1>1, DeclareKeeps
<1>2. ASSUME NEW t \in {"HEAP", "STACK"}, NEW a \in Touched, Resize(t, a)
      PROVE  IInv'
  BY <1>2, ResizeKeeps
<1>3. ASSUME NEW n \in Sizes, AddSize(n) PROVE IInv'
  BY <1>3, AddSizeKeeps
<1>4. ASSUME NEW n \in Sizes, Mmap(n) PROVE IInv'
  BY <1>4, MmapKeeps
<1>5. ASSUME NEW n \in Sizes, NEW a \in usable, Munmap(a, n) PROVE IInv'
  BY <1>5, MunmapKeeps
<1>6. CASE UNCHANGED vars
  BY <1>6 DEF IInv, vars
<1> QED BY <1>1, <1>2, <1>3, <1>4, <1>5, <1>6 DEF Next

LEMMA InvariantHolds == Spec => []IInv
BY InitKeeps, NextKeeps, PTL DEF Spec

-----------------------------------------------------------------------------
(* What the invariant shows *)

\* A set in which all is one has at most one element.
LEMMA AtMostOne ==
  ASSUME NEW S, \A i, j \in S : i = j
  PROVE  Cardinality(S) <= 1
<1>1. CASE S = {}
  <2>1. Cardinality(S) = 0
    BY <1>1, FS_EmptySet
  <2> QED BY <2>1
<1>2. CASE S # {}
  <2>1. PICK x \in S : TRUE
    BY <1>2
  <2>2. S = {x}
    BY <2>1
  <2>3. Cardinality(S) = 1
    BY <2>2, FS_Singleton
  <2> QED BY <2>3
<1> QED BY <1>1, <1>2

LEMMA InvTyped == IInv => TypeOK
<1> SUFFICES ASSUME IInv PROVE TypeOK
  OBVIOUS
<1>1. SpaceInv(ar) /\ UsableIn(ar, usable)
  BY DEF IInv
<1>2. \A i \in Slots(ar) : Region(ar, i) \in RegionRecord
  BY <1>1, SlotFacts
<1>3. ASSUME NEW t \in DOMAIN Layout PROVE Cardinality(SlotsOf(ar, t)) <= 1
  <2>1. t # "MMAP"
    BY LayoutAssumption
  <2>2. \A i, j \in SlotsOf(ar, t) : i = j
    BY <1>1, <2>1 DEF SpaceInv, SlotsOf
  <2> QED BY <2>2, AtMostOne
<1>4. ar.regions.alloced = Cardinality(Slots(ar))
  BY <1>1 DEF SpaceInv, Slotted, Slots
<1> QED BY <1>1, <1>2, <1>3, <1>4 DEF TypeOK, UsableIn

(***************************************************************************)
(* What mapRegions has in use is what the mapped regions have, and no two  *)
(* of them have the same page: for every layout of the process, every page *)
(* size, and whatever is mapped, unmapped and grown, pages do not leak and *)
(* the assertion of ContinueRegion__release does not fail.                 *)
(***************************************************************************)
THEOREM PagesAgree == Spec => []PagesMatchRegions
<1>1. IInv => PagesMatchRegions
  <2> SUFFICES ASSUME IInv PROVE PagesMatchRegions
    OBVIOUS
  <2>1. /\ SpaceInv(ar) /\ PagesMatch(ar) /\ ar.mapRegions \in Regions
    BY DEF IInv, SpaceInv
  <2>2. TypeOK
    BY InvTyped
  <2>3. Mmaps = MmapsOf(ar) /\ \A i \in Mmaps : CellsAt(i) = CellsIn(ar, i)
    BY DEF Mmaps, MmapsOf, CellsAt, CellsIn
  <2>4. ar.mapRegions.allocated = Cardinality(ar.mapRegions.occupied)
    BY <2>1 DEF Regions
  <2>5. ar.mapRegions.occupied = UNION {CellsAt(i) : i \in Mmaps}
    BY <2>1, <2>3 DEF PagesMatch
  <2>6. \A i, j \in Mmaps : i # j => CellsAt(i) \cap CellsAt(j) = {}
    BY <2>1, <2>3 DEF PagesMatch
  <2>7. \A i \in Mmaps :
          LET r == Region(ar, i)
          IN  /\ r.start = MMAP_START + r.crrt.start * PAGE
              /\ r.size = r.crrt.size * PAGE
    BY <2>1, <2>3, MmapFacts
  <2> QED BY <2>2, <2>4, <2>5, <2>6, <2>7 DEF PagesMatchRegions
<1> QED BY InvariantHolds, <1>1, PTL

(***************************************************************************)
(* What declare, resizeByAddr, regionAddSize and mmap granted is in a      *)
(* region until it is unmapped, whatever else grows into it, is mapped     *)
(* beside it or takes a slot before or after.                              *)
(***************************************************************************)
THEOREM GrantsHold == Spec => []GrantedStays
<1>1. IInv => GrantedStays
  BY DEF IInv, UsableIn, GrantedStays
<1> QED BY InvariantHolds, <1>1, PTL

\* No address of a mapped region is in another region.
LEMMA MmapAlone ==
  ASSUME IInv, NEW i \in Mmaps, NEW a \in RangeOf(Region(ar, i))
  PROVE  SlotsAt(ar, a) = {i}
<1> DEFINE r == Region(ar, i)
<1>1. SpaceInv(ar) /\ i \in MmapsOf(ar) /\ ar.mapRegions.size \in Nat
  BY DEF IInv, Mmaps, MmapsOf, SpaceInv, Regions
<1>2. /\ i \in Slots(ar) /\ r.type = "MMAP"
      /\ r.crrt.start \in Nat /\ r.crrt.size \in Nat
      /\ r.start = MMAP_START + r.crrt.start * PAGE
      /\ r.size = r.crrt.size * PAGE
  BY <1>1, MmapFacts
<1>3. \A j \in Slots(ar) :
        LET q == Region(ar, j)
        IN  /\ q.start \in Nat /\ q.size \in Nat
            /\ Placed(q, ar.mapRegions.size)
            /\ \A b \in Nat : StrictlyIn(q, b)
                                <=> q.start <= b /\ b < q.start + q.size
  <2>1. ASSUME NEW j \in Slots(ar)
        PROVE  LET q == Region(ar, j)
               IN  /\ q.start \in Nat /\ q.size \in Nat
                   /\ Placed(q, ar.mapRegions.size)
                   /\ \A b \in Nat : StrictlyIn(q, b)
                                       <=> q.start <= b /\ b < q.start + q.size
    <3> DEFINE q == Region(ar, j)
    <3>1. q \in RegionRecord /\ Placed(q, ar.mapRegions.size)
      BY <1>1, SlotFacts DEF SpaceInv
    <3> QED BY <1>1, <3>1, ExtentIs, RecordFields
  <2> QED BY <2>1
<1>4. a \in Nat /\ r.start <= a /\ a < r.start + r.size
  BY <1>2, <1>3 DEF RangeOf
<1>5. i \in SlotsAt(ar, a)
  BY <1>2, <1>3, <1>4 DEF SlotsAt
<1>6. ASSUME NEW j \in Slots(ar), j # i, StrictlyIn(Region(ar, j), a)
      PROVE  FALSE
  <2> DEFINE q == Region(ar, j)
  <2>1. /\ q.start <= a /\ a < q.start + q.size
        /\ q.start \in Nat /\ q.size \in Nat
        /\ Placed(q, ar.mapRegions.size)
    BY <1>3, <1>4, <1>6
  <2>2. MMAP_START <= a
    <3>1. r.crrt.start * PAGE \in Nat
      BY <1>2, Numbers
    <3> QED BY <1>2, <1>4, <3>1, Numbers
  <2>3. q.type = "MMAP"
    BY <1>4, <2>1, <2>2, Numbers DEF Placed
  <2>4. j \in MmapsOf(ar)
    BY <2>3 DEF MmapsOf, SlotsOf
  <2>5. /\ q.crrt.start \in Nat /\ q.crrt.size \in Nat
        /\ q.start = MMAP_START + q.crrt.start * PAGE
        /\ q.size = q.crrt.size * PAGE
    BY <1>1, <2>4, MmapFacts
  <2>6. CellsIn(ar, i) \cap CellsIn(ar, j) = {}
    BY <1>1, <1>6, <2>4 DEF SpaceInv, PagesMatch
  <2> DEFINE c == (a - MMAP_START) \div PAGE
             m == (a - MMAP_START) % PAGE
             x == r.crrt.start
             y == r.crrt.size
             u == q.crrt.start
             v == q.crrt.size
  <2>7. /\ c \in Int /\ m \in 0..(PAGE - 1)
        /\ a - MMAP_START = PAGE * c + m
    <3>1. a - MMAP_START \in Int
      BY <1>4, Numbers
    <3> QED BY <3>1, Numbers, QuotientAndRest
  <2>8. /\ x \in Nat /\ y \in Nat /\ u \in Nat /\ v \in Nat
        /\ x * PAGE <= a - MMAP_START /\ a - MMAP_START < x * PAGE + y * PAGE
        /\ u * PAGE <= a - MMAP_START /\ a - MMAP_START < u * PAGE + v * PAGE
    BY <1>2, <1>4, <2>1, <2>5, Numbers
  <2>9. ASSUME NEW p \in Nat, NEW n \in Nat,
               p * PAGE <= a - MMAP_START, a - MMAP_START < p * PAGE + n * PAGE
        PROVE  c \in Cells(p, n)
    <3> HIDE DEF c, m
    <3>1. PAGE * p <= PAGE * c + m /\ PAGE * c + m < PAGE * (p + n)
      BY <2>7, <2>9, Numbers
    <3>2. p <= c
      <4>1. SUFFICES ASSUME c < p PROVE FALSE
        BY <2>7
      <4>2. PICK d \in Nat : p = c + 1 + d
        <5>1. p - c - 1 \in Nat /\ p = c + 1 + (p - c - 1)
          BY <2>7, <4>1
        <5> QED BY <5>1
      <4>3. PAGE * p = PAGE * c + PAGE + PAGE * d /\ PAGE * d \in Nat
        BY <2>7, <4>2, Numbers
      <4> QED BY <2>7, <3>1, <4>3, Numbers
    <3>3. c < p + n
      <4>1. SUFFICES ASSUME c >= p + n PROVE FALSE
        BY <2>7
      <4>2. PICK d \in Nat : c = p + n + d
        <5>1. c - (p + n) \in Nat /\ c = p + n + (c - (p + n))
          BY <2>7, <4>1
        <5> QED BY <5>1
      <4>3. PAGE * c = PAGE * (p + n) + PAGE * d /\ PAGE * d \in Nat
        BY <4>2, Numbers
      <4> QED BY <2>7, <3>1, <4>3, Numbers
    <3> QED BY <2>7, <3>2, <3>3 DEF Cells
  <2>10. c \in Cells(x, y) /\ c \in Cells(u, v)
    <3> HIDE DEF c, x, y, u, v
    <3> QED BY <2>8, <2>9
  <2> QED BY <2>6, <2>10 DEF CellsIn
<1> QED BY <1>5, <1>6 DEF SlotsAt

(***************************************************************************)
(* munmap of any address of a mapped region takes that region away: no     *)
(* other region has the address, in whatever slot it is.                   *)
(***************************************************************************)
THEOREM MunmapTakesIts == Spec => []MunmapFinds
<1>1. IInv => MunmapFinds
  <2> SUFFICES ASSUME IInv, NEW i \in Mmaps, NEW a \in RangeOf(Region(ar, i))
               PROVE  /\ Unmap(ar, a, Region(ar, i).size).start
                           = Region(ar, i).start
                      /\ Max(SlotsAt(ar, a)) = i
    BY DEF MunmapFinds
  <2>1. SlotsAt(ar, a) = {i}
    BY MmapAlone
  <2>2. Max(SlotsAt(ar, a)) = i
    <3>1. SpaceInv(ar)
      BY DEF IInv
    <3> QED BY <2>1, <3>1, LastThere
  <2>3. Unmappable(ar, a, Region(ar, i).size)
    BY <2>1, <2>2 DEF Unmappable, IsInRegion, TypeAt, Mmaps, SlotsOf
  <2> QED BY <2>2, <2>3 DEF Unmap
<1> QED BY InvariantHolds, <1>1, PTL
=============================================================================
