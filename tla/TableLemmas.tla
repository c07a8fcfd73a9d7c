---------------------------- MODULE TableLemmas ----------------------------
(***************************************************************************)
(* What several proofs need: facts about numbers and least elements, what  *)
(* the operators of contRegion.c and dynamic.c do to their tables - runs of*)
(* cells that are found inside the table and free, and slots that are      *)
(* taken, given back and counted - walks along links, and parts of         *)
(* sequences.                                                              *)
(***************************************************************************)
EXTENDS DynamicArr, ContRegion, SeqFilter, FiniteSetTheorems, TLAPS

(* Numbers *)

\* A set of numbers has a least one, which Min picks.
LEMMA MinOfNats ==
  ASSUME NEW S, S \subseteq Nat, S # {}
  PROVE  Min(S) \in S /\ \A m \in S : Min(S) <= m
<1>1. \E n \in S : \A m \in S : n <= m
  <2>1. PICK n \in S : \A m \in S : ~ (<<m, n>> \in OpToRel(<, Nat))
    BY NatLessThanWellFounded, WFMin
  <2>2. ASSUME NEW m \in S PROVE n <= m
    <3>1. <<m, n>> \in Nat \X Nat
      OBVIOUS
    <3>2. ~ (m < n)
      BY <2>1, <3>1 DEF OpToRel
    <3> QED BY <3>2
  <2> QED BY <2>2
<1> QED BY <1>1 DEF Min

\* Division with rest, by a divisor the prover knows no value of.
LEMMA QuotientAndRest ==
  ASSUME NEW a \in Int, NEW b \in Nat, b > 0
  PROVE  /\ a \div b \in Int /\ a % b \in 0..(b - 1)
         /\ a = b * (a \div b) + (a % b)
BY SMTT(20)

\* It has one result.
LEMMA QuotientIsUnique ==
  ASSUME NEW a \in Int, NEW b \in Nat, b > 0, NEW q \in Int,
         NEW r \in 0..(b - 1), a = b * q + r
  PROVE  a \div b = q /\ a % b = r
<1> DEFINE d == a \div b
           s == a % b
<1>1. d \in Int /\ s \in 0..(b - 1) /\ a = b * d + s
  BY QuotientAndRest
<1> HIDE DEF d, s
<1>2. CASE q > d
  <2>1. PICK e \in Nat : q = d + e /\ e >= 1
    <3>1. q - d \in Nat
      BY <1>1, <1>2
    <3> QED BY <1>1, <1>2, <3>1
  <2>2. b * e >= b /\ b * q = b * d + b * e
    BY <1>1, <2>1
  <2> QED BY <1>1, <2>2
<1>3. CASE q < d
  <2>1. PICK e \in Nat : d = q + e /\ e >= 1
    <3>1. d - q \in Nat
      BY <1>1, <1>3
    <3> QED BY <1>1, <1>3, <3>1
  <2>2. b * e >= b /\ b * d = b * q + b * e
    BY <1>1, <2>1
  <2> QED BY <1>1, <2>2
<1>4. CASE q = d
  BY <1>1, <1>4 DEF d, s
<1> QED BY <1>1, <1>2, <1>3, <1>4

\* A set of numbers with a bound has a greatest one, which Max picks.
LEMMA MaxOfNats ==
  ASSUME NEW m \in Nat, NEW S, S \subseteq 0..m, S # {}
  PROVE  Max(S) \in S /\ \A i \in S : i <= Max(S)
<1> DEFINE D == {m - i : i \in S}
<1>1. D \subseteq Nat /\ D # {}
  <2>1. \A i \in S : m - i \in Nat
    OBVIOUS
  <2> QED BY <2>1
<1> HIDE DEF D
<1>2. Min(D) \in D /\ \A d \in D : Min(D) <= d
  BY <1>1, MinOfNats
<1>3. PICK n \in S : Min(D) = m - n
  BY <1>2 DEF D
<1>4. \A i \in S : i <= n
  <2>1. ASSUME NEW i \in S PROVE i <= n
    <3>1. m - i \in D
      BY DEF D
    <3>2. m - n <= m - i /\ i \in Nat /\ n \in Nat
      BY <1>2, <1>3, <3>1
    <3> QED BY <3>2
  <2> QED BY <2>1
<1>5. \E n0 \in S : \A i \in S : n0 >= i
  BY <1>4
<1>6. Max(S) \in S /\ \A i \in S : Max(S) >= i
  BY <1>5 DEF Max
<1> QED BY <1>6

-----------------------------------------------------------------------------
(* Runs of cells *)

\* ContinueRegion_s with its fields in their types, as far as the search
\* depends on them; the count is that of the cells in use.
Regions ==
  {t \in [occupied : SUBSET Nat, size : Nat, allocated : Nat,
          last_index : Nat] :
     /\ t.size > 0 /\ t.last_index <= t.size
     /\ t.occupied \subseteq 0..(t.size - 1)
     /\ t.allocated = Cardinality(t.occupied)}

\* Cells in use are finitely many, at most as many as there are.
LEMMA AllocatedFits ==
  ASSUME NEW t \in Regions
  PROVE  IsFiniteSet(t.occupied) /\ t.allocated <= t.size
<1>1. t.size \in Nat /\ t.size > 0
  BY DEF Regions
<1>2. IsFiniteSet(0..(t.size - 1)) /\ Cardinality(0..(t.size - 1)) = t.size
  <2>1. t.size - 1 \in Int /\ 0 \in Int /\ ~ (0 > t.size - 1)
    BY <1>1
  <2>2. (t.size - 1) - 0 + 1 = t.size
    BY <1>1
  <2> QED BY <2>1, <2>2, FS_Interval
<1>3. t.occupied \in SUBSET (0..(t.size - 1))
  BY DEF Regions
<1> QED BY <1>2, <1>3, FS_Subset DEF Regions

\* __resize adds free cells behind the others.
LEMMA GrownFields ==
  ASSUME NEW t \in Regions, NEW n \in Nat
  PROVE  /\ Grown(t, n) \in Regions
         /\ Grown(t, n).occupied = t.occupied
         /\ Grown(t, n).allocated = t.allocated
         /\ Grown(t, n).last_index = t.last_index
         /\ Grown(t, n).size = (n + t.size) * 2
<1> DEFINE m == (n + t.size) * 2
<1>1. t.size \in Nat /\ t.last_index \in Nat /\ m \in Nat /\ m > t.size
  BY DEF Regions
<1>2. Grown(t, n) = [t EXCEPT !.size = m]
  BY DEF Grown
<1> HIDE DEF m
<1>3. Grown(t, n) = [occupied |-> t.occupied, size |-> m,
                     allocated |-> t.allocated, last_index |-> t.last_index]
  BY <1>2 DEF Regions
<1>4. t.occupied \subseteq 0..(m - 1)
  BY <1>1 DEF Regions
<1> QED BY <1>1, <1>3, <1>4 DEF Regions, m

\* The table of the first search.
LEMMA RoomyFields ==
  ASSUME NEW t \in Regions, NEW n \in Nat
  PROVE  /\ Roomy(t, n) \in Regions
         /\ Roomy(t, n).occupied = t.occupied
         /\ Roomy(t, n).allocated = t.allocated
         /\ Roomy(t, n).last_index = t.last_index
BY GrownFields DEF Roomy

\* In a table that has grown, the cells behind the old end are a run, and the
\* loop comes to it before it has touched as many cells as there are.
LEMMA GrownHasRun ==
  ASSUME NEW t \in Regions, NEW n \in Nat
  PROVE  Rounds(Grown(t, n), n) # {}
<1> DEFINE g == Grown(t, n)
           k == t.size - t.last_index + n
<1>1. /\ t.size \in Nat /\ t.size > 0 /\ t.last_index \in 0..t.size
      /\ t.occupied \subseteq 0..(t.size - 1)
  BY DEF Regions
<1>2. /\ g.size = (n + t.size) * 2 /\ g.last_index = t.last_index
      /\ g.occupied = t.occupied
  BY GrownFields
<1> HIDE DEF g
<1>3. k \in n..(g.size - 1) /\ k - n \in Nat
  BY <1>1, <1>2
<1>4. ASSUME NEW j \in (k - n)..(k - 1) PROVE ~ Blocked(g, j)
  <2>1. t.last_index + j \in t.size..(t.size + n - 1)
    BY <1>1
  <2>2. t.last_index + j < g.size /\ t.last_index + j \notin g.occupied
    BY <1>1, <1>2, <2>1
  <2> QED BY <1>2, <2>2 DEF Blocked
<1>5. k \in Rounds(g, n)
  BY <1>3, <1>4 DEF Rounds
<1> QED BY <1>5 DEF g

\* The recursion ends with the second search.
LEMMA SearchedFinds ==
  ASSUME NEW t \in Regions, NEW n \in Nat
  PROVE  /\ Searched(t, n) \in Regions
         /\ Searched(t, n).occupied = t.occupied
         /\ Searched(t, n).allocated = t.allocated
         /\ Searched(t, n).last_index = t.last_index
         /\ Rounds(Searched(t, n), n) # {}
<1>1. CASE Rounds(Roomy(t, n), n) = {}
  <2>1. Searched(t, n) = Grown(Roomy(t, n), n)
    BY <1>1 DEF Searched
  <2> QED BY <2>1, RoomyFields, GrownFields, GrownHasRun
<1>2. CASE Rounds(Roomy(t, n), n) # {}
  <2>1. Searched(t, n) = Roomy(t, n)
    BY <1>2 DEF Searched
  <2> QED BY <1>2, <2>1, RoomyFields
<1> QED BY <1>1, <1>2

\* Behind n cells that end no run lies a run of n free cells: it does not go
\* past the end of the table, for there the loop starts a new one.
LEMMA RunIsFree ==
  ASSUME NEW t \in Regions, NEW n \in Nat, n > 0, NEW k \in Rounds(t, n)
  PROVE  /\ StartOf(t, n, k) \in Nat
         /\ StartOf(t, n, k) + n <= t.size
         /\ Cells(StartOf(t, n, k), n) \cap t.occupied = {}
<1> DEFINE at == t.last_index + k - n
<1>1. /\ t.size \in Nat /\ t.size > 0 /\ t.last_index \in 0..t.size
      /\ t.occupied \subseteq 0..(t.size - 1)
  BY DEF Regions
<1>2. /\ k \in n..(t.size - 1)
      /\ \A j \in (k - n)..(k - 1) : ~ Blocked(t, j)
  BY DEF Rounds
<1>3. k \in Nat /\ k - n \in Nat /\ at \in Nat
  BY <1>1, <1>2
<1>4. ASSUME NEW i \in 0..(n - 1)
      PROVE  /\ k - n + i \in (k - n)..(k - 1)
             /\ t.last_index + (k - n + i) = at + i
  BY <1>1, <1>2
<1>5. ASSUME NEW i \in 0..(n - 1), at + i < t.size
      PROVE  at + i \notin t.occupied
  BY <1>1, <1>2, <1>3, <1>4, <1>5 DEF Blocked
<1>6. ASSUME NEW i \in 0..(n - 1), at + i >= t.size
      PROVE  /\ at + i - t.size \notin t.occupied
             /\ at + i = t.size => t.size - 1 \in t.occupied
  <2> DEFINE j == k - n + i
  <2>1. /\ ~ Blocked(t, j) /\ t.last_index + j = at + i
        /\ j \in Nat /\ at \in Nat /\ ~ (at + i < t.size)
    BY <1>1, <1>2, <1>3, <1>4, <1>6
  <2> HIDE DEF j, at
  <2> QED BY <1>1, <2>1 DEF Blocked
<1>7. CASE at < t.size
  <2>1. StartOf(t, n, k) = at
    BY <1>7 DEF StartOf
  <2>2. at + n <= t.size
    <3>1. SUFFICES ASSUME at + n > t.size PROVE FALSE
      BY <1>1, <1>3
    <3> DEFINE i == t.size - at
    <3>2. i \in 1..(n - 1)
      BY <1>1, <1>3, <1>7, <3>1
    <3>3. t.size - 1 \in t.occupied
      BY <1>1, <1>3, <1>6, <3>2
    <3>4. t.size - 1 = at + (i - 1) /\ i - 1 \in 0..(n - 1)
      BY <1>1, <1>3, <3>2
    <3> QED BY <1>1, <1>3, <1>5, <3>3, <3>4
  <2>3. ASSUME NEW c \in Cells(at, n) PROVE c \notin t.occupied
    <3>1. c - at \in 0..(n - 1) /\ c = at + (c - at) /\ c < t.size
      BY <1>1, <1>3, <2>2 DEF Cells
    <3> QED BY <1>5, <3>1
  <2> QED BY <1>3, <2>1, <2>2, <2>3
<1>8. CASE at >= t.size
  <2>1. StartOf(t, n, k) = at - t.size
    BY <1>1, <1>3, <1>8 DEF StartOf
  <2>2. at - t.size \in Nat /\ at - t.size + n <= t.size
    BY <1>1, <1>2, <1>3, <1>8
  <2>3. ASSUME NEW c \in Cells(at - t.size, n) PROVE c \notin t.occupied
    <3> DEFINE i == c - (at - t.size)
    <3>1. i \in 0..(n - 1) /\ c = at + i - t.size /\ at + i >= t.size
      BY <1>1, <1>3, <1>8, <2>2 DEF Cells
    <3> QED BY <1>6, <3>1
  <2> QED BY <2>1, <2>2, <2>3
<1> QED BY <1>1, <1>3, <1>7, <1>8

\* A run has as many cells as it is long.
LEMMA CellsCounted ==
  ASSUME NEW start \in Nat, NEW n \in Nat
  PROVE  IsFiniteSet(Cells(start, n)) /\ Cardinality(Cells(start, n)) = n
<1>1. /\ start + n - 1 \in Int /\ start \in Int
      /\ (start > start + n - 1) <=> (n = 0)
      /\ (start + n - 1) - start + 1 = n
  OBVIOUS
<1> QED BY <1>1, FS_Interval DEF Cells

\* A table that differs in the three fields __alloc changes.
LEMMA TakeFields ==
  ASSUME NEW t \in Regions, NEW s \in Nat, NEW n \in Nat
  PROVE  Take(t, s, n) = [occupied |-> t.occupied \cup Cells(s, n),
                          size |-> t.size, allocated |-> t.allocated + n,
                          last_index |-> s + n]
<1> DEFINE O == t.occupied \cup Cells(s, n)
           a == t.allocated + n
           l == s + n
<1>1. Take(t, s, n) = [t EXCEPT !.occupied = O, !.allocated = a, !.last_index = l]
  BY DEF Take
<1> HIDE DEF O, a, l
<1>2. Take(t, s, n) = [occupied |-> O, size |-> t.size, allocated |-> a,
                       last_index |-> l]
  BY <1>1 DEF Regions
<1> QED BY <1>2 DEF O, a, l

\* The run a request is granted: inside the table that was searched and free
\* in it.
LEMMA GrantedRun ==
  ASSUME NEW cr \in Regions, NEW n \in Nat
  PROVE  LET t == Searched(cr, n)
             s == RequestRegion(cr, n).start
         IN  /\ t \in Regions /\ t.occupied = cr.occupied
             /\ t.allocated = cr.allocated /\ cr.size <= t.size
             /\ s \in Nat /\ s + n <= t.size
             /\ Cells(s, n) \cap cr.occupied = {}
             /\ RequestRegion(cr, n).cr = Take(t, s, n)
<1> DEFINE t == Searched(cr, n)
           k == Min(Rounds(t, n))
           s == RequestRegion(cr, n).start
<1>1. /\ t \in Regions /\ t.occupied = cr.occupied
      /\ t.allocated = cr.allocated /\ Rounds(t, n) # {}
  BY SearchedFinds
<1>2. s = StartOf(t, n, k) /\ RequestRegion(cr, n).cr = Take(t, s, n)
  BY DEF RequestRegion
<1>3. cr.size <= t.size
  <2>1. cr.size \in Nat /\ Roomy(cr, n).size \in Nat /\ cr.size <= Roomy(cr, n).size
    BY GrownFields DEF Roomy, Regions
  <2>2. /\ Roomy(cr, n) \in Regions
        /\ Grown(Roomy(cr, n), n).size = (n + Roomy(cr, n).size) * 2
    BY RoomyFields, GrownFields
  <2> QED BY <2>1, <2>2 DEF Searched
<1> SUFFICES /\ s \in Nat /\ s + n <= t.size
             /\ Cells(s, n) \cap cr.occupied = {}
  BY <1>1, <1>2, <1>3
<1>4. t.size \in Nat /\ t.size > 0 /\ t.last_index \in 0..t.size
  BY <1>1 DEF Regions
<1>5. Rounds(t, n) \subseteq Nat
  BY <1>4 DEF Rounds
<1>6. k \in Rounds(t, n) /\ \A m \in Rounds(t, n) : k <= m
  BY <1>1, <1>5, MinOfNats
<1> HIDE DEF t, k, s
<1>7. CASE n > 0
  BY <1>1, <1>2, <1>6, <1>7, RunIsFree
<1>8. CASE n = 0
  <2>1. 0 \in Rounds(t, n)
    BY <1>4, <1>8 DEF Rounds
  <2>2. k = 0
    BY <1>5, <1>6, <2>1
  <2>3. s = t.last_index
    BY <1>2, <1>4, <1>8, <2>2 DEF StartOf
  <2>4. Cells(s, n) = {}
    BY <1>4, <1>8, <2>3 DEF Cells
  <2> QED BY <1>1, <1>2, <1>4, <1>8, <2>3, <2>4
<1> QED BY <1>7, <1>8

\* What ContinueRegion__requestRegion does to a table: it takes a free run,
\* and counts it.
LEMMA RequestGrants ==
  ASSUME NEW cr \in Regions, NEW n \in Nat
  PROVE  LET s == RequestRegion(cr, n).start
             u == RequestRegion(cr, n).cr
         IN  /\ u \in Regions /\ cr.size <= u.size
             /\ s \in Nat /\ s + n <= u.size
             /\ Cells(s, n) \cap cr.occupied = {}
             /\ u.occupied = cr.occupied \cup Cells(s, n)
             /\ u.allocated = cr.allocated + n /\ u.last_index = s + n
<1> DEFINE t == Searched(cr, n)
           s == RequestRegion(cr, n).start
           u == RequestRegion(cr, n).cr
<1>1. /\ t \in Regions /\ t.occupied = cr.occupied
      /\ t.allocated = cr.allocated /\ cr.size <= t.size
      /\ s \in Nat /\ s + n <= t.size
      /\ Cells(s, n) \cap cr.occupied = {} /\ u = Take(t, s, n)
  BY GrantedRun
<1> HIDE DEF t, s, u
<1>2. u = [occupied |-> t.occupied \cup Cells(s, n), size |-> t.size,
           allocated |-> t.allocated + n, last_index |-> s + n]
  BY <1>1, TakeFields
<1>3. /\ t.size \in Nat /\ t.size > 0 /\ t.occupied \subseteq 0..(t.size - 1)
      /\ t.allocated \in Nat /\ t.allocated = Cardinality(t.occupied)
      /\ IsFiniteSet(t.occupied)
  BY <1>1, AllocatedFits DEF Regions
<1>4. u.occupied \subseteq 0..(u.size - 1) /\ u.occupied \subseteq Nat
  BY <1>1, <1>2, <1>3 DEF Cells
<1>5. u.allocated = Cardinality(u.occupied)
  <2>1. IsFiniteSet(Cells(s, n)) /\ Cardinality(Cells(s, n)) = n
    BY <1>1, CellsCounted
  <2>2. Cardinality(t.occupied \cup Cells(s, n))
          = Cardinality(t.occupied) + Cardinality(Cells(s, n))
              - Cardinality(t.occupied \cap Cells(s, n))
    BY <1>3, <2>1, FS_Union
  <2>3. Cardinality(t.occupied \cap Cells(s, n)) = 0
    BY <1>1, FS_EmptySet
  <2>4. u.occupied = t.occupied \cup Cells(s, n) /\ u.allocated = t.allocated + n
    BY <1>2
  <2> QED BY <1>3, <2>1, <2>2, <2>3, <2>4
<1>6. u \in Regions
  <2>1. /\ u.size = t.size /\ u.allocated = t.allocated + n
        /\ u.last_index = s + n
    BY <1>2
  <2>2. u \in [occupied : SUBSET Nat, size : Nat, allocated : Nat,
               last_index : Nat]
    BY <1>1, <1>2, <1>3, <1>4
  <2> QED BY <1>1, <1>3, <1>4, <1>5, <2>1, <2>2 DEF Regions
<1> QED BY <1>1, <1>2, <1>6 DEF t, s, u

\* And ContinueRegion__release: it gives the run back, and the count is right.
LEMMA ReleaseFrees ==
  ASSUME NEW t \in Regions, NEW s \in Nat, NEW n \in Nat,
         Cells(s, n) \subseteq t.occupied
  PROVE  /\ Release(t, s, n) \in Regions
         /\ Release(t, s, n) = [occupied |-> t.occupied \ Cells(s, n),
                                size |-> t.size, allocated |-> t.allocated - n,
                                last_index |-> t.last_index]
<1> DEFINE O == t.occupied \ Cells(s, n)
           a == t.allocated - n
<1>1. Release(t, s, n) = [t EXCEPT !.occupied = O, !.allocated = a]
  BY DEF Release
<1>2. /\ t.size \in Nat /\ t.size > 0 /\ t.occupied \subseteq 0..(t.size - 1)
      /\ t.allocated \in Nat /\ t.allocated = Cardinality(t.occupied)
      /\ IsFiniteSet(t.occupied) /\ t.last_index \in Nat
      /\ t.last_index <= t.size
  BY AllocatedFits DEF Regions
<1>3. O \subseteq 0..(t.size - 1) /\ O \subseteq Nat
  BY <1>2
<1>4. a = Cardinality(O) /\ a \in Nat
  <2>1. /\ IsFiniteSet(O)
        /\ Cardinality(O) = Cardinality(t.occupied)
                              - Cardinality(t.occupied \cap Cells(s, n))
    BY <1>2, FS_Difference
  <2>2. t.occupied \cap Cells(s, n) = Cells(s, n)
    OBVIOUS
  <2>3. Cardinality(Cells(s, n)) = n
    BY CellsCounted
  <2>4. Cardinality(O) \in Nat
    BY <2>1, FS_CardinalityType
  <2> QED BY <1>2, <2>1, <2>2, <2>3, <2>4
<1> HIDE DEF O, a
<1>5. Release(t, s, n) = [occupied |-> O, size |-> t.size, allocated |-> a,
                          last_index |-> t.last_index]
  BY <1>1 DEF Regions
<1>6. Release(t, s, n) \in Regions
  <2> DEFINE u == Release(t, s, n)
  <2>1. /\ u = [occupied |-> O, size |-> t.size, allocated |-> a,
                last_index |-> t.last_index]
        /\ u.occupied = O /\ u.size = t.size /\ u.allocated = a
        /\ u.last_index = t.last_index
    BY <1>5
  <2> HIDE DEF u
  <2>2. u \in [occupied : SUBSET Nat, size : Nat, allocated : Nat,
               last_index : Nat]
    BY <1>2, <1>3, <1>4, <2>1
  <2>3. u \in Regions
    BY <1>2, <1>3, <1>4, <2>1, <2>2 DEF Regions
  <2> QED BY <2>3 DEF u
<1> QED BY <1>5, <1>6 DEF O, a
-----------------------------------------------------------------------------
(* Slot arrays *)

\* An array whose items are from S, counts them, and has two slots free.
Slotted(da, S) ==
  /\ da.length \in Nat /\ da.length > 0 /\ da.alloced \in Nat
  /\ da = [item |-> da.item, alloced |-> da.alloced, length |-> da.length,
           tail |-> da.tail]
  /\ da.item \in [0..(da.length - 1) -> S \cup {Empty}]
  /\ da.tail \in 0..(da.length - 1)
  /\ da.alloced = Cardinality(Occupied(da))
  /\ da.alloced <= da.length - 2

\* The slots in use are numbers below the length, so finitely many.
LEMMA OccupiedFinite ==
  ASSUME NEW da, da.length \in Nat
  PROVE  /\ Occupied(da) \subseteq 0..(da.length - 1)
         /\ IsFiniteSet(Occupied(da)) /\ Cardinality(Occupied(da)) <= da.length
<1>1. Occupied(da) \subseteq 0..(da.length - 1)
  BY DEF Occupied
<1>2. /\ IsFiniteSet(0..(da.length - 1))
      /\ Cardinality(0..(da.length - 1)) = da.length
  <2>1. 0 \in Int /\ da.length - 1 \in Int /\ da.length - 1 - 0 + 1 = da.length
        /\ (0 > da.length - 1 <=> da.length = 0)
    OBVIOUS
  <2> QED BY <2>1, FS_Interval
<1> QED BY <1>1, <1>2, FS_Subset

\* The search of DynamicArr__alloc ends at an empty slot, wherever tail is.
LEMMA FreeSlotIsFree ==
  ASSUME NEW da, da.length \in Nat, da.length > 0,
         da.tail \in 0..(da.length - 1),
         Cardinality(Occupied(da)) < da.length
  PROVE  FreeSlot(da) \in 0..(da.length - 1) \ Occupied(da)
<1> DEFINE L == da.length
           slot(k) == (da.tail + k) % L
           K == {k \in 0..(L - 1) : da.item[slot(k)] = Empty}
<1>1. L \in Nat /\ L > 0 /\ da.tail \in 0..(L - 1)
  OBVIOUS
<1>2. PICK i \in 0..(L - 1) : da.item[i] = Empty
  <2>1. SUFFICES ASSUME \A i \in 0..(L - 1) : da.item[i] # Empty PROVE FALSE
    OBVIOUS
  <2>2. Occupied(da) = 0..(L - 1)
    BY <2>1 DEF Occupied
  <2>3. Cardinality(0..(L - 1)) = L
    <3>1. 0 \in Int /\ L - 1 \in Int /\ L - 1 - 0 + 1 = L /\ ~ (0 > L - 1)
      BY <1>1
    <3> QED BY <3>1, FS_Interval
  <2> QED BY <1>1, <2>2, <2>3
<1>3. \E k \in 0..(L - 1) : slot(k) = i
  <2>1. CASE i >= da.tail
    <3>1. /\ i - da.tail \in 0..(L - 1) /\ da.tail + (i - da.tail) = i
          /\ i = L * 0 + i /\ 0 \in Int /\ i \in Int
      BY <1>1, <1>2, <2>1
    <3>2. i % L = i
      BY <1>1, <1>2, <3>1, QuotientIsUnique
    <3>3. slot(i - da.tail) = i
      BY <3>1, <3>2
    <3> QED BY <3>1, <3>3
  <2>2. CASE i < da.tail
    <3>1. /\ i - da.tail + L \in 0..(L - 1)
          /\ da.tail + (i - da.tail + L) = i + L
          /\ i + L = L * 1 + i /\ 1 \in Int /\ i + L \in Int
      BY <1>1, <1>2, <2>2
    <3>2. (i + L) % L = i
      BY <1>1, <1>2, <3>1, QuotientIsUnique
    <3>3. slot(i - da.tail + L) = i
      BY <3>1, <3>2
    <3> QED BY <3>1, <3>3
  <2> QED BY <1>1, <1>2, <2>1, <2>2
<1>4. K # {} /\ K \subseteq Nat
  BY <1>2, <1>3
<1>5. Min(K) \in K
  <2> HIDE DEF K
  <2> QED BY <1>4, MinOfNats
<1>6. slot(Min(K)) \in 0..(L - 1)
  <2> HIDE DEF K
  <2>1. Min(K) \in Nat
    BY <1>4, <1>5
  <2>2. da.tail + Min(K) \in Int
    <3> HIDE DEF L
    <3> QED BY <1>1, <2>1
  <2> QED BY <1>1, <2>2, QuotientAndRest
<1>7. da.item[slot(Min(K))] = Empty
  BY <1>5
<1>8. FreeSlot(da) = slot(Min(K))
  BY DEF FreeSlot
<1> QED BY <1>6, <1>7, <1>8 DEF Occupied

\* The larger array DynamicArr__alloc goes on with holds what the other held.
LEMMA GrowHolds ==
  ASSUME NEW S, Empty \notin S, NEW da, Slotted(da, S)
  PROVE  LET g == GrowArr(da)
         IN  /\ g = [item |-> g.item, alloced |-> da.alloced,
                     length |-> 2 * da.length, tail |-> da.tail]
             /\ g.item \in [0..(2 * da.length - 1) -> S \cup {Empty}]
             /\ \A i \in 0..(da.length - 1) : g.item[i] = da.item[i]
             /\ Occupied(g) = Occupied(da)
<1> DEFINE L == 2 * da.length
           I == [i \in 0..(2 * da.length - 1) |->
                   IF i < da.length THEN da.item[i] ELSE Empty]
           g == GrowArr(da)
<1>1. g = [da EXCEPT !.length = L, !.item = I]
  BY DEF GrowArr
<1>2. da = [item |-> da.item, alloced |-> da.alloced, length |-> da.length,
            tail |-> da.tail]
  BY DEF Slotted
<1>3. /\ I \in [0..(2 * da.length - 1) -> S \cup {Empty}]
      /\ \A i \in 0..(da.length - 1) : I[i] = da.item[i]
      /\ \A i \in 0..(2 * da.length - 1) : ~ (i < da.length) => I[i] = Empty
  BY DEF Slotted
<1> HIDE DEF I, L
<1>4. g = [item |-> I, alloced |-> da.alloced, length |-> L, tail |-> da.tail]
  BY <1>1, <1>2
<1> HIDE DEF g
<1>5. g.item = I /\ g.length = 2 * da.length
  BY <1>4 DEF L
<1>6. Occupied(g) = Occupied(da)
  <2>1. da.length \in Nat
    BY DEF Slotted
  <2>2. ASSUME NEW i \in Occupied(g) PROVE i \in Occupied(da)
    <3>1. i \in 0..(2 * da.length - 1) /\ I[i] # Empty
      BY <1>5, <2>2 DEF Occupied
    <3>2. i < da.length
      BY <1>3, <3>1
    <3> QED BY <1>3, <2>1, <3>1, <3>2 DEF Occupied
  <2>3. ASSUME NEW i \in Occupied(da) PROVE i \in Occupied(g)
    <3>1. i \in 0..(da.length - 1) /\ da.item[i] # Empty
      BY DEF Occupied
    <3>2. i \in 0..(2 * da.length - 1) /\ I[i] # Empty
      BY <1>3, <2>1, <3>1
    <3> QED BY <1>5, <3>2 DEF Occupied
  <2> QED BY <2>2, <2>3
<1> QED BY <1>3, <1>4, <1>5, <1>6 DEF g, L

\* An array whose slot i, empty before, holds x.
LEMMA PutHolds ==
  ASSUME NEW S, Empty \notin S, NEW d, d.length \in Nat,
         NEW i \in 0..(d.length - 1) \ Occupied(d), NEW x \in S,
         d.item \in [0..(d.length - 1) -> S \cup {Empty}],
         NEW e, e.length = d.length, e.item = [d.item EXCEPT ![i] = x]
  PROVE  /\ e.item \in [0..(d.length - 1) -> S \cup {Empty}]
         /\ Occupied(e) = Occupied(d) \cup {i} /\ e.item[i] = x
         /\ \A j \in Occupied(d) : e.item[j] = d.item[j]
         /\ Cardinality(Occupied(e)) = Cardinality(Occupied(d)) + 1
<1>1. /\ e.item \in [0..(d.length - 1) -> S \cup {Empty}]
      /\ e.item[i] = x /\ x # Empty
      /\ \A j \in 0..(d.length - 1) : j # i => e.item[j] = d.item[j]
  OBVIOUS
<1>2. Occupied(e) = Occupied(d) \cup {i}
  BY <1>1 DEF Occupied
<1>3. IsFiniteSet(Occupied(d)) /\ i \notin Occupied(d)
  BY OccupiedFinite
<1>4. Cardinality(Occupied(d) \cup {i}) = Cardinality(Occupied(d)) + 1
  BY <1>3, FS_AddElement
<1> QED BY <1>1, <1>2, <1>3, <1>4 DEF Occupied

\* DynamicArr__add puts an item into a slot that was empty, and the others stay.
LEMMA AddHolds ==
  ASSUME NEW S, Empty \notin S, NEW da, Slotted(da, S), NEW x \in S
  PROVE  LET id == ArrAdd(da, x).id
             e  == ArrAdd(da, x).arr
         IN  /\ Slotted(e, S)
             /\ id \in Nat \ Occupied(da)
             /\ Occupied(e) = Occupied(da) \cup {id} /\ e.item[id] = x
             /\ \A j \in Occupied(da) : e.item[j] = da.item[j]
<1> DEFINE d == IF da.alloced = da.length - 2 THEN GrowArr(da) ELSE da
           id == ArrAdd(da, x).id
           e == ArrAdd(da, x).arr
           I == [d.item EXCEPT ![id] = x]
           a == d.alloced + 1
           t == IncTail(d, id)
<1>1. /\ da.length \in Nat /\ da.length > 0 /\ da.alloced \in Nat
      /\ da = [item |-> da.item, alloced |-> da.alloced, length |-> da.length,
               tail |-> da.tail]
      /\ da.item \in [0..(da.length - 1) -> S \cup {Empty}]
      /\ da.tail \in 0..(da.length - 1)
      /\ da.alloced = Cardinality(Occupied(da)) /\ da.alloced <= da.length - 2
  BY DEF Slotted
<1>2. id = FreeSlot(d) /\ e = [d EXCEPT !.item[id] = x, !.alloced = a, !.tail = t]
  BY DEF ArrAdd
<1>3. /\ d = [item |-> d.item, alloced |-> d.alloced, length |-> d.length,
              tail |-> d.tail]
      /\ d.length \in Nat /\ d.length > 0 /\ d.alloced = da.alloced
      /\ d.item \in [0..(d.length - 1) -> S \cup {Empty}]
      /\ d.tail \in 0..(d.length - 1)
      /\ Occupied(d) = Occupied(da)
      /\ \A j \in Occupied(da) : d.item[j] = da.item[j]
      /\ d.alloced + 1 <= d.length - 2
  <2>1. CASE da.alloced = da.length - 2
    <3> DEFINE g == GrowArr(da)
    <3>1. /\ g = [item |-> g.item, alloced |-> da.alloced,
                  length |-> 2 * da.length, tail |-> da.tail]
          /\ g.item \in [0..(2 * da.length - 1) -> S \cup {Empty}]
          /\ \A i \in 0..(da.length - 1) : g.item[i] = da.item[i]
          /\ Occupied(g) = Occupied(da)
      BY GrowHolds
    <3> HIDE DEF g
    <3>2. /\ g.alloced = da.alloced /\ g.length = 2 * da.length
          /\ g.tail = da.tail
      BY <3>1
    <3>3. g.tail \in 0..(g.length - 1) /\ g.length \in Nat /\ g.length > 0
          /\ g.alloced + 1 <= g.length - 2
      BY <1>1, <2>1, <3>2
    <3>4. \A j \in Occupied(da) : g.item[j] = da.item[j]
      BY <3>1 DEF Occupied
    <3>5. d = g
      BY <2>1 DEF g
    <3> QED BY <3>1, <3>2, <3>3, <3>4, <3>5
  <2>2. CASE da.alloced # da.length - 2
    BY <1>1, <2>2
  <2> QED BY <2>1, <2>2
<1>4. id \in 0..(d.length - 1) \ Occupied(d)
  <2>1. Cardinality(Occupied(d)) < d.length
    BY <1>1, <1>3
  <2> HIDE DEF d
  <2> QED BY <1>2, <1>3, <2>1, FreeSlotIsFree
<1> HIDE DEF d, id
<1>5. e = [d EXCEPT !.item = I, !.alloced = a, !.tail = t]
  BY <1>2, <1>3
<1> HIDE DEF e, I, a, t
<1>6. e = [item |-> I, alloced |-> a, length |-> d.length, tail |-> t]
  BY <1>3, <1>5
<1>7. /\ e.item = [d.item EXCEPT ![id] = x] /\ e.length = d.length
      /\ e.alloced = d.alloced + 1 /\ e.tail = IncTail(d, id)
  BY <1>6 DEF I, a, t
<1>8. /\ e.item \in [0..(d.length - 1) -> S \cup {Empty}]
      /\ Occupied(e) = Occupied(d) \cup {id} /\ e.item[id] = x
      /\ \A j \in Occupied(d) : e.item[j] = d.item[j]
      /\ Cardinality(Occupied(e)) = Cardinality(Occupied(d)) + 1
  BY <1>3, <1>4, <1>7, PutHolds
<1>9. e.tail \in 0..(e.length - 1)
  <2>1. id + 1 \in Int
    BY <1>3, <1>4
  <2>2. (id + 1) % d.length \in 0..(d.length - 1)
    BY <1>3, <2>1, QuotientAndRest
  <2> QED BY <1>7, <2>2 DEF IncTail
<1>10. /\ e.alloced \in Nat /\ e.alloced = Cardinality(Occupied(e))
       /\ e.alloced <= e.length - 2
  BY <1>1, <1>3, <1>7, <1>8
<1>11. e = [item |-> e.item, alloced |-> e.alloced, length |-> e.length,
            tail |-> e.tail]
  BY <1>6
<1>12. Slotted(e, S)
  BY <1>3, <1>7, <1>8, <1>9, <1>10, <1>11 DEF Slotted
<1> QED BY <1>3, <1>4, <1>8, <1>12 DEF e, id

\* DynamicArr__del empties a slot, and the others stay.
LEMMA DelHolds ==
  ASSUME NEW S, Empty \notin S, NEW da, Slotted(da, S), NEW i \in Occupied(da)
  PROVE  LET e == ArrDel(da, i)
         IN  /\ Slotted(e, S) /\ Occupied(e) = Occupied(da) \ {i}
             /\ \A j \in Occupied(e) : e.item[j] = da.item[j]
<1> DEFINE e == ArrDel(da, i)
           I == [da.item EXCEPT ![i] = Empty]
           a == da.alloced - 1
<1>1. /\ da.length \in Nat /\ da.length > 0 /\ da.alloced \in Nat
      /\ da = [item |-> da.item, alloced |-> da.alloced, length |-> da.length,
               tail |-> da.tail]
      /\ da.item \in [0..(da.length - 1) -> S \cup {Empty}]
      /\ da.tail \in 0..(da.length - 1)
      /\ da.alloced = Cardinality(Occupied(da)) /\ da.alloced <= da.length - 2
  BY DEF Slotted
<1>2. i \in 0..(da.length - 1) /\ da.item[i] # Empty
  BY DEF Occupied
<1>3. e = [da EXCEPT !.item[i] = Empty, !.alloced = a]
  BY <1>2 DEF ArrDel
<1>4. e = [da EXCEPT !.item = I, !.alloced = a]
  BY <1>1, <1>3
<1> HIDE DEF e, I, a
<1>5. e = [item |-> I, alloced |-> a, length |-> da.length, tail |-> da.tail]
  BY <1>1, <1>4
<1>6. /\ e.item = [da.item EXCEPT ![i] = Empty] /\ e.length = da.length
      /\ e.alloced = da.alloced - 1 /\ e.tail = da.tail
  BY <1>5 DEF I, a
<1>7. /\ e.item \in [0..(da.length - 1) -> S \cup {Empty}]
      /\ e.item[i] = Empty
      /\ \A j \in 0..(da.length - 1) : j # i => e.item[j] = da.item[j]
  BY <1>1, <1>2, <1>6
<1>8. Occupied(e) = Occupied(da) \ {i}
  BY <1>6, <1>7 DEF Occupied
<1>9. Cardinality(Occupied(da) \ {i}) = Cardinality(Occupied(da)) - 1
  BY <1>1, OccupiedFinite, FS_RemoveElement
<1>10. Cardinality(Occupied(e)) \in Nat
  BY <1>1, <1>6, OccupiedFinite, FS_CardinalityType
<1>11. /\ e.alloced \in Nat /\ e.alloced = Cardinality(Occupied(e))
       /\ e.alloced <= e.length - 2
  BY <1>1, <1>6, <1>8, <1>9, <1>10
<1>12. e = [item |-> e.item, alloced |-> e.alloced, length |-> e.length,
            tail |-> e.tail]
  BY <1>5
<1>13. Slotted(e, S)
  BY <1>1, <1>6, <1>7, <1>11, <1>12 DEF Slotted
<1>14. \A j \in Occupied(e) : e.item[j] = da.item[j]
  BY <1>7, <1>8 DEF Occupied
<1> QED BY <1>8, <1>13, <1>14 DEF e

\* An item replaced by another where it is.
ArrSet(da, i, x) == [da EXCEPT !.item[i] = x]

LEMMA SetHolds ==
  ASSUME NEW S, Empty \notin S, NEW da, Slotted(da, S), NEW i \in Occupied(da),
         NEW x \in S
  PROVE  LET e == ArrSet(da, i, x)
         IN  /\ Slotted(e, S) /\ Occupied(e) = Occupied(da) /\ e.item[i] = x
             /\ \A j \in Occupied(da) : j # i => e.item[j] = da.item[j]
<1> DEFINE I == [da.item EXCEPT ![i] = x]
           e == ArrSet(da, i, x)
<1>1. /\ da.length \in Nat /\ da.length > 0 /\ da.alloced \in Nat
      /\ da = [item |-> da.item, alloced |-> da.alloced, length |-> da.length,
               tail |-> da.tail]
      /\ da.item \in [0..(da.length - 1) -> S \cup {Empty}]
      /\ da.tail \in 0..(da.length - 1)
      /\ da.alloced = Cardinality(Occupied(da)) /\ da.alloced <= da.length - 2
  BY DEF Slotted
<1>2. i \in 0..(da.length - 1) /\ da.item[i] # Empty
  BY DEF Occupied
<1>3. e = [da EXCEPT !.item = I]
  BY DEF ArrSet
<1> HIDE DEF I, e
<1>4. e = [item |-> I, alloced |-> da.alloced, length |-> da.length,
           tail |-> da.tail]
  BY <1>1, <1>3
<1>5. /\ e.item = [da.item EXCEPT ![i] = x] /\ e.length = da.length
      /\ e.alloced = da.alloced /\ e.tail = da.tail
  BY <1>4 DEF I
<1>6. /\ e.item \in [0..(da.length - 1) -> S \cup {Empty}]
      /\ e.item[i] = x
      /\ \A j \in 0..(da.length - 1) : j # i => e.item[j] = da.item[j]
  BY <1>1, <1>2, <1>5
<1>7. Occupied(e) = Occupied(da)
  BY <1>2, <1>5, <1>6 DEF Occupied
<1>8. e = [item |-> e.item, alloced |-> e.alloced, length |-> e.length,
           tail |-> e.tail]
  BY <1>4
<1>9. Slotted(e, S)
  BY <1>1, <1>5, <1>6, <1>7, <1>8 DEF Slotted
<1> QED BY <1>6, <1>7, <1>9 DEF Occupied, e

-----------------------------------------------------------------------------
(* Walks *)

\* n steps of f from v on.
Steps(f, n, v) ==
  CHOOSE at : at = [k \in 0..n |-> IF k = 0 THEN v ELSE f[at[k - 1]]]

\* There is such a walk of any length: of the first length without one, the
\* walk that is shorter by a step could be prolonged.
LEMMA StepsAre ==
  ASSUME NEW f, NEW n \in Nat, NEW v
  PROVE  Steps(f, n, v) =
           [k \in 0..n |-> IF k = 0 THEN v ELSE f[Steps(f, n, v)[k - 1]]]
<1> DEFINE Bad == {m \in Nat :
                    ~ \E at : at = [k \in 0..m |->
                                  IF k = 0 THEN v ELSE f[at[k - 1]]]}
<1>1. Bad = {}
  <2> SUFFICES ASSUME Bad # {} PROVE FALSE
    OBVIOUS
  <2>1. Bad \subseteq Nat
    OBVIOUS
  <2> DEFINE m == Min(Bad)
  <2>2. m \in Bad /\ \A i \in Bad : m <= i
    <3> HIDE DEF Bad
    <3> QED BY <2>1, MinOfNats
  <2> HIDE DEF m
  <2>3. CASE m = 0
    <3> DEFINE g == [k \in 0..0 |-> v]
    <3>1. g = [k \in 0..0 |-> IF k = 0 THEN v ELSE f[g[k - 1]]]
      <4>1. \A k \in 0..0 : k = 0
        OBVIOUS
      <4> QED BY <4>1
    <3> HIDE DEF g
    <3> QED BY <2>2, <2>3, <3>1
  <2>4. CASE m # 0
    <3>1. m \in Nat /\ m - 1 \in Nat /\ m > 0
      BY <2>2, <2>4
    <3>2. PICK g : g = [k \in 0..(m - 1) |-> IF k = 0 THEN v ELSE f[g[k - 1]]]
      <4>1. m - 1 \notin Bad
        <5> HIDE DEF Bad
        <5> QED BY <2>2, <3>1
      <4> QED BY <3>1, <4>1
    <3> DEFINE h == [k \in 0..m |-> IF k = m THEN f[g[m - 1]] ELSE g[k]]
    <3>3. \A k \in 0..m : h[k] = IF k = 0 THEN v ELSE f[h[k - 1]]
      <4>1. ASSUME NEW k \in 0..m PROVE h[k] = IF k = 0 THEN v ELSE f[h[k - 1]]
        <5>1. CASE k = 0
          <6>1. 0 \in 0..(m - 1) /\ 0 \in 0..m /\ 0 # m
            BY <3>1
          <6>2. h[0] = g[0] /\ g[0] = v
            BY <3>2, <6>1
          <6> QED BY <5>1, <6>2
        <5>2. CASE k # 0 /\ k # m
          <6>1. k \in 0..(m - 1) /\ k - 1 \in 0..m /\ k - 1 # m
            BY <3>1, <5>2
          <6>2. h[k] = g[k] /\ h[k - 1] = g[k - 1] /\ g[k] = f[g[k - 1]]
            BY <3>2, <5>2, <6>1
          <6> QED BY <5>2, <6>2
        <5>3. CASE k = m
          <6>1. m \in 0..m /\ m - 1 \in 0..m /\ m - 1 # m
            BY <3>1
          <6>2. h[m] = f[g[m - 1]] /\ h[m - 1] = g[m - 1]
            BY <6>1
          <6> QED BY <2>4, <5>3, <6>2
        <5> QED BY <5>1, <5>2, <5>3
      <4> QED BY <4>1
    <3>4. h = [k \in 0..m |-> IF k = 0 THEN v ELSE f[h[k - 1]]]
      <4>1. h = [k \in 0..m |-> h[k]]
        OBVIOUS
      <4> HIDE DEF h
      <4> QED BY <3>3, <4>1
    <3> HIDE DEF h
    <3> QED BY <2>2, <3>4
  <2> QED BY <2>3, <2>4
<1>2. \E at : at = [k \in 0..n |-> IF k = 0 THEN v ELSE f[at[k - 1]]]
  BY <1>1
<1> QED BY <1>2 DEF Steps

LEMMA WalkIn ==
  ASSUME NEW f, NEW n \in Nat, NEW S, NEW v \in S, \A x \in S : f[x] \in S
  PROVE  LET at == Steps(f, n, v)
         IN  /\ DOMAIN at = 0..n /\ at[0] = v
             /\ \A k \in 1..n : at[k] = f[at[k - 1]]
             /\ \A k \in 0..n : at[k] \in S
<1> DEFINE at == Steps(f, n, v)
           Out == {k \in 0..n : at[k] \notin S}
<1>1. at = [k \in 0..n |-> IF k = 0 THEN v ELSE f[at[k - 1]]]
  BY StepsAre
<1> HIDE DEF at
<1>2. DOMAIN at = 0..n /\ at[0] = v /\ \A k \in 1..n : at[k] = f[at[k - 1]]
  <2>1. DOMAIN at = 0..n
    BY <1>1, Zenon
  <2>2. 0 \in 0..n /\ \A k \in 1..n : k \in 0..n /\ k # 0
    OBVIOUS
  <2>3. \A k \in 0..n : at[k] = IF k = 0 THEN v ELSE f[at[k - 1]]
    BY <1>1, Zenon
  <2> QED BY <2>1, <2>2, <2>3
<1>3. Out = {}
  <2> SUFFICES ASSUME Out # {} PROVE FALSE
    OBVIOUS
  <2>1. Out \subseteq Nat
    OBVIOUS
  <2>2. PICK k \in Out : \A j \in Out : k <= j
    <3> HIDE DEF Out
    <3> QED BY <2>1, MinOfNats
  <2>3. k \in 1..n /\ k - 1 \in 0..n
    BY <1>2, <2>2
  <2>4. k - 1 \notin Out
    <3> HIDE DEF Out
    <3> QED BY <2>1, <2>2, <2>3
  <2>5. at[k - 1] \in S
    BY <2>3, <2>4
  <2> QED BY <1>2, <2>2, <2>3, <2>5
<1> QED BY <1>2, <1>3 DEF at

\* A walk over n things that have no ring comes to an end in n steps.
LEMMA WalkEnds ==
  ASSUME NEW f, NEW S, IsFiniteSet(S), NEW n \in Nat, n = Cardinality(S),
         NEW nil, nil \notin S, f[nil] = nil, \A x \in S : f[x] \in S \cup {nil},
         \A C \in SUBSET S : C # {} => \E x \in C : f[x] \notin C,
         NEW v \in S \cup {nil}
  PROVE  Steps(f, n, v)[n] = nil
<1> DEFINE at == Steps(f, n, v)
<1>1. /\ DOMAIN at = 0..n /\ at[0] = v
      /\ \A k \in 1..n : at[k] = f[at[k - 1]]
      /\ \A k \in 0..n : at[k] \in S \cup {nil}
  <2> DEFINE T == S \cup {nil}
  <2>1. v \in T /\ \A x \in T : f[x] \in T
    OBVIOUS
  <2> HIDE DEF T
  <2>2. /\ DOMAIN at = 0..n /\ at[0] = v
        /\ \A k \in 1..n : at[k] = f[at[k - 1]]
        /\ \A k \in 0..n : at[k] \in T
    BY <2>1, WalkIn
  <2> QED BY <2>2 DEF T
<1>2. SUFFICES ASSUME at[n] # nil PROVE FALSE
  OBVIOUS
<1>3. at = [k \in 0..n |-> at[k]]
  <2>1. at = [k \in 0..n |-> IF k = 0 THEN v ELSE f[at[k - 1]]]
    BY StepsAre
  <2> HIDE DEF at
  <2> QED BY <2>1
<1> HIDE DEF at
<1>4. \A k \in 0..n : at[k] # nil
  <2> SUFFICES ASSUME NEW m \in 0..n, at[m] = nil PROVE FALSE
    OBVIOUS
  <2> DEFINE U == {k \in m..n : at[k] # nil}
  <2>1. U \subseteq Nat /\ U # {}
    BY <1>2
  <2>2. PICK u \in U : \A k \in U : u <= k
    <3> HIDE DEF U
    <3> QED BY <2>1, MinOfNats
  <2>3. u # m /\ u \in m..n
    BY <2>2
  <2>4. u - 1 \in m..n /\ u \in 1..n
    BY <2>3
  <2>5. u - 1 \notin U
    <3> HIDE DEF U
    <3> QED BY <2>1, <2>2, <2>4
  <2>6. at[u - 1] = nil
    BY <2>4, <2>5
  <2> QED BY <1>1, <2>2, <2>4, <2>6
<1>5. PICK i \in 0..n, j \in 0..n : i < j /\ at[i] = at[j]
  <2>1. IsFiniteSet(0..n) /\ Cardinality(0..n) = n + 1
    <3>1. 0 \in Int /\ n \in Int /\ ~ (0 > n) /\ n - 0 + 1 = n + 1
      OBVIOUS
    <3> QED BY <3>1, FS_Interval
  <2>2. at \in [0..n -> S]
    BY <1>1, <1>3, <1>4
  <2>3. Cardinality(S) < Cardinality(0..n)
    BY <2>1
  <2> DEFINE I == 0..n
  <2>4. IsFiniteSet(I) /\ at \in [I -> S] /\ Cardinality(S) < Cardinality(I)
    BY <2>1, <2>2, <2>3
  <2> HIDE DEF I
  <2>5. \E x, y \in I : x # y /\ at[x] = at[y]
    BY <2>4, FS_PigeonHole
  <2>6. PICK x \in 0..n, y \in 0..n : x # y /\ at[x] = at[y]
    BY <2>5 DEF I
  <2>7. CASE x < y
    BY <2>6, <2>7
  <2>8. CASE y < x
    BY <2>6, <2>8
  <2> QED BY <2>6, <2>7, <2>8
<1> DEFINE C == {at[k] : k \in i..(j - 1)}
<1>6. C \in SUBSET S
  BY <1>1, <1>4, <1>5
<1>7. C # {}
  BY <1>5
<1>8. ASSUME NEW x \in C PROVE f[x] \in C
  <2>1. PICK k \in i..(j - 1) : x = at[k]
    OBVIOUS
  <2>2. k + 1 \in 1..n /\ (k + 1) - 1 = k
    BY <1>5, <2>1
  <2>3. f[x] = at[k + 1]
    BY <1>1, <2>1, <2>2
  <2>4. CASE k = j - 1
    <3>1. f[x] = at[i] /\ i \in i..(j - 1)
      BY <1>5, <2>3, <2>4
    <3> QED BY <3>1
  <2>5. CASE k # j - 1
    <3>1. k + 1 \in i..(j - 1)
      BY <1>5, <2>1, <2>5
    <3> QED BY <2>3, <3>1
  <2> QED BY <2>4, <2>5
<1> HIDE DEF C
<1> QED BY <1>6, <1>7, <1>8

-----------------------------------------------------------------------------
(* Part of a sequence *)

\* The recursion of Among over the first n items.
KeptOf(s, P, n) ==
  CHOOSE kept : kept = [i \in 0..n |->
    IF i = 0 THEN <<>>
    ELSE IF s[i] \in P THEN Append(kept[i - 1], s[i]) ELSE kept[i - 1]]

\* It defines a function: of the least n for which there was none, one for
\* n - 1 could be prolonged.
LEMMA KeptIs ==
  ASSUME NEW s, NEW P, NEW n \in Nat
  PROVE  KeptOf(s, P, n) = [i \in 0..n |->
           IF i = 0 THEN <<>>
           ELSE IF s[i] \in P THEN Append(KeptOf(s, P, n)[i - 1], s[i])
                ELSE KeptOf(s, P, n)[i - 1]]
<1> DEFINE G(k, i) == IF i = 0 THEN <<>>
                      ELSE IF s[i] \in P THEN Append(k[i - 1], s[i])
                           ELSE k[i - 1]
           Bad == {m \in Nat : ~ \E k : k = [i \in 0..m |-> G(k, i)]}
<1>1. Bad = {}
  <2> SUFFICES ASSUME Bad # {} PROVE FALSE
    OBVIOUS
  <2>1. Bad \subseteq Nat
    OBVIOUS
  <2>2. PICK m \in Bad : \A i \in Bad : m <= i
    <3> HIDE DEF Bad
    <3> QED BY <2>1, MinOfNats
  <2>3. CASE m = 0
    <3> DEFINE g == [i \in 0..0 |-> <<>>]
    <3>1. g = [i \in 0..0 |-> G(g, i)]
      <4>1. \A i \in 0..0 : i = 0
        OBVIOUS
      <4> QED BY <4>1
    <3> HIDE DEF g, G
    <3> QED BY <2>2, <2>3, <3>1
  <2>4. CASE m # 0
    <3>1. m \in Nat /\ m - 1 \in Nat /\ m > 0
      BY <2>2, <2>4
    <3>2. PICK g : g = [i \in 0..(m - 1) |-> G(g, i)]
      <4>1. m - 1 \notin Bad
        <5> HIDE DEF Bad
        <5> QED BY <2>2, <3>1
      <4> HIDE DEF G
      <4> QED BY <3>1, <4>1
    <3> DEFINE x == G(g, m)
               h == [i \in 0..m |-> IF i = m THEN x ELSE g[i]]
    <3>3. \A i \in 0..m : h[i] = G(h, i)
      <4>1. ASSUME NEW i \in 0..m PROVE h[i] = G(h, i)
        <5>0. i # 0 => /\ i - 1 \in 0..m /\ i - 1 # m
                       /\ h[i - 1] = g[i - 1]
          <6> HIDE DEF x, G
          <6> QED BY <3>1
        <5>1. CASE i = m
          <6>1. h[i] = x
            <7> HIDE DEF x
            <7> QED BY <5>1
          <6> HIDE DEF h
          <6> QED BY <2>4, <5>0, <5>1, <6>1
        <5>2. CASE i # m
          <6>1. i \in 0..(m - 1)
            BY <3>1, <5>2
          <6>2. h[i] = g[i]
            <7> HIDE DEF x
            <7> QED BY <5>2
          <6>3. g[i] = G(g, i)
            <7> HIDE DEF G
            <7> QED BY <3>2, <6>1
          <6> HIDE DEF h
          <6> QED BY <5>0, <6>2, <6>3
        <5> QED BY <5>1, <5>2
      <4> QED BY <4>1
    <3>4. h = [i \in 0..m |-> G(h, i)]
      <4>1. h = [i \in 0..m |-> h[i]]
        <5> HIDE DEF x
        <5> QED OBVIOUS
      <4> HIDE DEF h, G
      <4> QED BY <3>3, <4>1
    <3> HIDE DEF h, G
    <3> QED BY <2>2, <3>4
  <2> QED BY <2>3, <2>4
<1>2. \E k : k = [i \in 0..n |-> G(k, i)]
  <2> HIDE DEF G
  <2> QED BY <1>1
<1> QED BY <1>2 DEF KeptOf

LEMMA AmongIs ==
  ASSUME NEW s, NEW P, Len(s) \in Nat
  PROVE  \E k : /\ DOMAIN k = 0..Len(s) /\ k[0] = <<>>
                /\ \A i \in 1..Len(s) :
                     k[i] = IF s[i] \in P THEN Append(k[i - 1], s[i])
                            ELSE k[i - 1]
                /\ Among(s, P) = k[Len(s)]
<1> DEFINE n == Len(s)
           k == KeptOf(s, P, n)
<1>1. Among(s, P) = k[n]
  BY DEF Among, KeptOf
<1>2. k = [i \in 0..n |->
             IF i = 0 THEN <<>>
             ELSE IF s[i] \in P THEN Append(k[i - 1], s[i]) ELSE k[i - 1]]
  BY KeptIs
<1> HIDE DEF k
<1>3. DOMAIN k = 0..n /\ k[0] = <<>>
  BY <1>2
<1>4. \A i \in 1..n : k[i] = IF s[i] \in P THEN Append(k[i - 1], s[i])
                             ELSE k[i - 1]
  <2>1. \A i \in 1..n : i \in 0..n /\ i # 0
    OBVIOUS
  <2> HIDE DEF n
  <2> QED BY <1>2, <2>1
<1> QED BY <1>1, <1>3, <1>4

\* What remains of a sequence is in its set.
LEMMA AmongType ==
  ASSUME NEW T, NEW s \in Seq(T), NEW P
  PROVE  Among(s, P) \in Seq(T)
<1> DEFINE n == Len(s)
<1>1. n \in Nat /\ \A i \in 1..n : s[i] \in T
  OBVIOUS
<1>2. PICK k : /\ DOMAIN k = 0..n /\ k[0] = <<>>
               /\ \A i \in 1..n : k[i] = IF s[i] \in P THEN Append(k[i - 1], s[i])
                                         ELSE k[i - 1]
               /\ Among(s, P) = k[n]
  BY <1>1, AmongIs
<1> DEFINE Bad == {i \in 0..n : k[i] \notin Seq(T)}
<1> HIDE DEF n
<1>3. Bad = {}
  <2> SUFFICES ASSUME Bad # {} PROVE FALSE
    OBVIOUS
  <2>1. Bad \subseteq Nat
    OBVIOUS
  <2>2. PICK i \in Bad : \A j \in Bad : i <= j
    <3> HIDE DEF Bad
    <3> QED BY <2>1, MinOfNats
  <2>3. i # 0
    <3>1. <<>> \in Seq(T)
      OBVIOUS
    <3> QED BY <1>2, <2>2, <3>1
  <2>4. i \in 1..n /\ i - 1 \in 0..n
    BY <1>1, <2>2, <2>3
  <2>5. i - 1 \notin Bad
    <3> HIDE DEF Bad
    <3> QED BY <2>1, <2>2, <2>4
  <2>6. k[i - 1] \in Seq(T)
    BY <2>4, <2>5
  <2>7. Append(k[i - 1], s[i]) \in Seq(T)
    BY <1>1, <2>4, <2>6
  <2> QED BY <1>2, <2>2, <2>4, <2>6, <2>7
<1> QED BY <1>1, <1>2, <1>3
=============================================================================
