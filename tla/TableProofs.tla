---------------------------- MODULE TableProofs -----------------------------
(***************************************************************************)
(* Proofs about the tables of contRegion.c, doubleLinkList.c and           *)
(* addressSpace.c.                                                         *)
(*                                                                         *)
(* ContinueRegion: the runs it grants are apart, its search ends, and the  *)
(* table grows only for want of a run, for any number of holders and runs  *)
(* of any length.                                                          *)
(*                                                                         *)
(* DoubleLinkList: its lists over slots are well formed, its slots are     *)
(* counted, its deletion candidate stays, and it implements PageLists.     *)
(* The invariant is Linked: the links of the nodes in use go both ways and *)
(* no list is a ring.                                                      *)
(*                                                                         *)
(* AddressSpace: its page tables are a tree, its pages are accounted for,  *)
(* and it implements AddressMap.  The invariant is SpaceInv: a tree with a *)
(* level for each table, regions whose runs of cells are those in use, and *)
(* each page that is not yet collected at one address, in a region.        *)
(***************************************************************************)
EXTENDS ContinueRegion, DoubleLinkList, AddressSpace, TableLemmas,
        SequenceTheorems

-----------------------------------------------------------------------------
(* Module ContinueRegion *)

RunRecord == [start : Nat, size : Nat]

\* What the invariant says of the table alone.
LEMMA TableIsRegions ==
  ASSUME OccupiedExactly
  PROVE  cr \in Regions
<1>1. cr \in [occupied : SUBSET (0..(cr.size - 1)), size : Nat,
              allocated : 0..cr.size, last_index : 0..cr.size]
  BY DEF OccupiedExactly, TypeOK
<1>2. cr.size \in Nat /\ cr.size > 0
  BY DEF OccupiedExactly, TypeOK
<1>3. /\ cr \in [occupied : SUBSET Nat, size : Nat, allocated : Nat,
                last_index : Nat]
      /\ cr.last_index <= cr.size /\ cr.occupied \subseteq 0..(cr.size - 1)
  <2>1. 0..(cr.size - 1) \subseteq Nat /\ 0..cr.size \subseteq Nat
    BY <1>2
  <2> QED BY <1>1, <1>2, <2>1
<1>4. cr.allocated = Cardinality(cr.occupied)
  BY DEF OccupiedExactly
<1> QED BY <1>2, <1>3, <1>4 DEF Regions

-----------------------------------------------------------------------------
(* OccupiedExactly is inductive. *)

LEMMA InitOccupied == Init => OccupiedExactly
<1> SUFFICES ASSUME Init PROVE OccupiedExactly
  OBVIOUS
<1>1. cr = [occupied |-> {}, size |-> 4, allocated |-> 0, last_index |-> 0]
  BY DEF Init, EmptyRegions
<1>2. \A h \in Holder : held[h] = None /\ CellsOf(h) = {}
  BY DEF Init, CellsOf
<1>3. TypeOK
  BY <1>1 DEF TypeOK, Init
<1>4. cr.allocated = Cardinality(cr.occupied)
  BY <1>1, FS_EmptySet
<1> QED BY <1>1, <1>2, <1>3, <1>4 DEF OccupiedExactly

\* What a request does to the table and to the runs that are held.
LEMMA RequestChanges ==
  ASSUME OccupiedExactly, NEW h \in Holder, NEW n \in Nat, Request(h, n)
  PROVE  /\ \E s \in Nat :
              /\ s + n <= cr'.size
              /\ cr'.size \in Nat /\ cr'.size > 0 /\ cr.size <= cr'.size
              /\ Cells(s, n) \cap cr.occupied = {}
              /\ cr' = [occupied |-> cr.occupied \cup Cells(s, n),
                        size |-> cr'.size, allocated |-> cr.allocated + n,
                        last_index |-> s + n]
              /\ held'[h] = [start |-> s, size |-> n]
              /\ CellsOf(h)' = Cells(s, n)
         /\ CellsOf(h) = {}
         /\ \A g \in Holder : g # h => CellsOf(g)' = CellsOf(g)
<1> DEFINE s == RequestRegion(cr, n).start
<1>1. cr \in Regions
  BY TableIsRegions
<1>2. /\ s \in Nat /\ s + n <= cr'.size /\ Cells(s, n) \cap cr.occupied = {}
      /\ cr' \in Regions /\ cr.size <= cr'.size
      /\ cr'.occupied = cr.occupied \cup Cells(s, n)
      /\ cr'.allocated = cr.allocated + n /\ cr'.last_index = s + n
  BY <1>1, RequestGrants DEF Request
<1>3. /\ held[h] = None /\ held' = [held EXCEPT ![h] = [start |-> s, size |-> n]]
  BY DEF Request
<1> HIDE DEF s
<1>4. cr'.size \in Nat /\ cr'.size > 0
  BY <1>2 DEF Regions
<1>5. cr' = [occupied |-> cr.occupied \cup Cells(s, n), size |-> cr'.size,
             allocated |-> cr.allocated + n, last_index |-> s + n]
  BY <1>2 DEF Regions
<1>6. held \in [Holder -> RunRecord \cup {None}]
  BY DEF OccupiedExactly, TypeOK, RunRecord
<1>7. held'[h] = [start |-> s, size |-> n]
  BY <1>3, <1>6
<1>8. held'[h] # None
  BY <1>2, <1>7, RequestAssumption
<1>9. CellsOf(h)' = Cells(s, n) /\ CellsOf(h) = {}
  BY <1>3, <1>7, <1>8 DEF CellsOf
<1>10. \A g \in Holder : g # h => CellsOf(g)' = CellsOf(g)
  BY <1>3, <1>6 DEF CellsOf
<1> QED BY <1>2, <1>4, <1>5, <1>7, <1>9, <1>10

\* And what ContinueRegion__release does.
LEMMA GiveBackChanges ==
  ASSUME OccupiedExactly, NEW h \in Holder, GiveBack(h)
  PROVE  /\ held[h] \in RunRecord
         /\ cr' = [occupied |-> cr.occupied \ CellsOf(h), size |-> cr.size,
                   allocated |-> cr.allocated - held[h].size,
                   last_index |-> cr.last_index]
         /\ CellsOf(h) = Cells(held[h].start, held[h].size)
         /\ CellsOf(h)' = {}
         /\ \A g \in Holder : g # h => CellsOf(g)' = CellsOf(g)
<1>1. held \in [Holder -> RunRecord \cup {None}]
  BY DEF OccupiedExactly, TypeOK, RunRecord
<1>2. /\ held[h] # None /\ held' = [held EXCEPT ![h] = None]
      /\ cr' = Release(cr, held[h].start, held[h].size)
  BY DEF GiveBack
<1>3. held[h] \in RunRecord /\ held'[h] = None
  BY <1>1, <1>2
<1>4. /\ CellsOf(h) = Cells(held[h].start, held[h].size)
      /\ CellsOf(h)' = {}
  BY <1>2, <1>3 DEF CellsOf
<1>5. \A g \in Holder : g # h => CellsOf(g)' = CellsOf(g)
  BY <1>1, <1>2 DEF CellsOf
<1>6. cr \in Regions /\ CellsOf(h) \subseteq cr.occupied
  BY TableIsRegions DEF OccupiedExactly
<1>7. cr' = [occupied |-> cr.occupied \ CellsOf(h), size |-> cr.size,
             allocated |-> cr.allocated - held[h].size,
             last_index |-> cr.last_index]
  BY <1>2, <1>3, <1>4, <1>6, ReleaseFrees DEF RunRecord
<1> QED BY <1>3, <1>4, <1>5, <1>7

LEMMA RequestKeeps ==
  ASSUME OccupiedExactly, NEW h \in Holder, NEW n \in Nat, Request(h, n)
  PROVE  OccupiedExactly'
<1>1. PICK s \in Nat :
        /\ s + n <= cr'.size
        /\ cr'.size \in Nat /\ cr'.size > 0 /\ cr.size <= cr'.size
        /\ Cells(s, n) \cap cr.occupied = {}
        /\ cr' = [occupied |-> cr.occupied \cup Cells(s, n),
                  size |-> cr'.size, allocated |-> cr.allocated + n,
                  last_index |-> s + n]
        /\ held'[h] = [start |-> s, size |-> n]
        /\ CellsOf(h)' = Cells(s, n)
  BY RequestChanges
<1>2. /\ CellsOf(h) = {}
      /\ \A g \in Holder : g # h => CellsOf(g)' = CellsOf(g)
  BY RequestChanges
<1>3. /\ cr \in Regions /\ cr.occupied = UNION {CellsOf(g) : g \in Holder}
      /\ \A f, g \in Holder : f # g => CellsOf(f) \cap CellsOf(g) = {}
  BY TableIsRegions DEF OccupiedExactly
<1>4. /\ cr.size \in Nat /\ cr.size > 0 /\ cr.occupied \subseteq 0..(cr.size - 1)
      /\ cr.allocated \in Nat /\ cr.allocated = Cardinality(cr.occupied)
      /\ IsFiniteSet(cr.occupied)
  BY <1>3, AllocatedFits DEF Regions
<1>5. cr' \in Regions
  BY <1>3, RequestGrants DEF Request
<1>6. cr'.occupied \subseteq 0..(cr'.size - 1)
  BY <1>5 DEF Regions
<1>7. cr'.allocated = Cardinality(cr'.occupied) /\ IsFiniteSet(cr'.occupied)
  BY <1>5, AllocatedFits DEF Regions
<1>8. TypeOK'
  <2>1. cr'.allocated \in 0..cr'.size
    BY <1>5, AllocatedFits DEF Regions
  <2>2. held' \in [Holder -> [start : Nat, size : Nat] \cup {None}]
    <3>1. held \in [Holder -> [start : Nat, size : Nat] \cup {None}]
      BY DEF OccupiedExactly, TypeOK
    <3>2. held' = [held EXCEPT ![h] = [start |-> s, size |-> n]]
      BY <1>1, <3>1 DEF Request
    <3> QED BY <3>1, <3>2
  <2> QED BY <1>1, <1>6, <2>1, <2>2 DEF TypeOK
<1>9. cr'.occupied = UNION {CellsOf(g)' : g \in Holder}
  BY <1>1, <1>2, <1>3
<1>10. \A f, g \in Holder : f # g => CellsOf(f)' \cap CellsOf(g)' = {}
  BY <1>1, <1>2, <1>3
<1> QED BY <1>7, <1>8, <1>9, <1>10 DEF OccupiedExactly

LEMMA GiveBackKeeps ==
  ASSUME OccupiedExactly, NEW h \in Holder, GiveBack(h)
  PROVE  OccupiedExactly'
<1> DEFINE n == held[h].size
<1>1. /\ n \in Nat /\ held[h].start \in Nat
      /\ cr' = [occupied |-> cr.occupied \ CellsOf(h), size |-> cr.size,
                allocated |-> cr.allocated - n, last_index |-> cr.last_index]
      /\ CellsOf(h) = Cells(held[h].start, n)
      /\ CellsOf(h)' = {}
      /\ \A g \in Holder : g # h => CellsOf(g)' = CellsOf(g)
  BY GiveBackChanges DEF RunRecord
<1> HIDE DEF n
<1>2. /\ cr \in Regions /\ cr.occupied = UNION {CellsOf(g) : g \in Holder}
      /\ \A f, g \in Holder : f # g => CellsOf(f) \cap CellsOf(g) = {}
  BY TableIsRegions DEF OccupiedExactly
<1>3. /\ cr.size \in Nat /\ cr.size > 0 /\ cr.occupied \subseteq 0..(cr.size - 1)
      /\ cr.allocated \in Nat /\ cr.allocated = Cardinality(cr.occupied)
      /\ IsFiniteSet(cr.occupied) /\ cr.allocated <= cr.size
      /\ cr.last_index \in 0..cr.size
  BY <1>2, AllocatedFits DEF Regions
<1>4. /\ IsFiniteSet(CellsOf(h)) /\ Cardinality(CellsOf(h)) = n
      /\ CellsOf(h) \subseteq cr.occupied
  BY <1>1, <1>2, CellsCounted
<1>5. /\ cr'.allocated = Cardinality(cr'.occupied)
      /\ cr'.allocated \in 0..cr.size
  <2>1. cr' \in Regions
    <3>1. held[h].start \in Nat /\ held[h].size \in Nat
      BY GiveBackChanges DEF RunRecord
    <3>2. Cells(held[h].start, held[h].size) \subseteq cr.occupied
      BY <1>1, <1>4 DEF n
    <3> QED BY <1>2, <3>1, <3>2, ReleaseFrees DEF GiveBack
  <2>2. /\ cr'.allocated = Cardinality(cr'.occupied)
        /\ cr'.allocated \in Nat /\ cr'.size \in Nat
        /\ cr'.allocated <= cr'.size
    BY <2>1, AllocatedFits DEF Regions
  <2>3. cr'.size = cr.size
    BY <1>1
  <2> QED BY <2>2, <2>3
<1>6. TypeOK'
  <2>1. held' \in [Holder -> [start : Nat, size : Nat] \cup {None}]
    BY DEF GiveBack, OccupiedExactly, TypeOK
  <2> QED BY <1>1, <1>3, <1>5, <2>1 DEF TypeOK
<1>7. cr'.occupied = UNION {CellsOf(g)' : g \in Holder}
  <2>1. ASSUME NEW c \in cr.occupied \ CellsOf(h)
        PROVE  \E g \in Holder : c \in CellsOf(g)'
    BY <1>1, <1>2, <2>1
  <2>2. ASSUME NEW g \in Holder, NEW c \in CellsOf(g)'
        PROVE  c \in cr.occupied \ CellsOf(h)
    BY <1>1, <1>2, <2>2
  <2> QED BY <1>1, <2>1, <2>2
<1>8. \A f, g \in Holder : f # g => CellsOf(f)' \cap CellsOf(g)' = {}
  BY <1>1, <1>2
<1> QED BY <1>5, <1>6, <1>7, <1>8 DEF OccupiedExactly

LEMMA NextOccupied == OccupiedExactly /\ [Next]_vars => OccupiedExactly'
<1> SUFFICES ASSUME OccupiedExactly, [Next]_vars PROVE OccupiedExactly'
  OBVIOUS
<1>1. ASSUME NEW h \in Holder, NEW n \in 0..MaxRequest, Request(h, n)
      PROVE  OccupiedExactly'
  BY <1>1, RequestKeeps, RequestAssumption
<1>2. ASSUME NEW h \in Holder, GiveBack(h) PROVE OccupiedExactly'
  BY <1>2, GiveBackKeeps
<1>3. CASE UNCHANGED vars
  <2>1. cr' = cr /\ held' = held
    BY <1>3 DEF vars
  <2>2. TypeOK' /\ \A h \in Holder : CellsOf(h)' = CellsOf(h)
    BY <2>1 DEF OccupiedExactly, TypeOK, CellsOf
  <2> QED BY <2>1, <2>2 DEF OccupiedExactly
<1> QED BY <1>1, <1>2, <1>3 DEF Next

LEMMA InvariantHolds == Spec => []OccupiedExactly
BY InitOccupied, NextOccupied, PTL DEF Spec

(***************************************************************************)
(* Whatever was requested and released, the cells in use are those of the  *)
(* runs that are held, no two runs meet, and the count is right: the       *)
(* assertions of __alloc and ContinueRegion__release do not fail.          *)
(***************************************************************************)
THEOREM RunsApart == Spec => []OccupiedExactly
BY InvariantHolds

(***************************************************************************)
(* ContinueRegion__requestRegion calls itself at most once, wherever the   *)
(* last search stopped and however long a run is asked for.                *)
(***************************************************************************)
THEOREM SearchTerminates == Spec => []SearchEnds
<1>1. OccupiedExactly => SearchEnds
  <2> SUFFICES ASSUME OccupiedExactly, NEW n \in 0..MaxRequest
               PROVE  Rounds(Searched(cr, n), n) # {}
    BY DEF SearchEnds
  <2>1. n \in Nat
    BY RequestAssumption
  <2> QED BY <2>1, TableIsRegions, SearchedFinds
<1> QED BY <1>1, InvariantHolds, PTL

-----------------------------------------------------------------------------
(* The runs a search misses. *)

\* A run that is free leaves room for its cells in the count.
LEMMA FreeRunFits ==
  ASSUME OccupiedExactly, NEW n \in Nat, NEW s \in FreeRuns(n)
  PROVE  n + cr.allocated <= cr.size
<1>1. cr \in Regions
  BY TableIsRegions
<1>2. /\ cr.size \in Nat /\ cr.size > 0 /\ IsFiniteSet(cr.occupied)
      /\ cr.occupied \subseteq 0..(cr.size - 1)
      /\ cr.allocated \in Nat /\ cr.allocated = Cardinality(cr.occupied)
  BY <1>1, AllocatedFits DEF Regions
<1>3. /\ s \in Nat /\ s + n <= cr.size /\ Cells(s, n) \cap cr.occupied = {}
  BY <1>2 DEF FreeRuns
<1>4. IsFiniteSet(Cells(s, n)) /\ Cardinality(Cells(s, n)) = n
  BY <1>3, CellsCounted
<1>5. Cardinality(Cells(s, n) \cup cr.occupied) = n + cr.allocated
  <2>1. Cardinality(Cells(s, n) \cap cr.occupied) = 0
    BY <1>3, FS_EmptySet
  <2>2. Cardinality(Cells(s, n) \cup cr.occupied)
          = Cardinality(Cells(s, n)) + Cardinality(cr.occupied)
              - Cardinality(Cells(s, n) \cap cr.occupied)
    BY <1>2, <1>4, FS_Union
  <2> QED BY <1>2, <1>4, <2>1, <2>2
<1>6. Cells(s, n) \cup cr.occupied \in SUBSET (0..(cr.size - 1))
  BY <1>2, <1>3 DEF Cells
<1>7. IsFiniteSet(0..(cr.size - 1)) /\ Cardinality(0..(cr.size - 1)) = cr.size
  <2>1. /\ 0 \in Int /\ cr.size - 1 \in Int /\ ~ (0 > cr.size - 1)
        /\ (cr.size - 1) - 0 + 1 = cr.size
    BY <1>2
  <2> QED BY <2>1, FS_Interval
<1>8. Cardinality(Cells(s, n) \cup cr.occupied)
        <= Cardinality(0..(cr.size - 1))
  BY <1>6, <1>7, FS_Subset
<1> QED BY <1>5, <1>7, <1>8

\* The loop comes to the end of a free run at last_index or behind it, unless
\* the run ends the table and the loop began at cell 0.
LEMMA FindsBehind ==
  ASSUME NEW t \in Regions, NEW n \in Nat, NEW s \in Nat,
         s + n <= t.size, Cells(s, n) \cap t.occupied = {},
         t.last_index <= s, t.last_index = 0 => s + n < t.size
  PROVE  Rounds(t, n) # {}
<1> DEFINE k == s - t.last_index + n
<1>1. t.size \in Nat /\ t.last_index \in Nat
  BY DEF Regions
<1>2. k \in n..(t.size - 1) /\ k - n \in Nat
  BY <1>1
<1>3. ASSUME NEW j \in (k - n)..(k - 1) PROVE ~ Blocked(t, j)
  <2>1. /\ t.last_index + j \in Cells(s, n)
        /\ t.last_index + j < t.size
    BY <1>1 DEF Cells
  <2> QED BY <2>1 DEF Blocked
<1> QED BY <1>2, <1>3 DEF Rounds

\* After a turn it comes to one before last_index, unless the run begins with
\* cell 0 or ends where the search began.
LEMMA FindsBefore ==
  ASSUME NEW t \in Regions, NEW n \in Nat, NEW s \in Nat,
         s + n < t.last_index, Cells(s, n) \cap t.occupied = {}, s > 0
  PROVE  Rounds(t, n) # {}
<1> DEFINE k == s + t.size - t.last_index + n
<1>1. t.size \in Nat /\ t.last_index \in 0..t.size
  BY DEF Regions
<1>2. k \in n..(t.size - 1) /\ k - n \in Nat
  BY <1>1
<1>3. ASSUME NEW j \in (k - n)..(k - 1) PROVE ~ Blocked(t, j)
  <2>1. /\ t.last_index + j - t.size \in Cells(s, n)
        /\ t.last_index + j > t.size
    BY <1>1 DEF Cells
  <2> QED BY <1>1, <2>1 DEF Blocked
<1> QED BY <1>2, <1>3 DEF Rounds

(***************************************************************************)
(* The table grows only when every free run that is long enough begins     *)
(* with cell 0, lies across last_index or ends just before it: whatever    *)
(* its size, its holes and the length asked for.                           *)
(***************************************************************************)
THEOREM GrowthNeedsWant == Spec => []GrowsForWantOfRun
<1>1. OccupiedExactly => GrowsForWantOfRun
  <2> SUFFICES ASSUME OccupiedExactly, NEW n \in 1..MaxRequest,
                      Searched(cr, n) # cr, NEW s \in FreeRuns(n),
                      s # 0, ~ (s < cr.last_index /\ cr.last_index < s + n),
                      (s + n) % cr.size # cr.last_index % cr.size
               PROVE  FALSE
    BY DEF GrowsForWantOfRun
  <2>1. n \in Nat /\ n > 0
    BY RequestAssumption
  <2>2. /\ cr \in Regions /\ cr.size \in Nat /\ cr.size > 0
        /\ cr.last_index \in 0..cr.size
    BY TableIsRegions DEF Regions
  <2>3. s \in Nat /\ s + n <= cr.size /\ Cells(s, n) \cap cr.occupied = {}
    BY <2>1, <2>2 DEF FreeRuns
  <2>4. Rounds(cr, n) = {}
    <3>1. Roomy(cr, n) = cr
      <4>1. ~ (n + cr.allocated > cr.size)
        <5>1. cr.allocated \in Nat
          BY <2>2 DEF Regions
        <5> QED BY <2>1, <2>2, <5>1, FreeRunFits
      <4> QED BY <4>1 DEF Roomy
    <3> QED BY <3>1 DEF Searched
  <2>5. CASE cr.last_index <= s
    <3>1. cr.last_index = 0 => s + n # cr.size
      BY <2>2
    <3>2. cr.last_index = 0 => s + n < cr.size
      BY <2>1, <2>2, <2>3, <3>1
    <3> QED BY <2>1, <2>2, <2>3, <2>4, <2>5, <3>2, FindsBehind
  <2>6. CASE s < cr.last_index
    <3>1. s + n # cr.last_index
      OBVIOUS
    <3>2. s + n < cr.last_index
      BY <2>1, <2>2, <2>3, <2>6, <3>1
    <3> QED BY <2>1, <2>2, <2>3, <2>4, <3>2, FindsBefore
  <2> QED BY <2>2, <2>3, <2>5, <2>6
<1> QED BY <1>1, InvariantHolds, PTL

-----------------------------------------------------------------------------
(* What is granted are disjoint runs. *)

Granted == {CellsOf(h) : h \in Holder} \ {{}}

LEMMA InitMaps == Init => Runs!Init
<1> SUFFICES ASSUME Init PROVE Granted = {}
  BY DEF Runs!Init, Granted
<1>1. \A h \in Holder : CellsOf(h) = {}
  BY DEF Init, CellsOf
<1> QED BY <1>1 DEF Granted

LEMMA NextMaps == OccupiedExactly /\ [Next]_vars => [Runs!Next]_(Runs!vars)
<1> SUFFICES ASSUME OccupiedExactly, [Next]_vars
             PROVE  [Runs!Next]_(Runs!vars)
  OBVIOUS
<1>1. ASSUME NEW h \in Holder, NEW n \in 0..MaxRequest, Request(h, n)
      PROVE  [Runs!Next]_(Runs!vars)
  <2>1. n \in Nat
    BY RequestAssumption
  <2>2. PICK s \in Nat : /\ Cells(s, n) \cap cr.occupied = {}
                         /\ CellsOf(h)' = Cells(s, n)
    BY <1>1, <2>1, RequestChanges
  <2>3. /\ CellsOf(h) = {}
        /\ \A g \in Holder : g # h => CellsOf(g)' = CellsOf(g)
    BY <1>1, <2>1, RequestChanges
  <2>4. Granted' = (Granted \cup {Cells(s, n)}) \ {{}}
    BY <2>2, <2>3 DEF Granted
  <2>5. UNION Granted = cr.occupied
    BY DEF OccupiedExactly, Granted
  <2>6. CASE n = 0
    <3>1. Cells(s, n) = {}
      BY <2>6 DEF Cells
    <3>2. Granted' = Granted
      BY <2>4, <3>1 DEF Granted
    <3> QED BY <3>2 DEF Runs!vars, Granted
  <2>7. CASE n > 0
    <3> DEFINE r == Cells(s, n)
    <3>1. s \in r /\ s + n - 1 \in r /\ r = s..(s + n - 1)
      BY <2>1, <2>7 DEF Cells
    <3> HIDE DEF r
    <3>2. Granted' = Granted \cup {r} /\ r \cap UNION Granted = {}
      BY <2>2, <2>4, <2>5, <3>1 DEF Granted, r
    <3>3. r \in Granted' \ Granted
      BY <3>1, <3>2
    <3>4. Runs!IsRun(r)
      BY <3>1 DEF Runs!IsRun
    <3>5. Runs!Grant(r)
      BY <3>2, <3>4 DEF Runs!Grant, Granted
    <3> QED BY <3>3, <3>5 DEF Runs!Next, Granted
  <2> QED BY <2>1, <2>6, <2>7
<1>2. ASSUME NEW h \in Holder, GiveBack(h) PROVE [Runs!Next]_(Runs!vars)
  <2>1. /\ CellsOf(h)' = {}
        /\ \A g \in Holder : g # h => CellsOf(g)' = CellsOf(g)
    BY <1>2, GiveBackChanges
  <2>2. \A f, g \in Holder : f # g => CellsOf(f) \cap CellsOf(g) = {}
    BY DEF OccupiedExactly
  <2>3. Granted' = Granted \ {CellsOf(h)}
    BY <2>1, <2>2 DEF Granted
  <2>4. CASE CellsOf(h) = {}
    BY <2>3, <2>4 DEF Runs!vars, Granted
  <2>5. CASE CellsOf(h) # {}
    <3>1. CellsOf(h) \in Granted
      BY <2>5 DEF Granted
    <3>2. Runs!GiveBack(CellsOf(h))
      BY <2>3 DEF Runs!GiveBack, Granted
    <3> QED BY <3>1, <3>2 DEF Runs!Next, Granted
  <2> QED BY <2>4, <2>5
<1>3. CASE UNCHANGED vars
  <2>1. \A h \in Holder : CellsOf(h)' = CellsOf(h)
    BY <1>3 DEF vars, CellsOf
  <2> QED BY <2>1 DEF Runs!vars
<1> QED BY <1>1, <1>2, <1>3 DEF Next

(***************************************************************************)
(* Seen from outside, the table grants runs apart from all that were       *)
(* granted before, one at a time, and takes them back whole.               *)
(***************************************************************************)
THEOREM GrantsDisjointRuns == Spec => ImplementsRuns
BY InvariantHolds, InitMaps, NextMaps, PTL
   DEF Spec, ImplementsRuns, Runs!Spec

-----------------------------------------------------------------------------
(* The loop of the search, round by round. *)

\* The state it begins in.
LoopBegin(t) == [this_start |-> t.last_index, clean |-> 0]

\* One round of the loop.
LoopRound(t, n, s) ==
  LET at == s.this_start + s.clean
  IN  IF s.clean = n THEN s
      ELSE IF at = t.size \/ at \in t.occupied
      THEN [this_start |-> (at + 1) % t.size, clean |-> 0]
      ELSE [s EXCEPT !.clean = @ + 1]

\* The recursion of LoopStart over the first m rounds.
LoopStates(t, n, m) ==
  CHOOSE state : state = [k \in 0..m |->
    IF k = 0 THEN [this_start |-> t.last_index, clean |-> 0]
    ELSE LET s  == state[k - 1]
             at == s.this_start + s.clean
         IN  IF s.clean = n THEN s
             ELSE IF at = t.size \/ at \in t.occupied
             THEN [this_start |-> (at + 1) % t.size, clean |-> 0]
             ELSE [s EXCEPT !.clean = @ + 1]]

\* It defines a function, as KeptIs has it for Among.
LEMMA LoopStatesAre ==
  ASSUME NEW t, NEW n, NEW l \in Nat
  PROVE  LoopStates(t, n, l) = [k \in 0..l |->
           IF k = 0 THEN LoopBegin(t)
           ELSE LoopRound(t, n, LoopStates(t, n, l)[k - 1])]
<1> DEFINE G(k, i) == IF i = 0 THEN LoopBegin(t)
                      ELSE LoopRound(t, n, k[i - 1])
           Bad == {m \in Nat : ~ \E k : k = [i \in 0..m |-> G(k, i)]}
<1>1. Bad = {}
  <2> SUFFICES ASSUME Bad # {} PROVE FALSE
    OBVIOUS
  <2>1. Bad \subseteq Nat
    OBVIOUS
  <2>2. PICK m \in Bad : \A i \in Bad : m <= i
    <3> HIDE DEF Bad
    <3> QED BY <2>1, MinOfNats
  <2>3. CASE m = 0
    <3> DEFINE g == [i \in 0..0 |-> LoopBegin(t)]
    <3>1. g = [i \in 0..0 |-> G(g, i)]
      <4>1. \A i \in 0..0 : i = 0
        OBVIOUS
      <4> QED BY <4>1
    <3> HIDE DEF g, G
    <3> QED BY <2>2, <2>3, <3>1
  <2>4. CASE m # 0
    <3>1. m \in Nat /\ m - 1 \in Nat /\ m > 0
      BY <2>2, <2>4
    <3>2. PICK g : g = [i \in 0..(m - 1) |-> G(g, i)]
      <4>1. m - 1 \notin Bad
        <5> HIDE DEF Bad
        <5> QED BY <2>2, <3>1
      <4> HIDE DEF G
      <4> QED BY <3>1, <4>1
    <3> DEFINE x == G(g, m)
               h == [i \in 0..m |-> IF i = m THEN x ELSE g[i]]
    <3>3. \A i \in 0..m : h[i] = G(h, i)
      <4>1. ASSUME NEW i \in 0..m PROVE h[i] = G(h, i)
        <5>0. i # 0 => /\ i - 1 \in 0..m /\ i - 1 # m
                       /\ h[i - 1] = g[i - 1]
          <6> HIDE DEF x, G
          <6> QED BY <3>1
        <5>1. CASE i = m
          <6>1. h[i] = x
            <7> HIDE DEF x
            <7> QED BY <5>1
          <6> HIDE DEF h
          <6> QED BY <2>4, <5>0, <5>1, <6>1
        <5>2. CASE i # m
          <6>1. i \in 0..(m - 1)
            BY <3>1, <5>2
          <6>2. h[i] = g[i]
            <7> HIDE DEF x
            <7> QED BY <5>2
          <6>3. g[i] = G(g, i)
            <7> HIDE DEF G
            <7> QED BY <3>2, <6>1
          <6> HIDE DEF h
          <6> QED BY <5>0, <6>2, <6>3
        <5> QED BY <5>1, <5>2
      <4> QED BY <4>1
    <3>4. h = [i \in 0..m |-> G(h, i)]
      <4>1. h = [i \in 0..m |-> h[i]]
        <5> HIDE DEF x
        <5> QED OBVIOUS
      <4> HIDE DEF h, G
      <4> QED BY <3>3, <4>1
    <3> HIDE DEF h, G
    <3> QED BY <2>2, <3>4
  <2> QED BY <2>3, <2>4
<1>2. \E k : k = [i \in 0..l |-> G(k, i)]
  <2> HIDE DEF G
  <2> QED BY <1>1
<1> QED BY <1>2 DEF LoopStates, LoopBegin, LoopRound

\* What the loop answers that goes through the states f.
LoopAnswer(t, n, f) ==
  LET found == {k \in 0..(t.size - 1) : f[k].clean = n}
  IN  IF found = {} THEN -1 ELSE f[Min(found)].this_start

LEMMA LoopIs ==
  ASSUME NEW t, NEW n, t.size \in Nat
  PROVE  \E f : /\ f[0] = LoopBegin(t)
                /\ \A k \in 1..t.size : f[k] = LoopRound(t, n, f[k - 1])
                /\ LoopStart(t, n) = LoopAnswer(t, n, f)
<1> DEFINE m == t.size
           f == LoopStates(t, n, m)
           found == {k \in 0..(m - 1) : f[k].clean = n}
<1>1. LoopStart(t, n) = IF found = {} THEN -1 ELSE f[Min(found)].this_start
  BY DEF LoopStart, LoopStates
<1>2. m \in Nat
  OBVIOUS
<1> HIDE DEF m
<1>3. f = [k \in 0..m |-> IF k = 0 THEN LoopBegin(t)
                          ELSE LoopRound(t, n, f[k - 1])]
  BY <1>2, LoopStatesAre
<1> HIDE DEF f
<1>4. f[0] = LoopBegin(t)
  BY <1>2, <1>3
<1>5. \A k \in 1..m : f[k] = LoopRound(t, n, f[k - 1])
  <2>1. \A k \in 1..m : k \in 0..m /\ k # 0
    BY <1>2
  <2> QED BY <1>3, <2>1
<1>6. LoopStart(t, n) = LoopAnswer(t, n, f)
  BY <1>1 DEF LoopAnswer, m
<1> QED BY <1>4, <1>5, <1>6 DEF m

(* Where the loop is *)

\* What the loop looks at in round k: a cell, or the end of the table.
CellAt(t, k) ==
  LET at == t.last_index + k
  IN  IF at < t.size THEN at
      ELSE IF at = t.size /\ (k = 0 \/ t.size - 1 \notin t.occupied)
      THEN t.size ELSE at - t.size

LEMMA CellIs ==
  ASSUME NEW t \in Regions, NEW k \in 0..(t.size - 1)
  PROVE  /\ CellAt(t, k) \in 0..t.size
         /\ Blocked(t, k) <=> \/ CellAt(t, k) = t.size
                              \/ CellAt(t, k) \in t.occupied
<1>1. /\ t.size \in Nat /\ t.size > 0 /\ t.last_index \in 0..t.size
      /\ t.occupied \subseteq 0..(t.size - 1) /\ k \in Nat
  BY DEF Regions
<1>2. CellAt(t, k) \in 0..t.size
  BY <1>1 DEF CellAt
<1>3. t.size \notin t.occupied
  BY <1>1
<1>4. CASE t.last_index + k < t.size
  BY <1>1, <1>4 DEF CellAt, Blocked
<1>5. CASE t.last_index + k = t.size
  BY <1>1, <1>3, <1>5 DEF CellAt, Blocked
<1>6. CASE t.last_index + k > t.size
  BY <1>1, <1>6 DEF CellAt, Blocked
<1> QED BY <1>1, <1>2, <1>4, <1>5, <1>6

LEMMA Around ==
  ASSUME NEW n \in Nat, n > 1, NEW k \in 0..n
  PROVE  (k + 1) % n = IF k + 1 < n THEN k + 1 ELSE k + 1 - n
<1>1. CASE k + 1 < n
  BY <1>1, SMT
<1>2. CASE k + 1 = n
  <2>1. n % n = 0
    BY SMT
  <2> QED BY <1>2, <2>1
<1>3. CASE k = n
  <2>1. (n + 1) % n = 1
    BY SMT
  <2> QED BY <1>3, <2>1
<1> QED BY <1>1, <1>2, <1>3

LEMMA CellNext ==
  ASSUME NEW t \in Regions, NEW k \in 0..(t.size - 2)
  PROVE  CellAt(t, k + 1) = IF Blocked(t, k) THEN (CellAt(t, k) + 1) % t.size
                                             ELSE CellAt(t, k) + 1
<1>1. /\ t.size \in Nat /\ t.size > 1 /\ t.last_index \in 0..t.size
      /\ t.occupied \subseteq 0..(t.size - 1) /\ k \in Nat
      /\ k \in 0..(t.size - 1)
  BY DEF Regions
<1>2. /\ CellAt(t, k) \in 0..t.size
      /\ Blocked(t, k) <=> \/ CellAt(t, k) = t.size
                           \/ CellAt(t, k) \in t.occupied
  BY <1>1, CellIs
<1> DEFINE c == CellAt(t, k)
<1>3. (c + 1) % t.size = IF c + 1 < t.size THEN c + 1 ELSE c + 1 - t.size
  <2>1. t.size \in Nat /\ t.size > 1 /\ c \in 0..t.size
    BY <1>1, <1>2
  <2> HIDE DEF c
  <2> QED BY <2>1, Around, Zenon
<1>4. CASE t.last_index + k + 1 < t.size
  <2>1. c = t.last_index + k /\ c + 1 < t.size
    BY <1>1, <1>4 DEF CellAt
  <2>2. CellAt(t, k + 1) = c + 1
    BY <1>1, <1>4, <2>1 DEF CellAt
  <2> QED BY <1>3, <2>1, <2>2
<1>5. CASE t.last_index + k + 1 = t.size
  <2>1. c = t.size - 1
    BY <1>1, <1>5 DEF CellAt
  <2>2. CellAt(t, k + 1) = IF t.size - 1 \in t.occupied THEN 0 ELSE t.size
    BY <1>1, <1>5 DEF CellAt
  <2>3. Blocked(t, k) <=> t.size - 1 \in t.occupied
    BY <1>1, <1>2, <2>1
  <2> QED BY <1>1, <1>3, <2>1, <2>2, <2>3
<1>6. CASE t.last_index + k = t.size
  <2>1. CellAt(t, k + 1) = 1
    BY <1>1, <1>6 DEF CellAt
  <2>2. c = t.size \/ c = 0
    BY <1>1, <1>6 DEF CellAt
  <2> QED BY <1>1, <1>2, <1>3, <2>1, <2>2
<1>7. CASE t.last_index + k > t.size
  <2>1. /\ c = t.last_index + k - t.size /\ c + 1 < t.size
        /\ CellAt(t, k + 1) = c + 1
    BY <1>1, <1>7 DEF CellAt
  <2> QED BY <1>3, <2>1
<1> QED BY <1>1, <1>4, <1>5, <1>6, <1>7

\* Before round k, the loop having found nothing so far: it looks at CellAt,
\* the last c rounds ended no run, and the one before them did.
Running(t, n, k, a, c) ==
  /\ c \in 0..k /\ c <= n /\ a \in Nat
  /\ a + c = CellAt(t, k)
  /\ \A j \in (k - c)..(k - 1) : ~ Blocked(t, j)
  /\ c < k => Blocked(t, k - c - 1)
  /\ c > 0 => a = CellAt(t, k - c)

LoopState(a, c) == [this_start |-> a, clean |-> c]

LEMMA RunningNext ==
  ASSUME NEW t \in Regions, NEW n \in Nat, NEW k \in 0..(t.size - 2),
         NEW a, NEW c, Running(t, n, k, a, c), c # n
  PROVE  \E b, d : /\ LoopRound(t, n, LoopState(a, c)) = LoopState(b, d)
                   /\ Running(t, n, k + 1, b, d)
<1>1. /\ c \in 0..k /\ c \in Nat /\ c < n /\ a \in Nat /\ k \in Nat
      /\ k \in 0..(t.size - 1)
      /\ a + c = CellAt(t, k)
      /\ \A j \in (k - c)..(k - 1) : ~ Blocked(t, j)
      /\ c < k => Blocked(t, k - c - 1)
      /\ c > 0 => a = CellAt(t, k - c)
      /\ t.size \in Nat /\ t.size > 1
  BY DEF Running, Regions
<1>2. Blocked(t, k) <=> a + c = t.size \/ a + c \in t.occupied
  BY <1>1, CellIs
<1>3. CASE Blocked(t, k)
  <2> DEFINE b == (a + c + 1) % t.size
  <2>1. LoopRound(t, n, LoopState(a, c)) = LoopState(b, 0)
    BY <1>1, <1>2, <1>3 DEF LoopRound, LoopState
  <2>2. b = CellAt(t, k + 1)
    BY <1>1, <1>3, CellNext
  <2>3. b \in Nat
    <3>1. k + 1 \in 0..(t.size - 1)
      BY <1>1
    <3>2. CellAt(t, k + 1) \in 0..t.size
      BY <3>1, CellIs
    <3> QED BY <1>1, <2>2, <3>2
  <2> HIDE DEF b
  <2>4. Running(t, n, k + 1, b, 0)
    <3>1. (k + 1) - 0 - 1 = k /\ b + 0 = b /\ 0 \in 0..(k + 1)
          /\ (k + 1) - 0 = k + 1
      BY <1>1, <2>3
    <3>2. \A j \in (k + 1)..((k + 1) - 1) : FALSE
      BY <1>1
    <3> QED BY <1>1, <1>3, <2>2, <2>3, <3>1, <3>2 DEF Running
  <2> QED BY <2>1, <2>4
<1>4. CASE ~ Blocked(t, k)
  <2>1. LoopRound(t, n, LoopState(a, c)) = LoopState(a, c + 1)
    BY <1>1, <1>2, <1>4 DEF LoopRound, LoopState
  <2>2. a + (c + 1) = CellAt(t, k + 1)
    <3>1. CellAt(t, k + 1) = CellAt(t, k) + 1
      BY <1>4, CellNext
    <3> QED BY <1>1, <3>1
  <2>3. Running(t, n, k + 1, a, c + 1)
    <3>1. /\ (k + 1) - (c + 1) = k - c /\ (k + 1) - 1 = k
          /\ c + 1 \in 0..(k + 1) /\ c + 1 <= n
          /\ c + 1 < k + 1 <=> c < k
      BY <1>1
    <3>2. \A j \in (k - c)..k : ~ Blocked(t, j)
      <4>1. \A j \in (k - c)..k : j = k \/ j \in (k - c)..(k - 1)
        BY <1>1
      <4> QED BY <1>1, <1>4, <4>1
    <3>3. a = CellAt(t, k - c)
      <4>1. c = 0 => k - c = k /\ a = a + c
        BY <1>1
      <4> QED BY <1>1, <4>1
    <3> QED BY <1>1, <2>2, <3>1, <3>2, <3>3 DEF Running
  <2> QED BY <2>1, <2>3
<1> QED BY <1>3, <1>4

LEMMA RunningAll ==
  ASSUME NEW t \in Regions, NEW n \in Nat, NEW f, f[0] = LoopBegin(t),
         \A k \in 1..t.size : f[k] = LoopRound(t, n, f[k - 1]),
         NEW m \in 0..(t.size - 1), \A k \in 0..(m - 1) : f[k].clean # n
  PROVE  \E a, c : f[m] = LoopState(a, c) /\ Running(t, n, m, a, c)
<1> DEFINE Bad == {k \in 0..m : ~ \E a, c : /\ f[k] = LoopState(a, c)
                                            /\ Running(t, n, k, a, c)}
<1>1. /\ t.size \in Nat /\ m \in Nat /\ m < t.size /\ t.last_index \in Nat
      /\ t.last_index <= t.size
  BY DEF Regions
<1>2. Bad = {}
  <2> SUFFICES ASSUME Bad # {} PROVE FALSE
    OBVIOUS
  <2>1. Bad \subseteq Nat
    BY <1>1
  <2>2. PICK k \in Bad : \A i \in Bad : k <= i
    <3> HIDE DEF Bad
    <3> QED BY <2>1, MinOfNats
  <2>3. k \in Nat /\ k \in 0..m
    BY <1>1
  <2>4. CASE k = 0
    <3> DEFINE a == t.last_index
    <3>1. f[0] = LoopState(a, 0)
      BY DEF LoopBegin, LoopState
    <3>2. a = CellAt(t, 0)
      BY <1>1 DEF CellAt
    <3>3. Running(t, n, 0, a, 0)
      <4>1. \A j \in (0 - 0)..(0 - 1) : FALSE
        OBVIOUS
      <4> HIDE DEF a
      <4>2. a \in Nat /\ a + 0 = a /\ 0 \in 0..0 /\ 0 <= n /\ ~ 0 < 0 /\ ~ 0 > 0
        BY <1>1 DEF a
      <4> QED BY <3>2, <4>1, <4>2 DEF Running
    <3> HIDE DEF a
    <3> QED BY <2>2, <2>4, <3>1, <3>3
  <2>5. CASE k # 0
    <3>1. /\ k - 1 \in 0..m /\ k - 1 \in 0..(m - 1) /\ k - 1 \in 0..(t.size - 2)
          /\ k \in 1..t.size /\ (k - 1) + 1 = k /\ ~ k <= k - 1
      BY <1>1, <2>3, <2>5
    <3>2. k - 1 \notin Bad
      <4> HIDE DEF Bad
      <4> QED BY <2>2, <3>1
    <3>3. PICK a, c : f[k - 1] = LoopState(a, c) /\ Running(t, n, k - 1, a, c)
      BY <3>1, <3>2
    <3> HIDE DEF Bad
    <3>4. c # n
      <4>1. LoopState(a, c).clean = c
        BY DEF LoopState
      <4> QED BY <3>1, <3>3, <4>1
    <3>5. PICK b, d : /\ LoopRound(t, n, LoopState(a, c)) = LoopState(b, d)
                      /\ Running(t, n, (k - 1) + 1, b, d)
      BY <3>1, <3>3, <3>4, RunningNext
    <3>6. f[k] = LoopState(b, d) /\ Running(t, n, k, b, d)
      BY <3>1, <3>3, <3>5
    <3> QED BY <2>2, <3>6 DEF Bad
  <2> QED BY <2>4, <2>5
<1>3. m \in 0..m
  BY <1>1
<1> QED BY <1>2, <1>3

\* Where the run begins that the last n rounds have found.
LEMMA StartIs ==
  ASSUME NEW t \in Regions, NEW n \in Nat, NEW m \in 0..(t.size - 1),
         NEW a, Running(t, n, m, a, n), n = 0 => m = 0
  PROVE  a = StartOf(t, n, m)
<1>1. /\ t.size \in Nat /\ t.last_index \in 0..t.size /\ n \in 0..m
      /\ m \in Nat /\ a \in Nat /\ a + n = CellAt(t, m)
      /\ \A j \in (m - n)..(m - 1) : ~ Blocked(t, j)
      /\ n > 0 => a = CellAt(t, m - n)
  BY DEF Running, Regions
<1>2. CASE n = 0
  <2>1. m = 0
    BY <1>2
  <2> QED BY <1>1, <1>2, <2>1 DEF StartOf, CellAt
<1>3. CASE n > 0
  <2>1. m - n \in (m - n)..(m - 1) /\ m - n \in 0..(t.size - 1)
    BY <1>1, <1>3
  <2>2. ~ Blocked(t, m - n) /\ a = CellAt(t, m - n)
    BY <1>1, <1>3, <2>1
  <2>3. a # t.size
    BY <2>1, <2>2, CellIs
  <2> DEFINE j == m - n
  <2>4. j \in Nat /\ t.last_index + m - n = t.last_index + j
    BY <1>1, <2>1
  <2>5. a = CellAt(t, j)
    BY <2>2
  <2> HIDE DEF j
  <2>6. a = IF t.last_index + j < t.size THEN t.last_index + j
            ELSE t.last_index + j - t.size
    BY <1>1, <2>3, <2>4, <2>5 DEF CellAt
  <2> QED BY <1>1, <1>3, <2>4, <2>6 DEF StartOf
<1> QED BY <1>1, <1>2, <1>3

\* The loop ends in the first round that has n cells behind it, and in none if
\* there is none.
LEMMA LoopFinds ==
  ASSUME NEW t \in Regions, NEW n \in Nat
  PROVE  LoopStart(t, n) = IF Rounds(t, n) = {} THEN -1
                           ELSE StartOf(t, n, Min(Rounds(t, n)))
<1>1. t.size \in Nat /\ t.size > 0
  BY DEF Regions
<1>2. PICK f : /\ f[0] = LoopBegin(t)
               /\ \A k \in 1..t.size : f[k] = LoopRound(t, n, f[k - 1])
               /\ LoopStart(t, n) = LoopAnswer(t, n, f)
  BY <1>1, LoopIs
<1> DEFINE found == {k \in 0..(t.size - 1) : f[k].clean = n}
           First(m) == m \in 0..(t.size - 1) /\ \A k \in 0..(m - 1) : f[k].clean # n
<1>3. ASSUME NEW m, First(m)
      PROVE  \E a, c : /\ f[m] = LoopState(a, c) /\ f[m].clean = c
                       /\ f[m].this_start = a /\ Running(t, n, m, a, c)
  <2>1. PICK a, c : f[m] = LoopState(a, c) /\ Running(t, n, m, a, c)
    BY <1>2, <1>3, RunningAll
  <2>2. LoopState(a, c).clean = c /\ LoopState(a, c).this_start = a
    BY DEF LoopState
  <2> QED BY <2>1, <2>2
<1>4. ASSUME NEW m \in Rounds(t, n) PROVE \E k \in found : k <= m
  <2> SUFFICES ASSUME \A k \in found : ~ k <= m PROVE FALSE
    OBVIOUS
  <2>1. /\ m \in n..(t.size - 1) /\ m \in Nat /\ n <= m /\ m < t.size
        /\ \A j \in (m - n)..(m - 1) : ~ Blocked(t, j)
    BY <1>1 DEF Rounds
  <2>2. First(m)
    <3>1. m \in 0..(t.size - 1)
      BY <1>1, <2>1
    <3>2. ASSUME NEW k \in 0..(m - 1) PROVE f[k].clean # n
      <4>1. k \in 0..(t.size - 1) /\ k <= m
        BY <1>1, <2>1
      <4> QED BY <4>1
    <3> QED BY <3>1, <3>2
  <2>3. m \notin found /\ f[m].clean # n
    <3>1. m <= m
      BY <2>1
    <3> QED BY <2>2, <3>1
  <2>4. PICK a, c : f[m].clean = c /\ Running(t, n, m, a, c)
    <3> HIDE DEF First
    <3> QED BY <1>3, <2>2
  <2>5. c \in Nat /\ c < n /\ c < m /\ Blocked(t, m - c - 1)
    BY <1>1, <2>1, <2>3, <2>4 DEF Running
  <2>6. m - c - 1 \in (m - n)..(m - 1)
    BY <2>1, <2>5
  <2> QED BY <2>1, <2>5, <2>6
<1>5. CASE found = {}
  <2>1. Rounds(t, n) = {}
    <3> HIDE DEF found
    <3> QED BY <1>4, <1>5
  <2> QED BY <1>2, <1>5, <2>1 DEF LoopAnswer
<1>6. CASE found # {}
  <2> DEFINE m == Min(found)
  <2>1. m \in found /\ \A k \in found : m <= k
    <3>1. found \subseteq Nat
      BY <1>1
    <3> HIDE DEF found
    <3> QED BY <1>6, <3>1, MinOfNats
  <2>2. LoopStart(t, n) = f[m].this_start
    BY <1>2, <1>6 DEF LoopAnswer
  <2> HIDE DEF m
  <2>3. m \in 0..(t.size - 1) /\ f[m].clean = n /\ m \in Nat
    BY <1>1, <2>1
  <2>4. First(m)
    <3>1. ASSUME NEW k \in 0..(m - 1) PROVE f[k].clean # n
      <4>1. k \in 0..(t.size - 1) /\ ~ m <= k
        BY <1>1, <2>3
      <4> QED BY <2>1, <4>1
    <3> QED BY <2>3, <3>1
  <2>5. PICK a : f[m].this_start = a /\ Running(t, n, m, a, n)
    <3> HIDE DEF First
    <3> QED BY <1>3, <2>3, <2>4
  <2>6. n \in 0..m /\ \A j \in (m - n)..(m - 1) : ~ Blocked(t, j)
    BY <2>5 DEF Running
  <2>7. m \in Rounds(t, n)
    <3>1. m \in n..(t.size - 1)
      BY <1>1, <2>3, <2>6
    <3> QED BY <2>6, <3>1 DEF Rounds
  <2>8. \A k \in Rounds(t, n) : k \in Nat /\ m <= k
    <3>1. ASSUME NEW k \in Rounds(t, n) PROVE k \in Nat /\ m <= k
      <4>1. k \in Nat
        BY <1>1 DEF Rounds
      <4>2. PICK j \in found : j <= k
        <5> HIDE DEF found
        <5> QED BY <1>4
      <4>3. j \in Nat /\ m <= j
        BY <1>1, <2>1
      <4> QED BY <2>3, <4>1, <4>2, <4>3
    <3> QED BY <3>1
  <2>9. Min(Rounds(t, n)) = m
    <3> DEFINE R == Rounds(t, n)
    <3>1. /\ R \subseteq Nat /\ m \in R /\ R # {}
          /\ \A k \in R : m <= k
      BY <2>7, <2>8
    <3> HIDE DEF R
    <3>2. Min(R) \in R /\ \A k \in R : Min(R) <= k
      BY <3>1, MinOfNats
    <3>3. Min(R) <= m /\ m <= Min(R) /\ Min(R) \in Nat
      BY <3>1, <3>2
    <3>4. Min(R) = m
      BY <2>3, <3>3
    <3> QED BY <3>4 DEF R
  <2>10. n = 0 => m = 0
    <3> SUFFICES ASSUME n = 0 PROVE m = 0
      OBVIOUS
    <3>1. f[0].clean = 0
      BY <1>2 DEF LoopBegin
    <3>2. 0 \in found
      BY <1>1, <3>1
    <3> QED BY <2>1, <2>3, <3>2
  <2>11. a = StartOf(t, n, m)
    BY <2>3, <2>5, <2>10, StartIs
  <2> QED BY <2>2, <2>5, <2>7, <2>9, <2>11
<1> QED BY <1>5, <1>6

(***************************************************************************)
(* Rounds and StartOf find what the loop of ContinueRegion__requestRegion  *)
(* finds, in every table it can meet, for runs of any length.              *)
(***************************************************************************)
THEOREM SearchIsTheLoop == Spec => []FindsAsTheLoop
<1>1. OccupiedExactly => FindsAsTheLoop
  <2> SUFFICES ASSUME OccupiedExactly, NEW n \in 0..MaxRequest
               PROVE  LoopStart(cr, n) = IF Rounds(cr, n) = {} THEN -1
                                         ELSE StartOf(cr, n, Min(Rounds(cr, n)))
    BY DEF FindsAsTheLoop
  <2>1. n \in Nat
    BY RequestAssumption
  <2> QED BY <2>1, TableIsRegions, LoopFinds
<1> QED BY <1>1, InvariantHolds, PTL

-----------------------------------------------------------------------------
(* Module DoubleLinkList *)

(* Reading and setting the fields of a node *)

LEMMA IdsAre ==
  ASSUME NEW d, Slotted(d, Node)
  PROVE  /\ d.length \in Nat /\ Ids(d) \subseteq 1..d.length
         /\ \A v \in Ids(d) : v \in Nat /\ v # 0 /\ v - 1 \in Occupied(d)
         /\ \A i \in Occupied(d) : i + 1 \in Ids(d)
         /\ IsFiniteSet(Ids(d)) /\ Cardinality(Ids(d)) = d.alloced
<1>1. d.length \in Nat /\ Occupied(d) \subseteq 0..(d.length - 1)
  BY DEF Slotted, Occupied
<1>2. /\ Ids(d) \subseteq 1..d.length
      /\ \A v \in Ids(d) : v \in Nat /\ v # 0 /\ v - 1 \in Occupied(d)
      /\ \A i \in Occupied(d) : i + 1 \in Ids(d)
  BY <1>1 DEF Ids
<1>3. IsFiniteSet(Ids(d)) /\ Cardinality(Ids(d)) = d.alloced
  <2> DEFINE f == [i \in Occupied(d) |-> i + 1]
  <2>1. f \in Bijection(Occupied(d), Ids(d))
    <3>1. f \in [Occupied(d) -> Ids(d)]
      BY <1>2
    <3>2. \A i, j \in Occupied(d) : f[i] = f[j] => i = j
      BY <1>1
    <3>3. \A v \in Ids(d) : \E i \in Occupied(d) : f[i] = v
      BY DEF Ids
    <3> QED BY <3>1, <3>2, <3>3 DEF Bijection, Injection, IsInjective,
                                     Surjection
  <2>2. IsFiniteSet(Occupied(d)) /\ Cardinality(Occupied(d)) = d.alloced
    BY <1>1, OccupiedFinite DEF Slotted
  <2>3. ExistsBijection(Occupied(d), Ids(d))
    BY <2>1 DEF ExistsBijection
  <2> QED BY <2>2, <2>3, FS_Bijection
<1> QED BY <1>1, <1>2, <1>3

LEMMA AtIs ==
  ASSUME NEW d, Slotted(d, Node)
  PROVE  /\ \A v \in Ids(d) : /\ At(d, v) = d.item[v - 1] /\ At(d, v) \in Node
                              /\ At(d, v) # Empty
                              /\ PrevOf(d, v) = At(d, v).prev
                              /\ NextOf(d, v) = At(d, v).next
         /\ \A v \in 0..d.length : v \notin Ids(d) =>
              /\ At(d, v) = Empty
              /\ PrevOf(d, v) = NULL_SLOT /\ NextOf(d, v) = NULL_SLOT
<1>1. ASSUME NEW v \in Ids(d)
      PROVE  /\ At(d, v) = d.item[v - 1] /\ At(d, v) \in Node /\ At(d, v) # Empty
             /\ PrevOf(d, v) = At(d, v).prev /\ NextOf(d, v) = At(d, v).next
  <2>1. v # 0 /\ v - 1 \in Occupied(d)
    BY IdsAre
  <2>2. v - 1 \in 0..(d.length - 1) /\ d.item[v - 1] # Empty
    BY <2>1 DEF Occupied
  <2>3. d.item[v - 1] \in Node
    BY <2>2 DEF Slotted
  <2>4. At(d, v) = d.item[v - 1]
    BY <2>1 DEF At, GetOne
  <2> QED BY <2>2, <2>3, <2>4 DEF PrevOf, NextOf
<1>2. ASSUME NEW v \in 0..d.length, v \notin Ids(d)
      PROVE  /\ At(d, v) = Empty
             /\ PrevOf(d, v) = NULL_SLOT /\ NextOf(d, v) = NULL_SLOT
  <2>1. At(d, v) = Empty
    <3>1. CASE v = 0
      BY <3>1 DEF At, GetOne
    <3>2. CASE v # 0
      <4>1. d.length \in Nat
        BY IdsAre
      <4>2. v - 1 \in 0..(d.length - 1) /\ v = (v - 1) + 1
        BY <3>2, <4>1
      <4>3. v - 1 \notin Occupied(d)
        BY <1>2, <4>2 DEF Ids
      <4>4. d.item[v - 1] = Empty
        BY <4>2, <4>3 DEF Occupied
      <4> QED BY <3>2, <4>4 DEF At, GetOne
    <3> QED BY <3>1, <3>2
  <2> QED BY <2>1 DEF PrevOf, NextOf
<1> QED BY <1>1, <1>2

\* One field of a node set, by the name of the field.
LEMMA FieldsSet ==
  ASSUME NEW r \in Node, NEW x
  PROVE  /\ [r EXCEPT !["next"] = x] = [prev |-> r.prev, next |-> x, data |-> r.data]
         /\ [r EXCEPT !["prev"] = x] = [prev |-> x, next |-> r.next, data |-> r.data]
         /\ [r EXCEPT !["data"] = x] = [prev |-> r.prev, next |-> r.next, data |-> x]
<1>1. [r EXCEPT !["next"] = x] = [r EXCEPT !.next = x]
  OBVIOUS
<1>2. [r EXCEPT !["prev"] = x] = [r EXCEPT !.prev = x]
  OBVIOUS
<1>3. [r EXCEPT !["data"] = x] = [r EXCEPT !.data = x]
  OBVIOUS
<1>4. [r EXCEPT !.next = x] = [prev |-> r.prev, next |-> x, data |-> r.data]
  BY DEF Node
<1>5. [r EXCEPT !.prev = x] = [prev |-> x, next |-> r.next, data |-> r.data]
  BY DEF Node
<1>6. [r EXCEPT !.data = x] = [prev |-> r.prev, next |-> r.next, data |-> x]
  BY DEF Node
<1> QED BY <1>1, <1>2, <1>3, <1>4, <1>5, <1>6

LEMMA NodeSet ==
  ASSUME NEW d, Slotted(d, Node), NEW v \in Ids(d), NEW field, NEW x,
         [At(d, v) EXCEPT ![field] = x] \in Node
  PROVE  LET e == SetField(d, v, field, x)
         IN  /\ Slotted(e, Node) /\ Ids(e) = Ids(d)
             /\ At(e, v) = [At(d, v) EXCEPT ![field] = x]
             /\ \A w \in Ids(d) : w # v => At(e, w) = At(d, w)
<1> DEFINE e == SetField(d, v, field, x)
           r == d.item[v - 1]
           n == [r EXCEPT ![field] = x]
           i == v - 1
<1>1. At(d, v) = r /\ i \in Occupied(d) /\ v # NULL_SLOT
  BY AtIs, IdsAre DEF NULL_SLOT
<1>2. e = ArrSet(d, i, n)
  BY <1>1 DEF SetField, ArrSet
<1>3. n \in Node
  BY <1>1
<1> DEFINE m == [At(d, v) EXCEPT ![field] = x]
<1>8. n = m
  BY <1>1
<1> HIDE DEF m
<1> HIDE DEF r, n, i, e
<1>4. /\ Slotted(e, Node) /\ Occupied(e) = Occupied(d) /\ e.item[i] = n
      /\ \A j \in Occupied(d) : j # i => e.item[j] = d.item[j]
  BY <1>1, <1>2, <1>3, SetHolds, EmptyAssumption
<1>5. Ids(e) = Ids(d)
  BY <1>4 DEF Ids
<1>6. ASSUME NEW w \in Ids(d), w # v PROVE At(e, w) = At(d, w)
  <2>1. w - 1 \in Occupied(d) /\ w - 1 # i
    BY <1>6, IdsAre DEF i
  <2> QED BY <1>4, <1>5, <2>1, AtIs
<1>7. At(e, v) = n
  BY <1>4, <1>5, AtIs DEF i
<1> QED BY <1>4, <1>5, <1>6, <1>7, <1>8 DEF e, m

\* e is d but for one link.
NextChanged(d, e, v, x) ==
  /\ Slotted(e, Node) /\ Ids(e) = Ids(d)
  /\ \A w \in Ids(d) : /\ PrevOf(e, w) = PrevOf(d, w)
                       /\ NextOf(e, w) = IF w = v THEN x ELSE NextOf(d, w)
                       /\ At(e, w).data = At(d, w).data

PrevChanged(d, e, v, x) ==
  /\ Slotted(e, Node) /\ Ids(e) = Ids(d)
  /\ \A w \in Ids(d) : /\ PrevOf(e, w) = IF w = v THEN x ELSE PrevOf(d, w)
                       /\ NextOf(e, w) = NextOf(d, w)
                       /\ At(e, w).data = At(d, w).data

LEMMA NextSet ==
  ASSUME NEW d, Slotted(d, Node), NEW v \in Ids(d) \cup {NULL_SLOT}, NEW x \in Nat
  PROVE  NextChanged(d, SetField(d, v, "next", x), v, x)
<1> DEFINE e == SetField(d, v, "next", x)
<1>1. CASE v = NULL_SLOT
  <2>1. e = d /\ \A w \in Ids(d) : w # v
    BY <1>1, IdsAre DEF SetField, NULL_SLOT
  <2> QED BY <2>1 DEF NextChanged
<1>2. CASE v # NULL_SLOT
  <2> DEFINE r == At(d, v)
             n == [r EXCEPT !["next"] = x]
  <2>1. v \in Ids(d) /\ r \in Node
    BY <1>2, AtIs
  <2>2. n = [prev |-> r.prev, next |-> x, data |-> r.data]
    BY <2>1, FieldsSet
  <2>3. n \in Node /\ n.prev = r.prev /\ n.next = x /\ n.data = r.data
    BY <2>1, <2>2 DEF Node
  <2>4. /\ Slotted(e, Node) /\ Ids(e) = Ids(d) /\ At(e, v) = n
        /\ \A w \in Ids(d) : w # v => At(e, w) = At(d, w)
    BY <2>1, <2>3, NodeSet
  <2> HIDE DEF n, e
  <2>5. NextChanged(d, e, v, x)
    BY <2>1, <2>3, <2>4, AtIs DEF NextChanged
  <2> QED BY <2>5 DEF e
<1> QED BY <1>1, <1>2

LEMMA PrevSet ==
  ASSUME NEW d, Slotted(d, Node), NEW v \in Ids(d) \cup {NULL_SLOT}, NEW x \in Nat
  PROVE  PrevChanged(d, SetField(d, v, "prev", x), v, x)
<1> DEFINE e == SetField(d, v, "prev", x)
<1>1. CASE v = NULL_SLOT
  <2>1. e = d /\ \A w \in Ids(d) : w # v
    BY <1>1, IdsAre DEF SetField, NULL_SLOT
  <2> QED BY <2>1 DEF PrevChanged
<1>2. CASE v # NULL_SLOT
  <2> DEFINE r == At(d, v)
             n == [r EXCEPT !["prev"] = x]
  <2>1. v \in Ids(d) /\ r \in Node
    BY <1>2, AtIs
  <2>2. n = [prev |-> x, next |-> r.next, data |-> r.data]
    BY <2>1, FieldsSet
  <2>3. n \in Node /\ n.prev = x /\ n.next = r.next /\ n.data = r.data
    BY <2>1, <2>2 DEF Node
  <2>4. /\ Slotted(e, Node) /\ Ids(e) = Ids(d) /\ At(e, v) = n
        /\ \A w \in Ids(d) : w # v => At(e, w) = At(d, w)
    BY <2>1, <2>3, NodeSet
  <2> HIDE DEF n, e
  <2>5. PrevChanged(d, e, v, x)
    BY <2>1, <2>3, <2>4, AtIs DEF PrevChanged
  <2> QED BY <2>5 DEF e
<1> QED BY <1>1, <1>2

LEMMA DataSet ==
  ASSUME NEW d, Slotted(d, Node), NEW v \in Ids(d), NEW x \in Data
  PROVE  LET e == SetField(d, v, "data", x)
         IN  /\ Slotted(e, Node) /\ Ids(e) = Ids(d)
             /\ \A w \in Ids(d) :
                  /\ PrevOf(e, w) = PrevOf(d, w)
                  /\ NextOf(e, w) = NextOf(d, w)
                  /\ At(e, w).data = IF w = v THEN x ELSE At(d, w).data
<1> DEFINE e == SetField(d, v, "data", x)
           r == At(d, v)
           n == [r EXCEPT !["data"] = x]
<1>1. r \in Node
  BY AtIs
<1>2. n = [prev |-> r.prev, next |-> r.next, data |-> x]
  BY <1>1, FieldsSet
<1>3. n \in Node /\ n.prev = r.prev /\ n.next = r.next /\ n.data = x
  BY <1>1, <1>2 DEF Node
<1>4. /\ Slotted(e, Node) /\ Ids(e) = Ids(d) /\ At(e, v) = n
      /\ \A w \in Ids(d) : w # v => At(e, w) = At(d, w)
  BY <1>3, NodeSet
<1> HIDE DEF n, e
<1> QED BY <1>1, <1>3, <1>4, AtIs DEF e

-----------------------------------------------------------------------------
(* Links *)

\* Neighbours name each other, and no node names one that is not there.
TwoWay(d) ==
  \A v \in Ids(d) :
    /\ NextOf(d, v) \in Ids(d) \cup {NULL_SLOT}
    /\ PrevOf(d, v) \in Ids(d) \cup {NULL_SLOT}
    /\ NextOf(d, v) # NULL_SLOT => PrevOf(d, NextOf(d, v)) = v
    /\ PrevOf(d, v) # NULL_SLOT => NextOf(d, PrevOf(d, v)) = v

\* No nodes lie in a ring: of any, one is the last.
NoRing(d) ==
  \A C \in SUBSET Ids(d) : C # {} => \E v \in C : NextOf(d, v) \notin C

Linked(d) == Slotted(d, Node) /\ TwoWay(d) /\ NoRing(d)

\* DoubleLinkList__link puts a node that was alone between two others.
LEMMA LinkFields ==
  ASSUME NEW d, Linked(d), NEW v \in Ids(d), NEW w \in Ids(d), v # w,
         PrevOf(d, w) = NULL_SLOT, NextOf(d, w) = NULL_SLOT
  PROVE  LET e == LinkNodes(d, v, w)
             z == NextOf(d, v)
         IN  /\ Slotted(e, Node) /\ Ids(e) = Ids(d)
             /\ \A u \in Ids(d) :
                  /\ PrevOf(e, u) = IF u = w THEN v
                                    ELSE IF u = z THEN w ELSE PrevOf(d, u)
                  /\ NextOf(e, u) = IF u = v THEN w
                                    ELSE IF u = w THEN z ELSE NextOf(d, u)
                  /\ At(e, u).data = At(d, u).data
<1> DEFINE z == NextOf(d, v)
           a == SetField(d, v, "next", w)
           b == SetField(a, w, "next", z)
           c == SetField(b, z, "prev", w)
           e == SetField(c, w, "prev", v)
<1>1. /\ Slotted(d, Node) /\ v \in Nat /\ w \in Nat /\ NULL_SLOT = 0
      /\ z \in Ids(d) \cup {NULL_SLOT} /\ z \in Nat /\ z # w
  BY IdsAre DEF Linked, TwoWay, NULL_SLOT
<1>2. LinkNodes(d, v, w) = e
  BY DEF LinkNodes
<1> HIDE DEF z
<1>3. NextChanged(d, a, v, w)
  BY <1>1, NextSet
<1> HIDE DEF a
<1>4. NextChanged(a, b, w, z)
  <2>1. Slotted(a, Node) /\ w \in Ids(a) \cup {NULL_SLOT}
    BY <1>3 DEF NextChanged
  <2> QED BY <1>1, <2>1, NextSet
<1> HIDE DEF b
<1>5. PrevChanged(b, c, z, w)
  <2>1. Slotted(b, Node) /\ z \in Ids(b) \cup {NULL_SLOT}
    BY <1>1, <1>3, <1>4 DEF NextChanged
  <2> QED BY <1>1, <2>1, PrevSet
<1> HIDE DEF c
<1>6. PrevChanged(c, e, w, v)
  <2>1. Slotted(c, Node) /\ w \in Ids(c) \cup {NULL_SLOT}
    BY <1>3, <1>4, <1>5 DEF NextChanged, PrevChanged
  <2> QED BY <1>1, <2>1, PrevSet
<1> HIDE DEF e
<1>7. \A u \in Ids(d) :
        /\ PrevOf(e, u) = IF u = w THEN v ELSE IF u = z THEN w ELSE PrevOf(d, u)
        /\ NextOf(e, u) = IF u = v THEN w ELSE IF u = w THEN z ELSE NextOf(d, u)
        /\ At(e, u).data = At(d, u).data
  BY <1>3, <1>4, <1>5, <1>6 DEF NextChanged, PrevChanged
<1>8. Slotted(e, Node) /\ Ids(e) = Ids(d)
  BY <1>3, <1>4, <1>5, <1>6 DEF NextChanged, PrevChanged
<1> QED BY <1>2, <1>7, <1>8 DEF z

\* DoubleLinkList__delink closes the gap.
LEMMA DelinkFields ==
  ASSUME NEW d, Linked(d), NEW v \in Ids(d)
  PROVE  LET e == DelinkNode(d, v)
             p == PrevOf(d, v)
             n == NextOf(d, v)
         IN  /\ Slotted(e, Node) /\ Ids(e) = Ids(d)
             /\ \A u \in Ids(d) :
                  /\ PrevOf(e, u) = IF u = v THEN NULL_SLOT
                                    ELSE IF u = n THEN p ELSE PrevOf(d, u)
                  /\ NextOf(e, u) = IF u = v THEN NULL_SLOT
                                    ELSE IF u = p THEN n ELSE NextOf(d, u)
                  /\ At(e, u).data = At(d, u).data
<1> DEFINE p == PrevOf(d, v)
           n == NextOf(d, v)
           a == SetField(d, n, "prev", p)
           b == SetField(a, p, "next", n)
           c == SetField(b, v, "next", NULL_SLOT)
           e == SetField(c, v, "prev", NULL_SLOT)
<1>1. /\ Slotted(d, Node) /\ v \in Nat /\ NULL_SLOT \in Nat
      /\ p \in Ids(d) \cup {NULL_SLOT} /\ p \in Nat
      /\ n \in Ids(d) \cup {NULL_SLOT} /\ n \in Nat
  BY IdsAre DEF Linked, TwoWay, NULL_SLOT
<1>2. DelinkNode(d, v) = e
  BY DEF DelinkNode
<1> HIDE DEF p, n
<1>3. PrevChanged(d, a, n, p)
  BY <1>1, PrevSet
<1> HIDE DEF a
<1>4. NextChanged(a, b, p, n)
  <2>1. Slotted(a, Node) /\ p \in Ids(a) \cup {NULL_SLOT}
    BY <1>1, <1>3 DEF PrevChanged
  <2> QED BY <1>1, <2>1, NextSet
<1> HIDE DEF b
<1>5. NextChanged(b, c, v, NULL_SLOT)
  <2>1. Slotted(b, Node) /\ v \in Ids(b) \cup {NULL_SLOT}
    BY <1>3, <1>4 DEF NextChanged, PrevChanged
  <2> QED BY <1>1, <2>1, NextSet
<1> HIDE DEF c
<1>6. PrevChanged(c, e, v, NULL_SLOT)
  <2>1. Slotted(c, Node) /\ v \in Ids(c) \cup {NULL_SLOT}
    BY <1>3, <1>4, <1>5 DEF NextChanged, PrevChanged
  <2> QED BY <1>1, <2>1, PrevSet
<1> HIDE DEF e
<1>7. \A u \in Ids(d) :
        /\ PrevOf(e, u) = IF u = v THEN NULL_SLOT
                          ELSE IF u = n THEN p ELSE PrevOf(d, u)
        /\ NextOf(e, u) = IF u = v THEN NULL_SLOT
                          ELSE IF u = p THEN n ELSE NextOf(d, u)
        /\ At(e, u).data = At(d, u).data
  BY <1>3, <1>4, <1>5, <1>6 DEF NextChanged, PrevChanged
<1>8. Slotted(e, Node) /\ Ids(e) = Ids(d)
  BY <1>3, <1>4, <1>5, <1>6 DEF NextChanged, PrevChanged
<1> QED BY <1>2, <1>7, <1>8 DEF p, n

LEMMA LinkKeeps ==
  ASSUME NEW d, Linked(d), NEW v \in Ids(d), NEW w \in Ids(d), v # w,
         PrevOf(d, w) = NULL_SLOT, NextOf(d, w) = NULL_SLOT
  PROVE  Linked(LinkNodes(d, v, w))
<1> DEFINE e == LinkNodes(d, v, w)
           z == NextOf(d, v)
<1>1. /\ Slotted(d, Node) /\ TwoWay(d) /\ NoRing(d) /\ NULL_SLOT \notin Ids(d)
      /\ z \in Ids(d) \cup {NULL_SLOT} /\ z # w
      /\ z # NULL_SLOT => PrevOf(d, z) = v
  BY IdsAre DEF Linked, TwoWay, NULL_SLOT
<1>2. /\ Slotted(e, Node) /\ Ids(e) = Ids(d)
      /\ \A u \in Ids(d) :
           /\ PrevOf(e, u) = IF u = w THEN v ELSE IF u = z THEN w ELSE PrevOf(d, u)
           /\ NextOf(e, u) = IF u = v THEN w ELSE IF u = w THEN z ELSE NextOf(d, u)
  BY LinkFields
<1> HIDE DEF e, z
<1>3. \A u \in Ids(d) : u # v => NextOf(d, u) # z \/ z = NULL_SLOT
  BY <1>1 DEF TwoWay
<1>4. \A u \in Ids(d) : NextOf(d, u) # w /\ PrevOf(d, u) # w
  BY <1>1 DEF TwoWay
<1>5. TwoWay(e)
  <2>1. ASSUME NEW u \in Ids(d)
        PROVE  /\ NextOf(e, u) \in Ids(d) \cup {NULL_SLOT}
               /\ PrevOf(e, u) \in Ids(d) \cup {NULL_SLOT}
    BY <1>1, <1>2 DEF TwoWay
  <2>2. ASSUME NEW u \in Ids(d), NextOf(e, u) # NULL_SLOT
        PROVE  PrevOf(e, NextOf(e, u)) = u
    <3>1. CASE u = v
      BY <1>2, <3>1
    <3>2. CASE u = w
      BY <1>1, <1>2, <2>2, <3>2
    <3>3. CASE u # v /\ u # w
      BY <1>1, <1>2, <1>3, <1>4, <2>2, <3>3 DEF TwoWay
    <3> QED BY <3>1, <3>2, <3>3
  <2>3. ASSUME NEW u \in Ids(d), PrevOf(e, u) # NULL_SLOT
        PROVE  NextOf(e, PrevOf(e, u)) = u
    <3>1. CASE u = w
      BY <1>2, <3>1
    <3>2. CASE u = z /\ u # w
      BY <1>1, <1>2, <2>3, <3>2
    <3>3. CASE u # z /\ u # w
      <4>1. PrevOf(e, u) = PrevOf(d, u) /\ PrevOf(d, u) # w /\ PrevOf(d, u) \in Ids(d)
        BY <1>1, <1>2, <1>4, <2>3, <3>3 DEF TwoWay
      <4>2. PrevOf(d, u) # v /\ NextOf(d, PrevOf(d, u)) = u
        BY <1>1, <2>3, <3>3, <4>1 DEF TwoWay, z
      <4> QED BY <1>2, <4>1, <4>2
    <3> QED BY <3>1, <3>2, <3>3
  <2> QED BY <1>2, <2>1, <2>2, <2>3 DEF TwoWay
<1>6. NoRing(e)
  <2> SUFFICES ASSUME NEW C \in SUBSET Ids(d), C # {},
                      \A u \in C : NextOf(e, u) \in C
               PROVE  FALSE
    BY <1>2 DEF NoRing
  <2>1. v \in C => w \in C
    BY <1>2
  <2>2. C \ {w} # {}
    <3>1. w \in C => z \in C
      BY <1>2
    <3> QED BY <1>1, <3>1
  <2>3. \A u \in C \ {w} : NextOf(d, u) \in C \ {w}
    <3>1. ASSUME NEW u \in C \ {w} PROVE NextOf(d, u) \in C
      <4>1. CASE u = v
        BY <1>2, <2>1, <4>1 DEF z
      <4>2. CASE u # v
        BY <1>2, <4>2
      <4> QED BY <4>1, <4>2
    <3> QED BY <1>4, <3>1
  <2>4. C \ {w} \in SUBSET Ids(d)
    OBVIOUS
  <2> QED BY <1>1, <2>2, <2>3, <2>4 DEF NoRing
<1> QED BY <1>2, <1>5, <1>6 DEF Linked, e

LEMMA DelinkKeeps ==
  ASSUME NEW d, Linked(d), NEW v \in Ids(d)
  PROVE  /\ Linked(DelinkNode(d, v))
         /\ PrevOf(DelinkNode(d, v), v) = NULL_SLOT
         /\ NextOf(DelinkNode(d, v), v) = NULL_SLOT
<1> DEFINE e == DelinkNode(d, v)
           p == PrevOf(d, v)
           n == NextOf(d, v)
<1>1. /\ Slotted(d, Node) /\ TwoWay(d) /\ NoRing(d) /\ NULL_SLOT \notin Ids(d)
      /\ p \in Ids(d) \cup {NULL_SLOT} /\ n \in Ids(d) \cup {NULL_SLOT}
      /\ n # NULL_SLOT => PrevOf(d, n) = v
      /\ p # NULL_SLOT => NextOf(d, p) = v
  BY IdsAre DEF Linked, TwoWay, NULL_SLOT
<1>2. /\ Slotted(e, Node) /\ Ids(e) = Ids(d)
      /\ \A u \in Ids(d) :
           /\ PrevOf(e, u) = IF u = v THEN NULL_SLOT
                             ELSE IF u = n THEN p ELSE PrevOf(d, u)
           /\ NextOf(e, u) = IF u = v THEN NULL_SLOT
                             ELSE IF u = p THEN n ELSE NextOf(d, u)
  BY DelinkFields
<1>3. n # v /\ p # v
  <2>1. n # v
    <3>1. {v} \in SUBSET Ids(d) /\ {v} # {}
      OBVIOUS
    <3> QED BY <1>1, <3>1 DEF NoRing, n
  <2> QED BY <1>1, <2>1 DEF n
<1> HIDE DEF e
<1>4. \A u \in Ids(d) : /\ NextOf(d, u) = v => u = p
                        /\ PrevOf(d, u) = v => u = n
  BY <1>1 DEF TwoWay, p, n
<1> HIDE DEF p, n
<1>5. TwoWay(e)
  <2>1. ASSUME NEW u \in Ids(d)
        PROVE  /\ NextOf(e, u) \in Ids(d) \cup {NULL_SLOT}
               /\ PrevOf(e, u) \in Ids(d) \cup {NULL_SLOT}
    BY <1>1, <1>2 DEF TwoWay
  <2>2. ASSUME NEW u \in Ids(d), NextOf(e, u) # NULL_SLOT
        PROVE  PrevOf(e, NextOf(e, u)) = u
    <3>1. u # v
      BY <1>2, <2>2
    <3>2. CASE u = p
      BY <1>1, <1>2, <1>3, <2>2, <3>1, <3>2
    <3>3. CASE u # p
      <4>1. NextOf(e, u) = NextOf(d, u) /\ NextOf(d, u) # v /\ NextOf(d, u) \in Ids(d)
        BY <1>1, <1>2, <1>4, <2>2, <3>1, <3>3 DEF TwoWay
      <4>2. PrevOf(d, NextOf(d, u)) = u /\ NextOf(d, u) # n
        BY <1>1, <2>2, <3>1, <4>1 DEF TwoWay
      <4> QED BY <1>2, <4>1, <4>2
    <3> QED BY <3>2, <3>3
  <2>3. ASSUME NEW u \in Ids(d), PrevOf(e, u) # NULL_SLOT
        PROVE  NextOf(e, PrevOf(e, u)) = u
    <3>1. u # v
      BY <1>2, <2>3
    <3>2. CASE u = n
      BY <1>1, <1>2, <1>3, <2>3, <3>1, <3>2
    <3>3. CASE u # n
      <4>1. PrevOf(e, u) = PrevOf(d, u) /\ PrevOf(d, u) # v /\ PrevOf(d, u) \in Ids(d)
        BY <1>1, <1>2, <1>4, <2>3, <3>1, <3>3 DEF TwoWay
      <4>2. NextOf(d, PrevOf(d, u)) = u /\ PrevOf(d, u) # p
        BY <1>1, <2>3, <3>1, <4>1 DEF TwoWay
      <4> QED BY <1>2, <4>1, <4>2
    <3> QED BY <3>2, <3>3
  <2> QED BY <1>2, <2>1, <2>2, <2>3 DEF TwoWay
<1>6. NoRing(e)
  <2> SUFFICES ASSUME NEW C \in SUBSET Ids(d), C # {},
                      \A u \in C : NextOf(e, u) \in C
               PROVE  FALSE
    BY <1>2 DEF NoRing
  <2>1. v \notin C
    BY <1>1, <1>2
  <2> DEFINE D == IF p \in C THEN C \cup {v} ELSE C
  <2>2. D \in SUBSET Ids(d) /\ D # {}
    OBVIOUS
  <2>3. ASSUME NEW u \in D PROVE NextOf(d, u) \in D
    <3>1. CASE u = v
      <4>1. p \in C /\ p # v
        BY <1>3, <2>1, <3>1
      <4>2. n \in C
        BY <1>2, <4>1
      <4> QED BY <3>1, <4>2 DEF n
    <3>2. CASE u # v /\ u = p
      BY <1>1, <3>2
    <3>3. CASE u # v /\ u # p
      BY <1>2, <3>3
    <3> QED BY <3>1, <3>2, <3>3
  <2> HIDE DEF D
  <2> QED BY <1>1, <2>2, <2>3 DEF NoRing
<1> QED BY <1>2, <1>5, <1>6 DEF Linked, e

\* A node that is on no list is added and goes.
LEMMA AddKeepsLinks ==
  ASSUME NEW d, Linked(d), NEW x \in Data
  PROVE  LET id == AddOne(d, NewNode(x)).id
             e  == AddOne(d, NewNode(x)).arr
         IN  /\ Linked(e) /\ Ids(e) = Ids(d) \cup {id} /\ id \notin Ids(d)
             /\ id \in Nat
             /\ At(e, id) = NewNode(x)
             /\ PrevOf(e, id) = NULL_SLOT /\ NextOf(e, id) = NULL_SLOT
             /\ \A u \in Ids(d) : At(e, u) = At(d, u)
<1> DEFINE y == NewNode(x)
           i == ArrAdd(d, y).id
           e == ArrAdd(d, y).arr
           id == i + 1
<1>1. y \in Node /\ y.prev = NULL_SLOT /\ y.next = NULL_SLOT
  BY DEF NewNode, Node, NULL_SLOT
<1>2. Slotted(d, Node) /\ TwoWay(d) /\ NoRing(d)
  BY DEF Linked
<1> HIDE DEF y
<1>3. /\ Slotted(e, Node) /\ i \in Nat \ Occupied(d)
      /\ Occupied(e) = Occupied(d) \cup {i} /\ e.item[i] = y
      /\ \A j \in Occupied(d) : e.item[j] = d.item[j]
  BY <1>1, <1>2, AddHolds, EmptyAssumption
<1>4. AddOne(d, y).id = id /\ AddOne(d, y).arr = e
  <2> DEFINE r == ArrAdd(d, y)
  <2>1. AddOne(d, y) = [r EXCEPT !.id = @ + 1]
    BY DEF AddOne
  <2>2. \E a, b : r = [id |-> a, arr |-> b]
    BY DEF ArrAdd
  <2> HIDE DEF r
  <2>3. [r EXCEPT !.id = @ + 1].id = r.id + 1 /\ [r EXCEPT !.id = @ + 1].arr = r.arr
    BY <2>2
  <2> QED BY <2>1, <2>3 DEF r
<1> HIDE DEF e, i
<1>5. Ids(e) = Ids(d) \cup {id} /\ id \notin Ids(d) /\ id \in Nat /\ id - 1 = i
  <2>1. \A j \in Occupied(d) : j \in Nat
    BY <1>2 DEF Slotted, Occupied
  <2> QED BY <1>3, <2>1 DEF Ids
<1>6. \A u \in Ids(d) : At(e, u) = At(d, u)
  <2>1. ASSUME NEW u \in Ids(d) PROVE At(e, u) = At(d, u)
    <3>1. u - 1 \in Occupied(d)
      BY <1>2, IdsAre
    <3>2. At(e, u) = e.item[u - 1] /\ At(d, u) = d.item[u - 1]
      BY <1>2, <1>3, <1>5, AtIs
    <3> QED BY <1>3, <3>1, <3>2
  <2> QED BY <2>1
<1>7. At(e, id) = y
  BY <1>3, <1>5, AtIs
<1> HIDE DEF id
<1>8. /\ \A u \in Ids(d) : PrevOf(e, u) = PrevOf(d, u) /\ NextOf(e, u) = NextOf(d, u)
      /\ PrevOf(e, id) = NULL_SLOT /\ NextOf(e, id) = NULL_SLOT
  BY <1>1, <1>2, <1>3, <1>5, <1>6, <1>7, AtIs
<1>9. id # NULL_SLOT
  BY <1>3, <1>5, IdsAre DEF NULL_SLOT
<1>10. TwoWay(e)
  BY <1>2, <1>5, <1>8, <1>9 DEF TwoWay
<1>11. NoRing(e)
  <2> SUFFICES ASSUME NEW C \in SUBSET Ids(e), C # {},
                      \A u \in C : NextOf(e, u) \in C
               PROVE  FALSE
    BY DEF NoRing
  <2>1. NULL_SLOT \notin Ids(e)
    BY <1>3, IdsAre DEF NULL_SLOT
  <2>2. id \notin C
    BY <1>8, <2>1
  <2>3. C \in SUBSET Ids(d)
    BY <1>5, <2>2
  <2> QED BY <1>2, <1>8, <2>3 DEF NoRing
<1> QED BY <1>3, <1>4, <1>5, <1>6, <1>7, <1>8, <1>10, <1>11 DEF Linked, y

LEMMA DelKeepsLinks ==
  ASSUME NEW d, Linked(d), NEW v \in Ids(d),
         PrevOf(d, v) = NULL_SLOT, NextOf(d, v) = NULL_SLOT
  PROVE  LET e == DelOne(d, v)
         IN  /\ Linked(e) /\ Ids(e) = Ids(d) \ {v}
             /\ \A u \in Ids(e) : At(e, u) = At(d, u)
<1> DEFINE e == DelOne(d, v)
           i == v - 1
<1>1. Slotted(d, Node) /\ TwoWay(d) /\ NoRing(d)
  BY DEF Linked
<1>2. v \in Nat /\ v # 0 /\ i \in Occupied(d)
  BY <1>1, IdsAre
<1>3. e = ArrDel(d, i)
  BY <1>2 DEF DelOne
<1> HIDE DEF e
<1>4. /\ Slotted(e, Node) /\ Occupied(e) = Occupied(d) \ {i}
      /\ \A j \in Occupied(e) : e.item[j] = d.item[j]
  <2> HIDE DEF i
  <2> QED BY <1>1, <1>2, <1>3, DelHolds, EmptyAssumption
<1>5. Ids(e) = Ids(d) \ {v}
  <2>1. \A j \in Occupied(d) : j \in Nat
    BY <1>1 DEF Slotted, Occupied
  <2> QED BY <1>2, <1>4, <2>1 DEF Ids
<1>6. \A u \in Ids(e) : At(e, u) = At(d, u)
  <2>1. ASSUME NEW u \in Ids(e) PROVE At(e, u) = At(d, u)
    <3>1. u - 1 \in Occupied(e)
      BY <1>4, IdsAre
    <3>2. At(e, u) = e.item[u - 1] /\ At(d, u) = d.item[u - 1]
      BY <1>1, <1>4, <1>5, AtIs
    <3> QED BY <1>4, <3>1, <3>2
  <2> QED BY <2>1
<1>7. \A u \in Ids(e) : PrevOf(e, u) = PrevOf(d, u) /\ NextOf(e, u) = NextOf(d, u)
  BY <1>1, <1>4, <1>5, <1>6, AtIs
<1>8. NULL_SLOT \notin Ids(d)
  BY <1>1, IdsAre DEF NULL_SLOT
<1>9. TwoWay(e)
  <2>1. \A u \in Ids(d) : NextOf(d, u) # v /\ PrevOf(d, u) # v
    BY <1>1, <1>8 DEF TwoWay
  <2> QED BY <1>1, <1>5, <1>7, <2>1 DEF TwoWay
<1>10. NoRing(e)
  <2>1. ASSUME NEW C \in SUBSET Ids(e), C # {}
        PROVE  \E u \in C : NextOf(e, u) \notin C
    <3>1. C \in SUBSET Ids(d)
      BY <1>5
    <3>2. PICK u \in C : NextOf(d, u) \notin C
      BY <1>1, <2>1, <3>1 DEF NoRing
    <3> QED BY <1>7, <3>2
  <2> QED BY <2>1 DEF NoRing
<1> QED BY <1>4, <1>5, <1>6, <1>9, <1>10 DEF Linked, e

-----------------------------------------------------------------------------
(* The walks of getRoot and foreach *)

\* Nor is there a ring the other way: prev would take its nodes to each other,
\* one to one, and next back.
LEMMA NoRingBack ==
  ASSUME NEW d, Linked(d), NEW C \in SUBSET Ids(d), C # {}
  PROVE  \E u \in C : PrevOf(d, u) \notin C
<1> SUFFICES ASSUME \A u \in C : PrevOf(d, u) \in C PROVE FALSE
  OBVIOUS
<1>1. Slotted(d, Node) /\ TwoWay(d) /\ NoRing(d) /\ NULL_SLOT \notin Ids(d)
  BY IdsAre DEF Linked, NULL_SLOT
<1>2. IsFiniteSet(C)
  BY <1>1, IdsAre, FS_Subset
<1> DEFINE f == [u \in C |-> PrevOf(d, u)]
<1>3. f \in Injection(C, C)
  <2>1. f \in [C -> C]
    OBVIOUS
  <2>2. \A u, w \in C : f[u] = f[w] => u = w
    BY <1>1 DEF TwoWay
  <2> QED BY <2>1, <2>2 DEF Injection, IsInjective
<1>4. f \in Surjection(C, C)
  <2> HIDE DEF f
  <2> QED BY <1>2, <1>3, FS_Injection
<1>5. \A u \in C : \E w \in C : f[w] = u
  BY <1>4 DEF Surjection
<1>6. \A u \in C : NextOf(d, u) \in C
  <2>1. ASSUME NEW u \in C PROVE NextOf(d, u) \in C
    <3>1. PICK w \in C : PrevOf(d, w) = u
      BY <1>5
    <3>2. NextOf(d, u) = w
      BY <1>1, <3>1 DEF TwoWay
    <3> QED BY <3>2
  <2> QED BY <2>1
<1> QED BY <1>1, <1>6 DEF NoRing

\* The walks of doubleLinkList.c are such walks: by next, and by prev.
LEMMA ForthIs ==
  ASSUME NEW d, Linked(d), NEW S, S \subseteq Ids(d), NEW v \in S \cup {NULL_SLOT},
         \A x \in S : NextOf(d, x) \in S \cup {NULL_SLOT}
  PROVE  LET at == Forth(d, v)
         IN  /\ d.alloced \in Nat /\ DOMAIN at = 0..d.alloced /\ at[0] = v
             /\ \A k \in 1..d.alloced : at[k] = NextOf(d, at[k - 1])
             /\ \A k \in 0..d.alloced : at[k] \in S \cup {NULL_SLOT}
             /\ at[d.alloced] = NULL_SLOT
<1> DEFINE next == [w \in 0..d.length |-> NextOf(d, w)]
           n == d.alloced
           at == Steps(next, n, v)
           T == S \cup {NULL_SLOT}
<1>1. /\ Slotted(d, Node) /\ TwoWay(d) /\ NoRing(d) /\ n \in Nat
      /\ d.length \in Nat /\ Ids(d) \subseteq 1..d.length
      /\ IsFiniteSet(Ids(d)) /\ Cardinality(Ids(d)) = n
  BY IdsAre DEF Linked, Slotted
<1>2. Forth(d, v) = at
  BY DEF Forth, Steps
<1>3. NULL_SLOT \notin Ids(d) /\ NULL_SLOT \in 0..d.length
  BY <1>1 DEF NULL_SLOT
<1>4. NextOf(d, NULL_SLOT) = NULL_SLOT
  BY <1>1, <1>3, AtIs
<1>5. \A x \in Ids(d) \cup {NULL_SLOT} : next[x] = NextOf(d, x)
  BY <1>1, <1>3
<1> HIDE DEF next, n
<1>6. v \in T /\ \A x \in T : next[x] \in T
  BY <1>3, <1>4, <1>5
<1> HIDE DEF T
<1>7. /\ DOMAIN at = 0..n /\ at[0] = v
      /\ \A k \in 1..n : at[k] = next[at[k - 1]]
      /\ \A k \in 0..n : at[k] \in T
  <2>1. n \in Nat
    BY <1>1
  <2> QED BY <1>6, <2>1, WalkIn
<1>8. at[n] = NULL_SLOT
  <2>1. next[NULL_SLOT] = NULL_SLOT
    BY <1>4, <1>5
  <2>2. \A x \in Ids(d) : next[x] \in Ids(d) \cup {NULL_SLOT}
    BY <1>1, <1>5 DEF TwoWay
  <2>3. \A C \in SUBSET Ids(d) : C # {} => \E x \in C : next[x] \notin C
    BY <1>1, <1>5 DEF NoRing
  <2>4. v \in Ids(d) \cup {NULL_SLOT}
    OBVIOUS
  <2> DEFINE I == Ids(d)
             nil == NULL_SLOT
  <2>5. /\ IsFiniteSet(I) /\ n = Cardinality(I) /\ nil \notin I
        /\ next[nil] = nil /\ \A x \in I : next[x] \in I \cup {nil}
        /\ \A C \in SUBSET I : C # {} => \E x \in C : next[x] \notin C
        /\ v \in I \cup {nil}
    BY <1>1, <1>3, <2>1, <2>2, <2>3, <2>4
  <2> HIDE DEF I, nil, at
  <2>6. Steps(next, n, v)[n] = nil
    BY <1>1, <2>5, WalkEnds
  <2> QED BY <2>6 DEF at, nil
<1> HIDE DEF at
<1>9. \A k \in 1..n : at[k] = NextOf(d, at[k - 1])
  <2>1. ASSUME NEW k \in 1..n PROVE at[k] = NextOf(d, at[k - 1])
    <3>1. k - 1 \in 0..n
      BY <1>1
    <3>2. at[k - 1] \in Ids(d) \cup {NULL_SLOT}
      BY <1>7, <3>1 DEF T
    <3> QED BY <1>5, <1>7, <3>2
  <2> QED BY <2>1
<1> QED BY <1>1, <1>2, <1>7, <1>8, <1>9 DEF n, T

LEMMA BackIs ==
  ASSUME NEW d, Linked(d), NEW S, S \subseteq Ids(d), NEW v \in S \cup {NULL_SLOT},
         \A x \in S : PrevOf(d, x) \in S \cup {NULL_SLOT}
  PROVE  LET at == Back(d, v)
         IN  /\ d.alloced \in Nat /\ DOMAIN at = 0..d.alloced /\ at[0] = v
             /\ \A k \in 1..d.alloced : at[k] = PrevOf(d, at[k - 1])
             /\ \A k \in 0..d.alloced : at[k] \in S \cup {NULL_SLOT}
             /\ at[d.alloced] = NULL_SLOT
<1> DEFINE prev == [w \in 0..d.length |-> PrevOf(d, w)]
           n == d.alloced
           at == Steps(prev, n, v)
           T == S \cup {NULL_SLOT}
<1>1. /\ Slotted(d, Node) /\ TwoWay(d) /\ n \in Nat
      /\ d.length \in Nat /\ Ids(d) \subseteq 1..d.length
      /\ IsFiniteSet(Ids(d)) /\ Cardinality(Ids(d)) = n
  BY IdsAre DEF Linked, Slotted
<1>2. Back(d, v) = at
  BY DEF Back, Steps
<1>3. NULL_SLOT \notin Ids(d) /\ NULL_SLOT \in 0..d.length
  BY <1>1 DEF NULL_SLOT
<1>4. PrevOf(d, NULL_SLOT) = NULL_SLOT
  BY <1>1, <1>3, AtIs
<1>5. \A x \in Ids(d) \cup {NULL_SLOT} : prev[x] = PrevOf(d, x)
  BY <1>1, <1>3
<1> HIDE DEF prev, n
<1>6. v \in T /\ \A x \in T : prev[x] \in T
  BY <1>3, <1>4, <1>5
<1> HIDE DEF T
<1>7. /\ DOMAIN at = 0..n /\ at[0] = v
      /\ \A k \in 1..n : at[k] = prev[at[k - 1]]
      /\ \A k \in 0..n : at[k] \in T
  <2>1. n \in Nat
    BY <1>1
  <2> QED BY <1>6, <2>1, WalkIn
<1>8. at[n] = NULL_SLOT
  <2>1. prev[NULL_SLOT] = NULL_SLOT
    BY <1>4, <1>5
  <2>2. \A x \in Ids(d) : prev[x] \in Ids(d) \cup {NULL_SLOT}
    BY <1>1, <1>5 DEF TwoWay
  <2>3. \A C \in SUBSET Ids(d) : C # {} => \E x \in C : prev[x] \notin C
    BY <1>5, NoRingBack
  <2>4. v \in Ids(d) \cup {NULL_SLOT}
    OBVIOUS
  <2> DEFINE I == Ids(d)
             nil == NULL_SLOT
  <2>5. /\ IsFiniteSet(I) /\ n = Cardinality(I) /\ nil \notin I
        /\ prev[nil] = nil /\ \A x \in I : prev[x] \in I \cup {nil}
        /\ \A C \in SUBSET I : C # {} => \E x \in C : prev[x] \notin C
        /\ v \in I \cup {nil}
    BY <1>1, <1>3, <2>1, <2>2, <2>3, <2>4
  <2> HIDE DEF I, nil, at
  <2>6. Steps(prev, n, v)[n] = nil
    BY <1>1, <2>5, WalkEnds
  <2> QED BY <2>6 DEF at, nil
<1> HIDE DEF at
<1>9. \A k \in 1..n : at[k] = PrevOf(d, at[k - 1])
  <2>1. ASSUME NEW k \in 1..n PROVE at[k] = PrevOf(d, at[k - 1])
    <3>1. k - 1 \in 0..n
      BY <1>1
    <3>2. at[k - 1] \in Ids(d) \cup {NULL_SLOT}
      BY <1>7, <3>1 DEF T
    <3> QED BY <1>5, <1>7, <3>2
  <2> QED BY <2>1
<1> QED BY <1>1, <1>2, <1>7, <1>8, <1>9 DEF n, T

-----------------------------------------------------------------------------
(* Lists *)

\* Nodes whose neighbours are among them.
Closed(d, C) ==
  /\ C \subseteq Ids(d)
  /\ \A u \in C : /\ NextOf(d, u) \in C \cup {NULL_SLOT}
                  /\ PrevOf(d, u) \in C \cup {NULL_SLOT}

\* The list of v: no set of nodes that has v and all neighbours is smaller.
Whole(d, v) ==
  {w \in Ids(d) : \A C \in SUBSET Ids(d) : Closed(d, C) /\ v \in C => w \in C}

LEMMA WholeIs ==
  ASSUME NEW d, Linked(d), NEW v \in Ids(d)
  PROVE  /\ v \in Whole(d, v) /\ Whole(d, v) \subseteq Ids(d)
         /\ Closed(d, Whole(d, v))
         /\ \A C : Closed(d, C) /\ v \in C => Whole(d, v) \subseteq C
<1> DEFINE W == Whole(d, v)
<1>1. v \in W /\ W \subseteq Ids(d)
  BY DEF Whole
<1>2. \A C : Closed(d, C) /\ v \in C => W \subseteq C
  BY DEF Whole, Closed
<1>3. ASSUME NEW u \in W, NEW w \in {NextOf(d, u), PrevOf(d, u)}, w # NULL_SLOT
      PROVE  w \in W
  <2>1. w \in Ids(d)
    BY <1>1, <1>3 DEF Linked, TwoWay
  <2>2. ASSUME NEW C \in SUBSET Ids(d), Closed(d, C), v \in C PROVE w \in C
    BY <1>2, <1>3, <2>2 DEF Closed
  <2> QED BY <2>1, <2>2 DEF Whole
<1>4. Closed(d, W)
  <2> HIDE DEF W
  <2> QED BY <1>1, <1>3 DEF Closed
<1> QED BY <1>1, <1>2, <1>4

\* Two nodes are on one list or on disjoint ones.
LEMMA WholeSame ==
  ASSUME NEW d, Linked(d), NEW v \in Ids(d), NEW w \in Whole(d, v)
  PROVE  Whole(d, w) = Whole(d, v)
<1> DEFINE V == Whole(d, v)
           W == Whole(d, w)
<1>1. /\ w \in Ids(d) /\ v \in V /\ w \in W /\ V \subseteq Ids(d)
      /\ Closed(d, V) /\ Closed(d, W)
      /\ \A C : Closed(d, C) /\ v \in C => V \subseteq C
      /\ \A C : Closed(d, C) /\ w \in C => W \subseteq C
  <2>1. w \in Ids(d)
    BY DEF Whole
  <2> QED BY <2>1, WholeIs
<1>2. w \in V /\ TwoWay(d) /\ NULL_SLOT \notin Ids(d)
  BY IdsAre DEF Linked, NULL_SLOT
<1> HIDE DEF V, W
<1>3. W \subseteq V
  BY <1>1, <1>2
<1>4. v \in W
  <2>1. SUFFICES ASSUME v \notin W PROVE FALSE
    OBVIOUS
  <2> DEFINE D == V \ W
  <2>2. ASSUME NEW u \in D
        PROVE  /\ NextOf(d, u) \in D \cup {NULL_SLOT}
               /\ PrevOf(d, u) \in D \cup {NULL_SLOT}
    <3>1. u \in Ids(d) /\ u # NULL_SLOT
      BY <1>1, <1>2
    <3>2. /\ NextOf(d, u) \in V \cup {NULL_SLOT}
          /\ PrevOf(d, u) \in V \cup {NULL_SLOT}
      BY <1>1 DEF Closed
    <3>3. ASSUME NextOf(d, u) \in W, NextOf(d, u) # NULL_SLOT PROVE FALSE
      <4>1. PrevOf(d, NextOf(d, u)) = u
        BY <1>2, <3>1, <3>3 DEF TwoWay
      <4> QED BY <1>1, <3>1, <3>3, <4>1 DEF Closed
    <3>4. ASSUME PrevOf(d, u) \in W, PrevOf(d, u) # NULL_SLOT PROVE FALSE
      <4>1. NextOf(d, PrevOf(d, u)) = u
        BY <1>2, <3>1, <3>4 DEF TwoWay
      <4> QED BY <1>1, <3>1, <3>4, <4>1 DEF Closed
    <3> QED BY <3>2, <3>3, <3>4
  <2>3. Closed(d, D)
    <3>1. D \subseteq Ids(d)
      BY <1>1
    <3> HIDE DEF D
    <3> QED BY <2>2, <3>1 DEF Closed
  <2>4. V \subseteq D
    BY <1>1, <2>1, <2>3
  <2> QED BY <1>1, <1>2, <2>4
<1>5. V \subseteq W
  BY <1>1, <1>4
<1> QED BY <1>3, <1>5 DEF V, W

\* DoubleLinkList__foreach, started at a node with none before it, meets the
\* nodes of its list, all of them and no other.
LEMMA VisitedIs ==
  ASSUME NEW d, Linked(d), NEW r \in Ids(d), PrevOf(d, r) = NULL_SLOT
  PROVE  Visited(d, r) = Whole(d, r)
<1> DEFINE at == Forth(d, r)
           n == d.alloced
           V == {at[k] : k \in 0..n} \ {NULL_SLOT}
           W == Whole(d, r)
<1>1. /\ r \in W /\ W \subseteq Ids(d) /\ Closed(d, W)
      /\ \A C : Closed(d, C) /\ r \in C => W \subseteq C
  BY WholeIs
<1>2. TwoWay(d) /\ NULL_SLOT \notin Ids(d) /\ NextOf(d, NULL_SLOT) = NULL_SLOT
  <2>1. /\ d.length \in Nat /\ Ids(d) \subseteq 1..d.length
    BY IdsAre DEF Linked
  <2>2. NULL_SLOT \notin Ids(d) /\ NULL_SLOT \in 0..d.length
    BY <2>1 DEF NULL_SLOT
  <2> QED BY <2>2, AtIs DEF Linked
<1>3. /\ n \in Nat /\ DOMAIN at = 0..n /\ at[0] = r
      /\ \A k \in 1..n : at[k] = NextOf(d, at[k - 1])
      /\ \A k \in 0..n : at[k] \in W \cup {NULL_SLOT}
      /\ at[n] = NULL_SLOT
  <2> HIDE DEF W
  <2>1. \A x \in W : NextOf(d, x) \in W \cup {NULL_SLOT}
    BY <1>1 DEF Closed
  <2> QED BY <1>1, <2>1, ForthIs
<1>4. Visited(d, r) = V
  <2>1. DOMAIN Forth(d, r) = 0..n
    BY <1>3
  <2> QED BY <2>1 DEF Visited
<1> HIDE DEF at, W, n
<1>5. V \subseteq W
  BY <1>3
<1>6. ASSUME NEW u \in V
      PROVE  /\ NextOf(d, u) \in V \cup {NULL_SLOT}
             /\ PrevOf(d, u) \in V \cup {NULL_SLOT}
  <2>1. PICK k \in 0..n : u = at[k]
    OBVIOUS
  <2>2. u # NULL_SLOT /\ k # n
    BY <1>3, <2>1
  <2>3. k + 1 \in 1..n /\ k + 1 \in 0..n /\ (k + 1) - 1 = k
    BY <1>3, <2>1, <2>2
  <2>4. NextOf(d, u) = at[k + 1]
    BY <1>3, <2>1, <2>3
  <2>5. CASE k = 0
    BY <1>3, <2>1, <2>3, <2>4, <2>5
  <2>6. CASE k # 0
    <3>1. k \in 1..n /\ k - 1 \in 0..n
      BY <1>3, <2>1, <2>6
    <3>2. u = NextOf(d, at[k - 1]) /\ at[k - 1] \in V
      BY <1>2, <1>3, <2>1, <2>2, <3>1
    <3>3. PrevOf(d, u) = at[k - 1]
      BY <1>1, <1>2, <1>5, <2>2, <3>2 DEF TwoWay
    <3> QED BY <2>3, <2>4, <3>2, <3>3
  <2> QED BY <2>5, <2>6
<1>7. r \in V
  <2>1. 0 \in 0..n /\ r # NULL_SLOT
    BY <1>2, <1>3
  <2> QED BY <1>3, <2>1
<1> HIDE DEF V
<1>8. Closed(d, V)
  BY <1>1, <1>5, <1>6 DEF Closed
<1>9. W \subseteq V
  BY <1>1, <1>7, <1>8
<1> QED BY <1>4, <1>5, <1>9 DEF W

\* DoubleLinkList__getRoot finds the node of the list with none before it.
LEMMA RootIs ==
  ASSUME NEW d, Linked(d), NEW v \in Ids(d)
  PROVE  LET r == Root(d, v)
         IN  r \in Whole(d, v) /\ r \in Ids(d) /\ PrevOf(d, r) = NULL_SLOT
<1> DEFINE at == Back(d, v)
           n == d.alloced
           W == Whole(d, v)
           K == {k \in 0..n : at[k] # NULL_SLOT}
<1>1. v \in W /\ W \subseteq Ids(d) /\ Closed(d, W)
  BY WholeIs
<1>2. /\ n \in Nat /\ DOMAIN at = 0..n /\ at[0] = v
      /\ \A k \in 1..n : at[k] = PrevOf(d, at[k - 1])
      /\ \A k \in 0..n : at[k] \in W \cup {NULL_SLOT}
      /\ at[n] = NULL_SLOT
  <2> HIDE DEF W
  <2>1. \A x \in W : PrevOf(d, x) \in W \cup {NULL_SLOT}
    BY <1>1 DEF Closed
  <2> QED BY <1>1, <2>1, BackIs
<1>3. Root(d, v) = at[Max(K)]
  <2>1. At(d, v) # Empty
    BY AtIs DEF Linked
  <2>2. DOMAIN Back(d, v) = 0..n
    BY <1>2
  <2> QED BY <2>1, <2>2 DEF Root
<1>4. v # NULL_SLOT
  BY IdsAre DEF Linked, NULL_SLOT
<1> HIDE DEF at, n, W
<1>5. K \subseteq 0..n /\ K # {}
  <2>1. 0 \in K
    BY <1>2, <1>4
  <2> QED BY <2>1
<1> DEFINE m == Max(K)
<1>6. m \in K /\ \A i \in K : i <= m
  <2> HIDE DEF K
  <2> QED BY <1>2, <1>5, MaxOfNats
<1> HIDE DEF m
<1>7. m # n /\ m \in 0..n /\ at[m] \in W
  BY <1>2, <1>6
<1>8. m + 1 \in 1..n /\ m + 1 \in 0..n /\ (m + 1) - 1 = m /\ ~ (m + 1 <= m)
  BY <1>2, <1>7
<1>9. at[m + 1] = NULL_SLOT
  BY <1>6, <1>8
<1>10. PrevOf(d, at[m]) = NULL_SLOT
  BY <1>2, <1>8, <1>9
<1> QED BY <1>1, <1>3, <1>7, <1>10 DEF m, W

\* So foreach from the root of any node on a list meets that list.
LEMMA ListIs ==
  ASSUME NEW d, Linked(d), NEW v \in Ids(d)
  PROVE  Visited(d, Root(d, v)) = Whole(d, v)
BY RootIs, VisitedIs, WholeSame

\* The lists, and what their nodes hold.
ListsOf(d) == {Whole(d, v) : v \in Ids(d)}
DataOf(d)  == [v \in Ids(d) |-> At(d, v).data]

LEMMA ListSet ==
  ASSUME NEW d, Linked(d)
  PROVE  {Visited(d, r) : r \in {v \in Ids(d) : PrevOf(d, v) = NULL_SLOT}}
           = ListsOf(d)
<1> DEFINE R == {v \in Ids(d) : PrevOf(d, v) = NULL_SLOT}
<1>1. \A r \in R : Visited(d, r) = Whole(d, r)
  BY VisitedIs
<1>2. \A v \in Ids(d) : \E r \in R : Whole(d, v) = Visited(d, r)
  <2>1. ASSUME NEW v \in Ids(d) PROVE Root(d, v) \in R
    BY RootIs
  <2> QED BY <2>1, ListIs
<1> QED BY <1>1, <1>2 DEF ListsOf

\* On a set of disjoint lists, the list of v is the one that has it.
LEMMA TheList ==
  ASSUME NEW d, Linked(d), NEW v \in Ids(d)
  PROVE  (CHOOSE l \in ListsOf(d) : v \in l) = Whole(d, v)
<1>1. Whole(d, v) \in ListsOf(d) /\ v \in Whole(d, v)
  BY WholeIs DEF ListsOf
<1>2. ASSUME NEW l \in ListsOf(d), v \in l PROVE l = Whole(d, v)
  <2>1. PICK u \in Ids(d) : l = Whole(d, u)
    BY DEF ListsOf
  <2> QED BY <1>2, <2>1, WholeSame
<1> QED BY <1>1, <1>2

\* A list none of whose nodes had a neighbour changed.
LEMMA WholeUntouched ==
  ASSUME NEW d, Linked(d), NEW e, Linked(e), NEW u \in Ids(d),
         Whole(d, u) \subseteq Ids(e),
         \A x \in Whole(d, u) : /\ NextOf(e, x) = NextOf(d, x)
                                /\ PrevOf(e, x) = PrevOf(d, x)
  PROVE  Whole(e, u) = Whole(d, u)
<1> DEFINE W == Whole(d, u)
           Y == Whole(e, u)
<1>1. /\ u \in W /\ W \subseteq Ids(d) /\ Closed(d, W)
      /\ \A C : Closed(d, C) /\ u \in C => W \subseteq C
  BY WholeIs
<1>2. /\ u \in Y /\ Y \subseteq Ids(e) /\ Closed(e, Y)
      /\ \A C : Closed(e, C) /\ u \in C => Y \subseteq C
  BY <1>1, WholeIs
<1>3. Closed(e, W)
  BY <1>1 DEF Closed
<1> HIDE DEF W, Y
<1>4. Y \subseteq W
  BY <1>1, <1>2, <1>3
<1>5. Closed(d, Y)
  BY <1>1, <1>2, <1>4 DEF Closed, W
<1>6. W \subseteq Y
  BY <1>1, <1>2, <1>5
<1> QED BY <1>4, <1>6 DEF W, Y

\* A node with no neighbour is a list.
LEMMA AloneIs ==
  ASSUME NEW d, Linked(d), NEW v \in Ids(d)
  PROVE  /\ PrevOf(d, v) = NULL_SLOT /\ NextOf(d, v) = NULL_SLOT
              => Whole(d, v) = {v}
         /\ Whole(d, v) = {v}
              => PrevOf(d, v) = NULL_SLOT /\ NextOf(d, v) = NULL_SLOT
         /\ PrevOf(d, v) # v /\ NextOf(d, v) # v
<1>1. /\ v \in Whole(d, v) /\ Closed(d, Whole(d, v))
      /\ \A C : Closed(d, C) /\ v \in C => Whole(d, v) \subseteq C
  BY WholeIs
<1>2. PrevOf(d, v) # v /\ NextOf(d, v) # v
  <2>1. {v} \in SUBSET Ids(d) /\ {v} # {}
    OBVIOUS
  <2>2. \E u \in {v} : PrevOf(d, u) \notin {v}
    BY <2>1, NoRingBack
  <2>3. \E u \in {v} : NextOf(d, u) \notin {v}
    BY <2>1 DEF Linked, NoRing
  <2> QED BY <2>2, <2>3
<1>3. ASSUME PrevOf(d, v) = NULL_SLOT, NextOf(d, v) = NULL_SLOT
      PROVE  Whole(d, v) = {v}
  <2>1. Closed(d, {v})
    BY <1>3 DEF Closed
  <2> QED BY <1>1, <2>1
<1>4. ASSUME Whole(d, v) = {v}
      PROVE  PrevOf(d, v) = NULL_SLOT /\ NextOf(d, v) = NULL_SLOT
  BY <1>1, <1>2, <1>4 DEF Closed
<1> QED BY <1>2, <1>3, <1>4

-----------------------------------------------------------------------------
(* What each operation does to the lists *)

LEMMA AddLists ==
  ASSUME NEW d, Linked(d), NEW x \in Data
  PROVE  LET id == AddOne(d, NewNode(x)).id
             e  == AddOne(d, NewNode(x)).arr
         IN  /\ Ids(e) = Ids(d) \cup {id} /\ id \notin Ids(d)
             /\ ListsOf(e) = ListsOf(d) \cup {{id}}
             /\ DataOf(e) = [w \in Ids(d) \cup {id} |->
                               IF w = id THEN x ELSE DataOf(d)[w]]
<1> DEFINE id == AddOne(d, NewNode(x)).id
           e  == AddOne(d, NewNode(x)).arr
<1>1. /\ Linked(e) /\ Ids(e) = Ids(d) \cup {id} /\ id \notin Ids(d)
      /\ At(e, id) = NewNode(x)
      /\ PrevOf(e, id) = NULL_SLOT /\ NextOf(e, id) = NULL_SLOT
      /\ \A u \in Ids(d) : At(e, u) = At(d, u)
  BY AddKeepsLinks
<1> HIDE DEF id, e
<1>2. Whole(e, id) = {id}
  BY <1>1, AloneIs
<1>3. \A u \in Ids(d) : Whole(e, u) = Whole(d, u)
  <2>1. ASSUME NEW u \in Ids(d) PROVE Whole(e, u) = Whole(d, u)
    <3>1. Whole(d, u) \subseteq Ids(d)
      BY DEF Whole
    <3>2. \A w \in Whole(d, u) : /\ NextOf(e, w) = NextOf(d, w)
                                 /\ PrevOf(e, w) = PrevOf(d, w)
      BY <1>1, <3>1 DEF PrevOf, NextOf
    <3> QED BY <1>1, <3>1, <3>2, WholeUntouched
  <2> QED BY <2>1
<1>4. ListsOf(e) = ListsOf(d) \cup {{id}}
  BY <1>1, <1>2, <1>3 DEF ListsOf
<1>5. At(e, id).data = x
  BY <1>1 DEF NewNode
<1>6. DataOf(e) = [w \in Ids(d) \cup {id} |-> IF w = id THEN x ELSE DataOf(d)[w]]
  BY <1>1, <1>5 DEF DataOf
<1> QED BY <1>1, <1>4, <1>6 DEF id, e

\* Whatever leaves the links alone leaves the lists.
LEMMA SameLinks ==
  ASSUME NEW d, Linked(d), NEW e, Slotted(e, Node), Ids(e) = Ids(d),
         \A w \in Ids(d) : /\ PrevOf(e, w) = PrevOf(d, w)
                           /\ NextOf(e, w) = NextOf(d, w)
  PROVE  Linked(e) /\ ListsOf(e) = ListsOf(d)
<1>1. Linked(e)
  <2>1. TwoWay(d) /\ NoRing(d)
    BY DEF Linked
  <2>2. TwoWay(e)
    BY <2>1 DEF TwoWay
  <2>3. NoRing(e)
    <3>1. ASSUME NEW C \in SUBSET Ids(e), C # {}
          PROVE  \E u \in C : NextOf(e, u) \notin C
      <4>1. PICK u \in C : NextOf(d, u) \notin C
        BY <2>1, <3>1 DEF NoRing
      <4> QED BY <4>1
    <3> QED BY <3>1 DEF NoRing
  <2> QED BY <2>2, <2>3 DEF Linked
<1>2. \A u \in Ids(d) : Whole(e, u) = Whole(d, u)
  <2>1. ASSUME NEW u \in Ids(d) PROVE Whole(e, u) = Whole(d, u)
    <3>1. Whole(d, u) \subseteq Ids(d)
      BY DEF Whole
    <3> QED BY <1>1, <3>1, WholeUntouched
  <2> QED BY <2>1
<1> QED BY <1>1, <1>2 DEF ListsOf

LEMMA UpdateLists ==
  ASSUME NEW d, Linked(d), NEW v \in Ids(d), NEW x \in Data
  PROVE  LET e == SetField(d, v, "data", x)
         IN  /\ Linked(e) /\ Ids(e) = Ids(d) /\ ListsOf(e) = ListsOf(d)
             /\ DataOf(e) = [DataOf(d) EXCEPT ![v] = x]
<1> DEFINE e == SetField(d, v, "data", x)
<1>1. /\ Slotted(e, Node) /\ Ids(e) = Ids(d)
      /\ \A w \in Ids(d) : /\ PrevOf(e, w) = PrevOf(d, w)
                           /\ NextOf(e, w) = NextOf(d, w)
                           /\ At(e, w).data = IF w = v THEN x ELSE At(d, w).data
  BY DataSet DEF Linked
<1> HIDE DEF e
<1>2. Linked(e) /\ ListsOf(e) = ListsOf(d)
  BY <1>1, SameLinks
<1>3. DataOf(e) = [DataOf(d) EXCEPT ![v] = x]
  BY <1>1 DEF DataOf
<1> QED BY <1>1, <1>2, <1>3 DEF e

LEMMA ForeachLists ==
  ASSUME NEW d, Linked(d), NEW v \in Ids(d), NEW x \in Data
  PROVE  LET e == Foreach(d, v, x)
         IN  /\ Linked(e) /\ Ids(e) = Ids(d) /\ ListsOf(e) = ListsOf(d)
             /\ DataOf(e) = [w \in Ids(d) |-> IF w \in Whole(d, v) THEN x
                                              ELSE DataOf(d)[w]]
<1> DEFINE L == Whole(d, v)
           F == [i \in DOMAIN d.item |->
                   IF i + 1 \in L THEN [d.item[i] EXCEPT !.data = x]
                   ELSE d.item[i]]
           e == Foreach(d, v, x)
<1>1. /\ Slotted(d, Node) /\ L \subseteq Ids(d)
      /\ d.length \in Nat /\ d.item \in [0..(d.length - 1) -> Node \cup {Empty}]
  BY WholeIs DEF Linked, Slotted
<1>2. e = [d EXCEPT !.item = F]
  BY ListIs DEF Foreach
<1> HIDE DEF e, L
<1>3. ASSUME NEW i \in 0..(d.length - 1)
      PROVE  /\ i + 1 \in L => /\ i \in Occupied(d) /\ d.item[i] \in Node
                               /\ F[i] = [prev |-> d.item[i].prev,
                                          next |-> d.item[i].next, data |-> x]
                               /\ F[i] \in Node /\ F[i] # Empty
             /\ i + 1 \notin L => F[i] = d.item[i]
  <2>1. ASSUME i + 1 \in L
        PROVE  /\ i \in Occupied(d) /\ d.item[i] \in Node
               /\ F[i] = [prev |-> d.item[i].prev,
                          next |-> d.item[i].next, data |-> x]
    <3>1. (i + 1) - 1 \in Occupied(d) /\ (i + 1) - 1 = i
      BY <1>1, <2>1, IdsAre
    <3>2. i \in Occupied(d) /\ d.item[i] # Empty /\ d.item[i] \in Node
      BY <1>1, <3>1 DEF Occupied
    <3>3. F[i] = [d.item[i] EXCEPT !.data = x]
      BY <1>1, <2>1
    <3>4. [d.item[i] EXCEPT !.data = x] = [d.item[i] EXCEPT !["data"] = x]
      OBVIOUS
    <3> HIDE DEF F
    <3> QED BY <3>2, <3>3, <3>4, FieldsSet
  <2>2. ASSUME i + 1 \in L PROVE F[i] \in Node /\ F[i] # Empty
    <3> HIDE DEF F
    <3> QED BY <2>1, <2>2, EmptyAssumption DEF Node
  <2>3. i + 1 \notin L => F[i] = d.item[i]
    BY <1>1
  <2> QED BY <2>1, <2>2, <2>3
<1>4. F \in [0..(d.length - 1) -> Node \cup {Empty}]
  <2>1. DOMAIN d.item = 0..(d.length - 1)
    BY <1>1
  <2>2. \A i \in 0..(d.length - 1) : F[i] \in Node \cup {Empty}
    <3>1. \A i \in 0..(d.length - 1) : d.item[i] \in Node \cup {Empty}
      BY <1>1
    <3> HIDE DEF F
    <3> QED BY <1>3, <3>1
  <2>3. F = [i \in 0..(d.length - 1) |-> F[i]]
    BY <2>1
  <2> HIDE DEF F
  <2> QED BY <2>2, <2>3
<1> HIDE DEF F
<1>5. e = [item |-> F, alloced |-> d.alloced, length |-> d.length, tail |-> d.tail]
  BY <1>1, <1>2 DEF Slotted
<1>6. e.item = F /\ e.alloced = d.alloced /\ e.length = d.length /\ e.tail = d.tail
  BY <1>5
<1>7. Occupied(e) = Occupied(d)
  BY <1>3, <1>6 DEF Occupied
<1>8. Slotted(e, Node)
  BY <1>1, <1>4, <1>5, <1>6, <1>7 DEF Slotted
<1>9. Ids(e) = Ids(d)
  BY <1>7 DEF Ids
<1>10. ASSUME NEW w \in Ids(d)
       PROVE  /\ PrevOf(e, w) = PrevOf(d, w) /\ NextOf(e, w) = NextOf(d, w)
              /\ At(e, w).data = IF w \in L THEN x ELSE At(d, w).data
  <2>1. /\ w - 1 \in 0..(d.length - 1) /\ (w - 1) + 1 = w
    BY <1>1, IdsAre DEF Occupied
  <2>2. /\ At(e, w) = F[w - 1] /\ At(d, w) = d.item[w - 1]
        /\ PrevOf(e, w) = At(e, w).prev /\ PrevOf(d, w) = At(d, w).prev
        /\ NextOf(e, w) = At(e, w).next /\ NextOf(d, w) = At(d, w).next
    BY <1>1, <1>6, <1>8, <1>9, AtIs
  <2>3. /\ w \in L => F[w - 1] = [prev |-> d.item[w - 1].prev,
                                  next |-> d.item[w - 1].next, data |-> x]
        /\ w \notin L => F[w - 1] = d.item[w - 1]
    BY <1>3, <2>1
  <2>4. CASE w \in L
    <3>1. At(e, w) = [prev |-> At(d, w).prev, next |-> At(d, w).next, data |-> x]
      BY <2>2, <2>3, <2>4
    <3> QED BY <2>2, <2>4, <3>1
  <2>5. CASE w \notin L
    BY <2>2, <2>3, <2>5
  <2> QED BY <2>4, <2>5
<1>11. Linked(e) /\ ListsOf(e) = ListsOf(d)
  BY <1>8, <1>9, <1>10, SameLinks
<1>12. DataOf(e) = [w \in Ids(d) |-> IF w \in L THEN x ELSE DataOf(d)[w]]
  BY <1>9, <1>10 DEF DataOf
<1> QED BY <1>9, <1>11, <1>12 DEF e, L

\* Two disjoint lists become one.
LEMMA LinkLists ==
  ASSUME NEW d, Linked(d), NEW v \in Ids(d), NEW w \in Ids(d), v # w,
         PrevOf(d, w) = NULL_SLOT, NextOf(d, w) = NULL_SLOT
  PROVE  LET e == LinkNodes(d, v, w)
         IN  /\ Linked(e) /\ Ids(e) = Ids(d) /\ DataOf(e) = DataOf(d)
             /\ {w} \in ListsOf(d)
             /\ ListsOf(e) = (ListsOf(d) \ {Whole(d, v), {w}})
                               \cup {Whole(d, v) \cup {w}}
<1> DEFINE e == LinkNodes(d, v, w)
           z == NextOf(d, v)
           V == Whole(d, v)
           Y == Whole(e, v)
<1>1. /\ TwoWay(d) /\ NULL_SLOT \notin Ids(d)
      /\ v \in V /\ V \subseteq Ids(d) /\ Closed(d, V)
      /\ \A C : Closed(d, C) /\ v \in C => V \subseteq C
      /\ Whole(d, w) = {w}
  BY IdsAre, WholeIs, AloneIs DEF Linked, NULL_SLOT
<1>2. w \notin V
  BY <1>1, WholeSame
<1>3. /\ z \in V \cup {NULL_SLOT} /\ z # w
      /\ z # NULL_SLOT => z \in Ids(d) /\ PrevOf(d, z) = v
  BY <1>1, <1>2 DEF TwoWay, Closed
<1>4. /\ Linked(e) /\ Ids(e) = Ids(d)
      /\ \A u \in Ids(d) :
           /\ PrevOf(e, u) = IF u = w THEN v ELSE IF u = z THEN w ELSE PrevOf(d, u)
           /\ NextOf(e, u) = IF u = v THEN w ELSE IF u = w THEN z ELSE NextOf(d, u)
           /\ At(e, u).data = At(d, u).data
  BY LinkKeeps, LinkFields
<1> HIDE DEF e, z, V
<1>5. /\ v \in Y /\ Y \subseteq Ids(d) /\ Closed(e, Y)
      /\ \A C : Closed(e, C) /\ v \in C => Y \subseteq C
  BY <1>4, WholeIs
<1> HIDE DEF Y
<1>6. Y \subseteq V \cup {w}
  <2> DEFINE X == V \cup {w}
  <2>1. ASSUME NEW u \in X
        PROVE  /\ NextOf(e, u) \in X \cup {NULL_SLOT}
               /\ PrevOf(e, u) \in X \cup {NULL_SLOT}
    <3>1. u \in Ids(d)
      BY <1>1
    <3>2. u # w => /\ NextOf(d, u) \in V \cup {NULL_SLOT}
                   /\ PrevOf(d, u) \in V \cup {NULL_SLOT}
      BY <1>1 DEF Closed
    <3> QED BY <1>1, <1>3, <1>4, <3>1, <3>2
  <2>2. X \subseteq Ids(e) /\ v \in X
    BY <1>1, <1>4
  <2> HIDE DEF X
  <2>3. Closed(e, X)
    BY <2>1, <2>2 DEF Closed
  <2>4. Y \subseteq X
    BY <1>5, <2>2, <2>3
  <2> QED BY <2>4 DEF X
<1>7. V \cup {w} \subseteq Y
  <2>1. w \in Y
    <3>1. NextOf(e, v) = w
      BY <1>4
    <3> QED BY <1>1, <1>5, <3>1 DEF Closed
  <2> DEFINE D == Y \ {w}
  <2>2. z \in D \cup {NULL_SLOT}
    <3>1. NextOf(e, w) = z
      BY <1>4
    <3> QED BY <1>3, <1>5, <2>1, <3>1 DEF Closed
  <2>3. ASSUME NEW u \in D
        PROVE  /\ NextOf(d, u) \in D \cup {NULL_SLOT}
               /\ PrevOf(d, u) \in D \cup {NULL_SLOT}
    <3>1. u \in Ids(d) /\ u # w
      BY <1>5
    <3>2. NextOf(d, u) # w /\ PrevOf(d, u) # w
      BY <1>1, <3>1 DEF TwoWay
    <3>3. NextOf(e, u) \in Y \cup {NULL_SLOT} /\ PrevOf(e, u) \in Y \cup {NULL_SLOT}
      BY <1>5 DEF Closed
    <3>4. NextOf(d, u) \in D \cup {NULL_SLOT}
      <4>1. CASE u = v
        BY <2>2, <4>1 DEF z
      <4>2. CASE u # v
        BY <1>4, <3>1, <3>2, <3>3, <4>2
      <4> QED BY <4>1, <4>2
    <3>5. PrevOf(d, u) \in D \cup {NULL_SLOT}
      <4>1. CASE u = z
        <5>1. PrevOf(d, u) = v
          BY <1>1, <1>3, <3>1, <4>1
        <5> QED BY <1>5, <5>1
      <4>2. CASE u # z
        BY <1>4, <3>1, <3>2, <3>3, <4>2
      <4> QED BY <4>1, <4>2
    <3> QED BY <3>4, <3>5
  <2>4. D \subseteq Ids(d) /\ v \in D
    BY <1>5
  <2> HIDE DEF D
  <2>5. Closed(d, D)
    BY <2>3, <2>4 DEF Closed
  <2>6. V \subseteq D
    BY <1>1, <2>4, <2>5
  <2> QED BY <2>1, <2>6 DEF D
<1>8. Y = V \cup {w}
  BY <1>6, <1>7
<1>9. \A u \in V \cup {w} : Whole(e, u) = V \cup {w}
  <2>1. \A u \in Y : Whole(e, u) = Y
    BY <1>4, WholeSame DEF Y
  <2> QED BY <1>8, <2>1
<1>10. ASSUME NEW u \in Ids(d), u \notin V \cup {w}
       PROVE  Whole(e, u) = Whole(d, u) /\ Whole(d, u) \notin {V, {w}}
  <2> DEFINE U == Whole(d, u)
  <2>1. U \subseteq Ids(d) /\ u \in U
    BY WholeIs
  <2>2. U # V /\ U # {w}
    BY <1>10, <2>1
  <2>3. \A y \in U : Whole(d, y) = U
    BY WholeSame
  <2>4. \A y \in V : Whole(d, y) = V
    BY WholeSame DEF V
  <2> HIDE DEF U
  <2>5. w \notin U /\ U \cap V = {}
    BY <1>1, <2>2, <2>3, <2>4
  <2>6. \A y \in U : y \in Ids(d) /\ y # v /\ y # w /\ (y # z)
    BY <1>1, <1>3, <2>1, <2>5
  <2>7. \A y \in U : NextOf(e, y) = NextOf(d, y) /\ PrevOf(e, y) = PrevOf(d, y)
    BY <1>4, <2>6
  <2>8. Whole(e, u) = U
    BY <1>4, <2>1, <2>7, WholeUntouched DEF U
  <2> QED BY <2>2, <2>8 DEF U
<1>11. Whole(d, v) = V /\ \A u \in V : Whole(d, u) = V
  BY WholeSame DEF V
<1>12. ListsOf(e) = (ListsOf(d) \ {V, {w}}) \cup {V \cup {w}}
  <2>1. ListsOf(e) \subseteq (ListsOf(d) \ {V, {w}}) \cup {V \cup {w}}
    BY <1>4, <1>9, <1>10 DEF ListsOf
  <2>2. V \cup {w} \in ListsOf(e)
    BY <1>4, <1>9 DEF ListsOf
  <2>3. ListsOf(d) \ {V, {w}} \subseteq ListsOf(e)
    <3>1. ASSUME NEW u \in Ids(d), Whole(d, u) \notin {V, {w}}
          PROVE  Whole(d, u) \in ListsOf(e)
      <4>1. u \notin V \cup {w}
        BY <1>1, <1>11, <3>1
      <4> QED BY <1>4, <1>10, <4>1 DEF ListsOf
    <3> QED BY <3>1 DEF ListsOf
  <2> QED BY <2>1, <2>2, <2>3
<1>13. {w} \in ListsOf(d)
  BY <1>1 DEF ListsOf
<1>14. DataOf(e) = DataOf(d)
  BY <1>4 DEF DataOf
<1> QED BY <1>4, <1>12, <1>13, <1>14 DEF e, V

\* The lists when v has left its own, and is on none.
ListsWithout(d, v) ==
  (ListsOf(d) \ {Whole(d, v)}) \cup ({Whole(d, v) \ {v}} \ {{}})

\* A node leaves its list, the rest of which stays one list.
LEMMA DelinkLists ==
  ASSUME NEW d, Linked(d), NEW v \in Ids(d)
  PROVE  LET e == DelinkNode(d, v)
         IN  /\ Linked(e) /\ Ids(e) = Ids(d) /\ DataOf(e) = DataOf(d)
             /\ PrevOf(e, v) = NULL_SLOT /\ NextOf(e, v) = NULL_SLOT
             /\ ListsOf(e) = ListsWithout(d, v) \cup {{v}}
<1> DEFINE e == DelinkNode(d, v)
           p == PrevOf(d, v)
           n == NextOf(d, v)
           V == Whole(d, v)
<1>1. /\ TwoWay(d) /\ NULL_SLOT \notin Ids(d)
      /\ v \in V /\ V \subseteq Ids(d) /\ Closed(d, V)
      /\ p \in V \cup {NULL_SLOT} /\ n \in V \cup {NULL_SLOT}
      /\ p # v /\ n # v
  BY IdsAre, WholeIs, AloneIs DEF Linked, NULL_SLOT, Closed
<1>2. \A u \in Ids(d) : /\ NextOf(d, u) = v <=> u = p
                        /\ PrevOf(d, u) = v <=> u = n
  BY <1>1 DEF TwoWay
<1>3. /\ Linked(e) /\ Ids(e) = Ids(d)
      /\ \A u \in Ids(d) :
           /\ PrevOf(e, u) = IF u = v THEN NULL_SLOT
                             ELSE IF u = n THEN p ELSE PrevOf(d, u)
           /\ NextOf(e, u) = IF u = v THEN NULL_SLOT
                             ELSE IF u = p THEN n ELSE NextOf(d, u)
           /\ At(e, u).data = At(d, u).data
  BY DelinkKeeps, DelinkFields
<1> HIDE DEF e
<1>4. n = NextOf(d, v) /\ p = PrevOf(d, v)
  OBVIOUS
<1> HIDE DEF p, n
<1>5. \A u \in V : Whole(d, u) = V
  BY WholeSame
<1> HIDE DEF V
<1>6. Whole(e, v) = {v}
  BY <1>3, AloneIs
<1>7. ASSUME NEW u \in V \ {v} PROVE Whole(e, u) = V \ {v}
  <2> DEFINE Y == Whole(e, u)
             X == V \ {v}
  <2>1. /\ u \in Ids(d) /\ u \in Y /\ Y \subseteq Ids(d) /\ Closed(e, Y)
        /\ \A C : Closed(e, C) /\ u \in C => Y \subseteq C
    BY <1>1, <1>3, WholeIs
  <2> HIDE DEF Y
  <2>2. Y \subseteq X
    <3>1. ASSUME NEW x \in X
          PROVE  /\ NextOf(e, x) \in X \cup {NULL_SLOT}
                 /\ PrevOf(e, x) \in X \cup {NULL_SLOT}
      <4>1. x \in Ids(d) /\ x # v
        BY <1>1
      <4>2. NextOf(d, x) \in V \cup {NULL_SLOT} /\ PrevOf(d, x) \in V \cup {NULL_SLOT}
        BY <1>1 DEF Closed
      <4>3. NextOf(e, x) \in X \cup {NULL_SLOT}
        BY <1>1, <1>2, <1>3, <4>1, <4>2
      <4>4. PrevOf(e, x) \in X \cup {NULL_SLOT}
        BY <1>1, <1>2, <1>3, <4>1, <4>2
      <4> QED BY <4>3, <4>4
    <3>2. X \subseteq Ids(e) /\ u \in X
      BY <1>1, <1>3
    <3> HIDE DEF X
    <3>3. Closed(e, X)
      BY <3>1, <3>2 DEF Closed
    <3> QED BY <2>1, <3>2, <3>3
  <2>3. X \subseteq Y
    <3> DEFINE D == IF p \in Y \/ n \in Y THEN Y \cup {v} ELSE Y
    <3>1. p \in Y \/ n \in Y => /\ p \in Y \cup {NULL_SLOT}
                                /\ n \in Y \cup {NULL_SLOT}
      <4>1. ASSUME p \in Y PROVE n \in Y \cup {NULL_SLOT}
        <5>1. p \in Ids(d) /\ NextOf(e, p) = n
          BY <1>1, <1>3, <2>1, <4>1
        <5> QED BY <2>1, <4>1, <5>1 DEF Closed
      <4>2. ASSUME n \in Y PROVE p \in Y \cup {NULL_SLOT}
        <5>1. n \in Ids(d) /\ PrevOf(e, n) = p
          BY <1>1, <1>3, <2>1, <4>2
        <5> QED BY <2>1, <4>2, <5>1 DEF Closed
      <4> QED BY <4>1, <4>2
    <3>2. ASSUME NEW x \in D
          PROVE  /\ NextOf(d, x) \in D \cup {NULL_SLOT}
                 /\ PrevOf(d, x) \in D \cup {NULL_SLOT}
      <4>1. CASE x = v
        <5>1. p \in Y \/ n \in Y
          BY <2>2, <4>1
        <5> QED BY <1>4, <3>1, <4>1, <5>1
      <4>2. CASE x # v
        <5>1. x \in Y /\ x \in Ids(d)
          BY <2>1, <4>2
        <5>2. NextOf(e, x) \in Y \cup {NULL_SLOT} /\ PrevOf(e, x) \in Y \cup {NULL_SLOT}
          BY <2>1, <5>1 DEF Closed
        <5>3. NextOf(d, x) \in D \cup {NULL_SLOT}
          <6>1. CASE x = p
            BY <1>2, <5>1, <6>1
          <6>2. CASE x # p
            BY <1>3, <4>2, <5>1, <5>2, <6>2
          <6> QED BY <6>1, <6>2
        <5>4. PrevOf(d, x) \in D \cup {NULL_SLOT}
          <6>1. CASE x = n
            BY <1>2, <5>1, <6>1
          <6>2. CASE x # n
            BY <1>3, <4>2, <5>1, <5>2, <6>2
          <6> QED BY <6>1, <6>2
        <5> QED BY <5>3, <5>4
      <4> QED BY <4>1, <4>2
    <3>3. D \subseteq Ids(d) /\ u \in D /\ D \subseteq Y \cup {v}
      BY <2>1
    <3> HIDE DEF D
    <3>4. Closed(d, D)
      BY <3>2, <3>3 DEF Closed
    <3>5. Whole(d, u) \subseteq D
      BY <2>1, <3>3, <3>4, WholeIs
    <3> QED BY <1>5, <3>3, <3>5
  <2> QED BY <2>2, <2>3 DEF Y
<1>8. ASSUME NEW u \in Ids(d), u \notin V
      PROVE  Whole(e, u) = Whole(d, u) /\ Whole(d, u) # V
  <2> DEFINE U == Whole(d, u)
  <2>1. U \subseteq Ids(d) /\ u \in U
    BY WholeIs
  <2>2. \A y \in U : Whole(d, y) = U
    BY WholeSame
  <2> HIDE DEF U
  <2>3. \A y \in U : y \notin V
    BY <1>5, <1>8, <2>1, <2>2
  <2>4. \A y \in U : y \in Ids(d) /\ y # v /\ y # p /\ y # n
    BY <1>1, <2>1, <2>3
  <2>5. \A y \in U : NextOf(e, y) = NextOf(d, y) /\ PrevOf(e, y) = PrevOf(d, y)
    BY <1>3, <2>4
  <2>6. Whole(e, u) = U
    BY <1>3, <2>1, <2>5, WholeUntouched DEF U
  <2> QED BY <1>8, <2>1, <2>6 DEF U
<1>9. ListsOf(e) = (ListsOf(d) \ {V}) \cup ({V \ {v}} \ {{}}) \cup {{v}}
  <2> DEFINE R == (ListsOf(d) \ {V}) \cup ({V \ {v}} \ {{}}) \cup {{v}}
  <2>1. ASSUME NEW u \in Ids(d) PROVE Whole(e, u) \in R
    <3>1. CASE u = v
      BY <1>6, <3>1
    <3>2. CASE u \in V \ {v}
      BY <1>7, <3>2
    <3>3. CASE u \notin V
      BY <1>8, <3>3 DEF ListsOf
    <3> QED BY <3>1, <3>2, <3>3
  <2>2. ListsOf(e) \subseteq R
    <3> HIDE DEF R
    <3> QED BY <1>3, <2>1 DEF ListsOf
  <2>3. {v} \in ListsOf(e)
    BY <1>3, <1>6 DEF ListsOf
  <2>4. {V \ {v}} \ {{}} \subseteq ListsOf(e)
    <3>1. ASSUME NEW u \in V \ {v} PROVE V \ {v} \in ListsOf(e)
      BY <1>1, <1>3, <1>7, <3>1 DEF ListsOf
    <3> QED BY <3>1
  <2>5. ListsOf(d) \ {V} \subseteq ListsOf(e)
    <3>1. ASSUME NEW u \in Ids(d), Whole(d, u) # V
          PROVE  Whole(d, u) \in ListsOf(e)
      <4>1. u \notin V
        BY <1>5, <3>1
      <4> QED BY <1>3, <1>8, <4>1 DEF ListsOf
    <3> QED BY <3>1 DEF ListsOf
  <2> QED BY <2>2, <2>3, <2>4, <2>5
<1>10. DataOf(e) = DataOf(d)
  BY <1>3 DEF DataOf
<1>11. PrevOf(e, v) = NULL_SLOT /\ NextOf(e, v) = NULL_SLOT
  BY <1>3
<1> QED BY <1>3, <1>9, <1>10, <1>11 DEF e, V, ListsWithout

LEMMA DelLists ==
  ASSUME NEW d, Linked(d), NEW v \in Ids(d)
  PROVE  LET e == DelOne(DelinkNode(d, v), v)
         IN  /\ Linked(e) /\ Ids(e) = Ids(d) \ {v}
             /\ DataOf(e) = [w \in Ids(d) \ {v} |-> DataOf(d)[w]]
             /\ ListsOf(e) = ListsWithout(d, v)
<1> DEFINE m == DelinkNode(d, v)
           e == DelOne(m, v)
<1>1. /\ Linked(m) /\ Ids(m) = Ids(d) /\ DataOf(m) = DataOf(d)
      /\ PrevOf(m, v) = NULL_SLOT /\ NextOf(m, v) = NULL_SLOT
      /\ ListsOf(m) = ListsWithout(d, v) \cup {{v}}
  BY DelinkLists
<1> HIDE DEF m
<1>2. /\ Linked(e) /\ Ids(e) = Ids(d) \ {v}
      /\ \A u \in Ids(e) : At(e, u) = At(m, u)
  BY <1>1, DelKeepsLinks
<1> HIDE DEF e
<1>3. DataOf(e) = [w \in Ids(d) \ {v} |-> DataOf(d)[w]]
  <2>1. \A w \in Ids(d) : DataOf(d)[w] = DataOf(m)[w]
    BY <1>1
  <2>2. \A w \in Ids(d) : DataOf(m)[w] = At(m, w).data
    BY <1>1 DEF DataOf
  <2> QED BY <1>2, <2>1, <2>2 DEF DataOf
<1>4. ASSUME NEW u \in Ids(d) \ {v}
      PROVE  Whole(e, u) = Whole(m, u) /\ Whole(m, u) # {v}
  <2>1. u \in Whole(m, u) /\ Whole(m, u) \subseteq Ids(d)
    BY <1>1, WholeIs
  <2>2. Whole(m, v) = {v}
    BY <1>1, AloneIs
  <2>3. v \notin Whole(m, u)
    BY <1>1, <2>1, <2>2, WholeSame
  <2>4. \A x \in Whole(m, u) : x \in Ids(e)
    BY <1>2, <2>1, <2>3
  <2>5. \A x \in Whole(m, u) : /\ NextOf(e, x) = NextOf(m, x)
                               /\ PrevOf(e, x) = PrevOf(m, x)
    BY <1>2, <2>4 DEF PrevOf, NextOf
  <2>6. Whole(e, u) = Whole(m, u)
    BY <1>1, <1>2, <2>4, <2>5, WholeUntouched
  <2> QED BY <2>1, <2>6
<1>5. ListsOf(e) = ListsOf(m) \ {{v}}
  <2>1. Whole(m, v) = {v}
    BY <1>1, AloneIs
  <2> QED BY <1>1, <1>2, <1>4, <2>1 DEF ListsOf
<1>6. {v} \notin ListsWithout(d, v)
  <2>1. ASSUME NEW u \in Ids(d), Whole(d, u) = {v}, Whole(d, u) # Whole(d, v)
        PROVE  FALSE
    BY <2>1, WholeSame
  <2> QED BY <2>1 DEF ListsWithout, ListsOf
<1> QED BY <1>1, <1>2, <1>3, <1>5, <1>6 DEF e, m

-----------------------------------------------------------------------------
(* The invariant and the properties *)

LinksInv == Linked(dll)

LEMMA InitLinked == ASSUME ListInit PROVE LinksInv /\ Ids(dll) = {}
<1>1. /\ dll.length = 4 /\ dll.alloced = 0 /\ dll.tail = 0
      /\ dll.item = [i \in 0..3 |-> Empty]
      /\ dll = [item |-> dll.item, alloced |-> dll.alloced,
                length |-> dll.length, tail |-> dll.tail]
  BY DEF ListInit, EmptyArr
<1>2. Occupied(dll) = {}
  BY <1>1 DEF Occupied
<1>3. Slotted(dll, Node)
  <2>1. Cardinality(Occupied(dll)) = 0
    BY <1>2, FS_EmptySet
  <2>2. dll.item \in [0..(dll.length - 1) -> Node \cup {Empty}]
    BY <1>1
  <2> HIDE DEF Occupied
  <2> QED BY <1>1, <2>1, <2>2 DEF Slotted
<1>4. Ids(dll) = {}
  BY <1>2 DEF Ids
<1> QED BY <1>3, <1>4 DEF LinksInv, Linked, TwoWay, NoRing

LEMMA NextKeepsLinks == ASSUME LinksInv, [ListNext]_listVars PROVE LinksInv'
<1>1. Linked(dll)
  BY DEF LinksInv
<1>2. ASSUME NEW x \in Data, Add(x) PROVE Linked(dll')
  BY <1>1, <1>2, AddKeepsLinks DEF Add
<1>3. ASSUME NEW v \in Nodes, NEW x \in Data, Update(v, x) PROVE Linked(dll')
  BY <1>1, <1>3, UpdateLists DEF Update, Nodes
<1>4. ASSUME NEW v \in Nodes, NEW x \in Data, UpdateList(v, x) PROVE Linked(dll')
  BY <1>1, <1>4, ForeachLists DEF UpdateList, Nodes
<1>5. ASSUME NEW v \in Nodes, NEW w \in Nodes, Link(v, w) PROVE Linked(dll')
  BY <1>1, <1>5, LinkKeeps DEF Link, Nodes
<1>6. ASSUME NEW v \in Nodes, Delink(v) PROVE Linked(dll')
  BY <1>1, <1>6, DelinkKeeps DEF Delink, Nodes
<1>7. ASSUME NEW v \in Nodes, Del(v) PROVE Linked(dll')
  BY <1>1, <1>7, DelLists DEF Del, Nodes
<1>8. ASSUME UNCHANGED listVars PROVE Linked(dll')
  <2>1. dll' = dll
    BY <1>8 DEF listVars
  <2> QED BY <1>1, <2>1
<1> QED BY <1>2, <1>3, <1>4, <1>5, <1>6, <1>7, <1>8 DEF ListNext, LinksInv

THEOREM LinksHold == ListSpec => []LinksInv
<1>1. ListInit => LinksInv
  BY InitLinked
<1>2. LinksInv /\ [ListNext]_listVars => LinksInv'
  BY NextKeepsLinks
<1> QED BY <1>1, <1>2, PTL DEF ListSpec

(***************************************************************************)
(* The count of items is right, and two slots are empty, whatever was      *)
(* deleted and wherever tail stands: the loop of DynamicArr__alloc ends.   *)
(***************************************************************************)
THEOREM CountHolds == ListSpec => []SlotsCounted
<1>1. LinksInv => SlotsCounted
  <2> SUFFICES ASSUME Linked(dll) PROVE SlotsCounted
    BY DEF LinksInv
  <2>1. Slotted(dll, Node) /\ TwoWay(dll)
    BY DEF Linked
  <2>2. /\ dll.length \in Nat \ {0} /\ dll.alloced \in Nat
        /\ dll.alloced = Cardinality(Occupied(dll)) /\ dll.alloced <= dll.length - 2
        /\ dll.item \in [0..(dll.length - 1) -> Node \cup {Empty}]
        /\ dll.tail \in 0..(dll.length - 1)
        /\ dll = [item |-> dll.item, alloced |-> dll.alloced,
                  length |-> dll.length, tail |-> dll.tail]
    BY <2>1 DEF Slotted
  <2>3. dll \in [item : [0..(dll.length - 1) -> Node \cup {Empty}],
                 alloced : Nat, length : Nat, tail : 0..(dll.length - 1)]
    BY <2>2
  <2>4. \A v \in Nodes : {PrevOf(dll, v), NextOf(dll, v)} \subseteq 0..dll.length
    <3>1. Ids(dll) \subseteq 1..dll.length /\ dll.length \in Nat
      BY <2>1, IdsAre
    <3> QED BY <2>1, <3>1 DEF TwoWay, Nodes, NULL_SLOT
  <2>5. ListTypeOK
    BY <2>2, <2>3, <2>4 DEF ListTypeOK
  <2> QED BY <2>2, <2>5 DEF SlotsCounted
<1> QED BY LinksHold, <1>1, PTL

(***************************************************************************)
(* Neighbours name each other, no node names one that was deleted, and the *)
(* loops of getRoot and foreach terminate.                                 *)
(***************************************************************************)
THEOREM WellFormedHolds == ListSpec => []ListsWellFormed
<1>1. LinksInv => ListsWellFormed
  <2> SUFFICES ASSUME Linked(dll), NEW v \in Ids(dll)
               PROVE  /\ NextOf(dll, v) # NULL_SLOT =>
                           /\ NextOf(dll, v) \in Ids(dll)
                           /\ PrevOf(dll, NextOf(dll, v)) = v
                      /\ PrevOf(dll, v) # NULL_SLOT =>
                           /\ PrevOf(dll, v) \in Ids(dll)
                           /\ NextOf(dll, PrevOf(dll, v)) = v
                      /\ Back(dll, v)[dll.alloced] = NULL_SLOT
                      /\ Forth(dll, v)[dll.alloced] = NULL_SLOT
    BY DEF LinksInv, ListsWellFormed, Nodes
  <2>1. TwoWay(dll)
    BY DEF Linked
  <2> DEFINE S == Ids(dll)
  <2>2. /\ S \subseteq Ids(dll) /\ v \in S \cup {NULL_SLOT}
        /\ \A x \in S : NextOf(dll, x) \in S \cup {NULL_SLOT}
        /\ \A x \in S : PrevOf(dll, x) \in S \cup {NULL_SLOT}
    BY <2>1 DEF TwoWay
  <2> HIDE DEF S
  <2>3. Forth(dll, v)[dll.alloced] = NULL_SLOT
    BY <2>2, ForthIs
  <2>4. Back(dll, v)[dll.alloced] = NULL_SLOT
    BY <2>2, BackIs
  <2> QED BY <2>1, <2>3, <2>4 DEF TwoWay
<1> QED BY LinksHold, <1>1, PTL

(***************************************************************************)
(* DoubleLinkList__delink answers 0 for the last node of a list, and       *)
(* otherwise a node that stays on it.                                      *)
(***************************************************************************)
THEOREM CandidateHolds == ListSpec => []CandidateStays
<1>1. LinksInv => CandidateStays
  <2> SUFFICES ASSUME Linked(dll), NEW v \in Ids(dll)
               PROVE  IF ListOf(v) = {v}
                      THEN Candidate(dll, v) = NULL_SLOT
                      ELSE Candidate(dll, v) \in ListOf(v) \ {v}
    BY DEF LinksInv, CandidateStays, Nodes
  <2>1. ListOf(v) = Whole(dll, v)
    BY ListIs DEF ListOf
  <2>2. /\ PrevOf(dll, v) \in Whole(dll, v) \cup {NULL_SLOT}
        /\ NextOf(dll, v) \in Whole(dll, v) \cup {NULL_SLOT}
    BY WholeIs DEF Closed
  <2> QED BY <2>1, <2>2, AloneIs DEF Candidate
<1> QED BY LinksHold, <1>1, PTL

-----------------------------------------------------------------------------
(* The lists are those of PageLists *)

\* What the abstract variables stand for.
LEMMA MapIs ==
  ASSUME LinksInv
  PROVE  /\ {Visited(dll, v) : v \in Roots} = ListsOf(dll)
         /\ [v \in Nodes |-> At(dll, v).data] = DataOf(dll)
BY ListSet DEF LinksInv, Roots, Nodes, DataOf

LEMMA MapIsNext ==
  ASSUME LinksInv'
  PROVE  /\ {Visited(dll, v) : v \in Roots}' = ListsOf(dll')
         /\ [v \in Nodes |-> At(dll, v).data]' = DataOf(dll')
<1>1. Linked(dll')
  BY DEF LinksInv
<1> QED BY <1>1, ListSet DEF Roots, Nodes, DataOf

LEMMA InitMapsLists == ListInit => Lists!Init
<1> SUFFICES ASSUME ListInit PROVE Lists!Init
  OBVIOUS
<1>1. Nodes = {}
  BY InitLinked DEF Nodes
<1> QED BY <1>1 DEF Lists!Init, Roots

LEMMA NextMapsLists ==
  ASSUME LinksInv, [ListNext]_listVars
  PROVE  [Lists!Next]_(Lists!vars)
<1>1. Linked(dll) /\ LinksInv'
  BY NextKeepsLinks DEF LinksInv
<1> DEFINE ls == {Visited(dll, v) : v \in Roots}
           da == [v \in Nodes |-> At(dll, v).data]
<1>2. ls = ListsOf(dll) /\ da = DataOf(dll)
  BY MapIs
<1>3. ls' = ListsOf(dll') /\ da' = DataOf(dll')
  BY <1>1, MapIsNext
<1>4. Lists!Live = Ids(dll) /\ Lists!Live' = Ids(dll')
  BY DEF Lists!Live, Nodes
<1>5. \A v \in Ids(dll) : Lists!ListOf(v) = Whole(dll, v)
  BY <1>1, <1>2, TheList DEF Lists!ListOf
<1>6. \A v \in Ids(dll) : Lists!Without(v) = ListsWithout(dll, v)
  BY <1>2, <1>5 DEF Lists!Without, ListsWithout
<1> HIDE DEF ls, da
<1>7. ASSUME NEW x \in Data, Add(x) PROVE Lists!Next
  <2> DEFINE id == AddOne(dll, NewNode(x)).id
             e  == AddOne(dll, NewNode(x)).arr
  <2>1. dll' = e
    BY <1>7 DEF Add
  <2>2. /\ Ids(e) = Ids(dll) \cup {id} /\ id \notin Ids(dll)
        /\ ListsOf(e) = ListsOf(dll) \cup {{id}}
        /\ DataOf(e) = [w \in Ids(dll) \cup {id} |->
                          IF w = id THEN x ELSE DataOf(dll)[w]]
    BY <1>1, AddLists
  <2> HIDE DEF id, e
  <2>3. Lists!Add(id, x)
    BY <1>2, <1>3, <1>4, <2>1, <2>2 DEF Lists!Add, ls, da
  <2>4. id \in Lists!Live' \ Lists!Live
    BY <1>4, <2>1, <2>2
  <2> QED BY <2>3, <2>4 DEF Lists!Next
<1>8. ASSUME NEW v \in Ids(dll), NEW x \in Data, Update(v, x) PROVE Lists!Next
  <2>1. ListsOf(dll') = ListsOf(dll) /\ DataOf(dll') = [DataOf(dll) EXCEPT ![v] = x]
    BY <1>1, <1>8, UpdateLists DEF Update
  <2>2. Lists!Set(v, x)
    BY <1>2, <1>3, <2>1 DEF Lists!Set, ls, da
  <2> QED BY <1>4, <2>2 DEF Lists!Next
<1>9. ASSUME NEW v \in Ids(dll), NEW x \in Data, UpdateList(v, x) PROVE Lists!Next
  <2>1. /\ ListsOf(dll') = ListsOf(dll)
        /\ DataOf(dll') = [w \in Ids(dll) |-> IF w \in Whole(dll, v) THEN x
                                              ELSE DataOf(dll)[w]]
    BY <1>1, <1>9, ForeachLists DEF UpdateList
  <2>2. Lists!SetList(v, x)
    BY <1>2, <1>3, <1>4, <1>5, <2>1 DEF Lists!SetList, ls, da
  <2> QED BY <1>4, <2>2 DEF Lists!Next
<1>10. ASSUME NEW v \in Ids(dll), NEW w \in Ids(dll), Link(v, w) PROVE Lists!Next
  <2>1. /\ v # w /\ PrevOf(dll, w) = NULL_SLOT /\ NextOf(dll, w) = NULL_SLOT
        /\ dll' = LinkNodes(dll, v, w)
    BY <1>10 DEF Link
  <2>2. /\ DataOf(dll') = DataOf(dll) /\ {w} \in ListsOf(dll)
        /\ ListsOf(dll') = (ListsOf(dll) \ {Whole(dll, v), {w}})
                             \cup {Whole(dll, v) \cup {w}}
    BY <1>1, <2>1, LinkLists
  <2>3. Lists!Join(v, w)
    BY <1>2, <1>3, <1>5, <2>1, <2>2 DEF Lists!Join, ls, da
  <2> QED BY <1>4, <2>3 DEF Lists!Next
<1>11. ASSUME NEW v \in Ids(dll), Delink(v) PROVE Lists!Next
  <2>1. DataOf(dll') = DataOf(dll) /\ ListsOf(dll') = ListsWithout(dll, v) \cup {{v}}
    BY <1>1, <1>11, DelinkLists DEF Delink
  <2>2. Lists!Leave(v)
    BY <1>2, <1>3, <1>6, <2>1 DEF Lists!Leave, ls, da
  <2> QED BY <1>4, <2>2 DEF Lists!Next
<1>12. ASSUME NEW v \in Ids(dll), Del(v) PROVE Lists!Next
  <2>1. /\ DataOf(dll') = [w \in Ids(dll) \ {v} |-> DataOf(dll)[w]]
        /\ ListsOf(dll') = ListsWithout(dll, v)
    BY <1>1, <1>12, DelLists DEF Del
  <2>2. Lists!Remove(v)
    BY <1>2, <1>3, <1>4, <1>6, <2>1 DEF Lists!Remove, ls, da
  <2> QED BY <1>4, <2>2 DEF Lists!Next
<1>13. ASSUME UNCHANGED listVars PROVE UNCHANGED Lists!vars
  <2>1. dll' = dll
    BY <1>13 DEF listVars
  <2> QED BY <1>2, <1>3, <2>1 DEF Lists!vars, ls, da
<1> QED BY <1>7, <1>8, <1>9, <1>10, <1>11, <1>12, <1>13 DEF ListNext, Nodes

(***************************************************************************)
(* The linked nodes are disjoint lists that a node joins and leaves whole, *)
(* and every one of which foreach, started at the root of any node on it,  *)
(* updates entirely: they are the lists of PageLists.                      *)
(***************************************************************************)
THEOREM ImplementsLists == ListSpec => ImplementsPageLists
<1>1. LinksInv /\ [ListNext]_listVars => [Lists!Next]_(Lists!vars)
  BY NextMapsLists
<1> QED BY LinksHold, InitMapsLists, <1>1, PTL DEF ListSpec, ImplementsPageLists, Lists!Spec
-----------------------------------------------------------------------------
(* Module AddressSpace: the tables *)

Table == [Slot -> Nat \cup PageId]

\* Tables us are ts but for entry i of table t, which is x.
IsSet(us, ts, t, i, x) ==
  /\ us \in Seq(Table) /\ Len(us) = Len(ts) /\ us[t][i] = x
  /\ \A u \in 1..Len(ts), j \in Slot : u # t \/ j # i => us[u][j] = ts[u][j]

LEMMA WithEntryIs ==
  ASSUME NEW ts \in Seq(Table), NEW t \in 1..Len(ts), NEW i \in Slot,
         NEW x \in Nat \cup PageId
  PROVE  IsSet(WithEntry(ts, t, i, x), ts, t, i, x)
<1> DEFINE row == [ts[t] EXCEPT ![i] = x]
           us  == [ts EXCEPT ![t] = row]
<1>1. WithEntry(ts, t, i, x) = us
  BY DEF WithEntry
<1>2. ts[t] \in Table
  OBVIOUS
<1>3. /\ row \in Table /\ row[i] = x
      /\ \A j \in Slot : j # i => row[j] = ts[t][j]
  BY <1>2 DEF Table
<1> HIDE DEF row
<1>4. /\ us \in Seq(Table) /\ Len(us) = Len(ts) /\ us[t] = row
      /\ \A u \in 1..Len(ts) : u # t => us[u] = ts[u]
  BY <1>3
<1> HIDE DEF us
<1> QED BY <1>1, <1>3, <1>4 DEF IsSet

\* A new table behind the others.
LEMMA AppendedIs ==
  ASSUME NEW ts \in Seq(Table)
  PROVE  LET us == Append(ts, EmptyTable)
         IN  /\ us \in Seq(Table) /\ Len(us) = Len(ts) + 1
             /\ \A u \in 1..Len(ts) : us[u] = ts[u]
             /\ \A j \in Slot : us[Len(ts) + 1][j] = 0
<1>1. EmptyTable \in Table
  BY DEF EmptyTable, Table
<1>2. \A j \in Slot : EmptyTable[j] = 0
  BY DEF EmptyTable
<1> HIDE DEF EmptyTable
<1> QED BY <1>1, <1>2

(***************************************************************************)
(* The tables with a level for each: the root is on level 0; an entry of   *)
(* the last level is a page, and an entry of another a table behind it on  *)
(* the next; every table but the root is an entry, and of one table only.  *)
(***************************************************************************)
Tree(ts, lev) ==
  /\ ts \in Seq(Table) /\ Len(ts) \in Nat /\ Len(ts) >= 1
  /\ lev \in [1..Len(ts) -> Depth] /\ lev[1] = 0
  /\ \A t \in 1..Len(ts), i \in Slot :
       IF lev[t] = 3 THEN ts[t][i] \in PageId \cup {0}
       ELSE \/ ts[t][i] = 0
            \/ /\ ts[t][i] \in 1..Len(ts) /\ t < ts[t][i]
               /\ lev[ts[t][i]] = lev[t] + 1
  /\ \A t, u \in 1..Len(ts), i, j \in Slot :
       ts[t][i] = ts[u][j] /\ ts[t][i] \in Nat \ {0} => t = u /\ i = j
  /\ \A t \in 2..Len(ts) : \E u \in 1..Len(ts), i \in Slot : ts[u][i] = t

IsTree(ts) == \E lev : Tree(ts, lev)

\* Tables us have those of ts among them, and new ones where there were none.
Prolongs(us, ts) ==
  /\ Len(ts) <= Len(us)
  /\ \A t \in 1..Len(ts), i \in Slot :
       \/ us[t][i] = ts[t][i]
       \/ ts[t][i] = 0 /\ us[t][i] \in (Len(ts) + 1)..Len(us)
  /\ \A t \in (Len(ts) + 1)..Len(us), i \in Slot :
       us[t][i] \in {0} \cup (Len(ts) + 1)..Len(us)

LEMMA Entry0 == Slot # {} /\ 0 \notin PageId /\ PageId \cap Nat = {}
<1>1. 0 \in Slot
  BY SpaceAssumption DEF Slot
<1> QED BY <1>1, SpaceAssumption

\* A level down, by entry i of table t, one comes to table w.at of w.tables.
Down(w, ts, lev, t, i) ==
  /\ w = [tables |-> w.tables, at |-> w.at]
  /\ Prolongs(w.tables, ts) /\ w.at \in 1..Len(w.tables)
  /\ w.tables[t][i] = w.at
  /\ \E l : /\ Tree(w.tables, l) /\ l[w.at] = lev[t] + 1
            /\ \A u \in 1..Len(ts) : l[u] = lev[u]

\* It is an entry that is there, or a new table.
LEMMA DeeperKeeps ==
  ASSUME NEW ts, NEW lev, Tree(ts, lev), NEW t \in 1..Len(ts), lev[t] < 3,
         NEW i \in Slot
  PROVE  Down(Deeper([tables |-> ts, at |-> t], i), ts, lev, t, i)
<1> DEFINE w == Deeper([tables |-> ts, at |-> t], i)
           n == Len(ts)
           new == n + 1
<1>1. /\ ts \in Seq(Table) /\ n \in Nat /\ n >= 1
      /\ lev \in [1..n -> Depth] /\ lev[1] = 0
  BY DEF Tree
<1>2. CASE ts[t][i] # 0
  <2>1. w = [tables |-> ts, at |-> ts[t][i]]
    BY <1>2 DEF Deeper
  <2>2. w.tables = ts /\ w.at = ts[t][i]
    BY <2>1
  <2>3. ts[t][i] \in 1..n /\ lev[ts[t][i]] = lev[t] + 1
    BY <1>2 DEF Tree
  <2>4. Prolongs(ts, ts)
    BY <1>1 DEF Prolongs
  <2>5. w = [tables |-> w.tables, at |-> w.at]
    BY <2>1, <2>2
  <2> HIDE DEF w
  <2>6. Down(w, ts, lev, t, i)
    BY <2>2, <2>3, <2>4, <2>5 DEF Down
  <2> QED BY <2>6 DEF w
<1>3. CASE ts[t][i] = 0
  <2> DEFINE xs == WithEntry(ts, t, i, new)
             us == Append(xs, EmptyTable)
             l  == [u \in 1..new |-> IF u = new THEN lev[t] + 1 ELSE lev[u]]
  <2>1. w = [tables |-> us, at |-> new]
    BY <1>3 DEF Deeper
  <2>2. w.tables = us /\ w.at = new
    BY <2>1
  <2>3. new \in Nat /\ new \in Nat \cup PageId
    BY <1>1
  <2>4. /\ xs \in Seq(Table) /\ Len(xs) = n /\ xs[t][i] = new
        /\ \A u \in 1..n, j \in Slot : u # t \/ j # i => xs[u][j] = ts[u][j]
    <3>1. ts \in Seq(Table) /\ t \in 1..Len(ts) /\ i \in Slot
      BY <1>1
    <3>2. IsSet(xs, ts, t, i, new)
      <4> HIDE DEF new
      <4> QED BY <2>3, <3>1, WithEntryIs, Zenon
    <3> HIDE DEF xs, new
    <3> QED BY <3>2 DEF IsSet
  <2> HIDE DEF xs
  <2>5. /\ us \in Seq(Table) /\ Len(us) = new
        /\ \A u \in 1..n : us[u] = xs[u]
        /\ \A j \in Slot : us[new][j] = 0
    BY <2>4, AppendedIs
  <2> HIDE DEF us
  <2>6. /\ us[t][i] = new
        /\ \A u \in 1..n, j \in Slot : u # t \/ j # i => us[u][j] = ts[u][j]
    BY <2>4, <2>5
  <2>7. /\ l \in [1..new -> Depth] /\ l[new] = lev[t] + 1 /\ l[1] = 0
        /\ \A u \in 1..n : l[u] = lev[u]
    <3>1. lev[t] + 1 \in Depth
      BY <1>1 DEF Depth
    <3>2. \A u \in 1..n : lev[u] \in Depth /\ u \in 1..new /\ u # new
      BY <1>1
    <3>3. \A u \in 1..new : u # new => u \in 1..n
      BY <1>1
    <3> QED BY <1>1, <3>1, <3>2, <3>3
  <2> HIDE DEF l
  <2>8. Prolongs(us, ts)
    <3>1. n <= Len(us) /\ \A u \in (n + 1)..Len(us) : u = new
      BY <1>1, <2>5
    <3>2. \A u \in 1..n, j \in Slot :
            us[u][j] = ts[u][j] \/ (ts[u][j] = 0 /\ us[u][j] \in (n + 1)..Len(us))
      BY <1>1, <1>3, <2>5, <2>6
    <3> QED BY <2>5, <3>1, <3>2 DEF Prolongs
  <2>9. Tree(us, l)
    <3>1. Len(us) \in Nat /\ Len(us) >= 1 /\ \A u \in 1..Len(us) : u # new => u \in 1..n
      BY <1>1, <2>5
    <3>2. ASSUME NEW u \in 1..Len(us), NEW j \in Slot
          PROVE  IF l[u] = 3 THEN us[u][j] \in PageId \cup {0}
                 ELSE \/ us[u][j] = 0
                      \/ /\ us[u][j] \in 1..Len(us) /\ u < us[u][j]
                         /\ l[us[u][j]] = l[u] + 1
      <4>1. CASE u = new
        BY <2>5, <4>1
      <4>2. CASE u = t /\ j = i
        <5>1. new \in 1..Len(us) /\ u < new /\ l[u] # 3
          BY <1>1, <2>5, <2>7, <4>2 DEF Depth
        <5> QED BY <2>6, <2>7, <4>2, <5>1
      <4>3. CASE u # new /\ (u # t \/ j # i)
        <5>1. u \in 1..n /\ us[u][j] = ts[u][j] /\ l[u] = lev[u]
          BY <2>6, <2>7, <3>1, <4>3
        <5>2. IF lev[u] = 3 THEN ts[u][j] \in PageId \cup {0}
              ELSE \/ ts[u][j] = 0
                   \/ /\ ts[u][j] \in 1..n /\ u < ts[u][j]
                      /\ lev[ts[u][j]] = lev[u] + 1
          BY <5>1 DEF Tree
        <5>3. ts[u][j] \in 1..n => ts[u][j] \in 1..Len(us) /\ l[ts[u][j]] = lev[ts[u][j]]
          BY <1>1, <2>5, <2>7
        <5> QED BY <5>1, <5>2, <5>3
      <4> QED BY <4>1, <4>2, <4>3
    <3>3. ASSUME NEW u \in 1..n, NEW j \in Slot
          PROVE  ts[u][j] # new
      <4>1. ts[u][j] \in PageId \cup {0} \/ ts[u][j] = 0 \/ ts[u][j] \in 1..n
        BY DEF Tree
      <4> QED BY <1>1, <4>1, Entry0
    <3>4. ASSUME NEW u \in 1..Len(us), NEW j \in Slot, NEW x \in 1..Len(us),
                 NEW k \in Slot, us[u][j] = us[x][k], us[u][j] \in Nat \ {0}
          PROVE  u = x /\ j = k
      <4>1. u # new /\ x # new
        BY <2>5, <3>4
      <4>2. u \in 1..n /\ x \in 1..n
        BY <3>1, <4>1
      <4>3. CASE u = t /\ j = i
        BY <2>6, <3>3, <3>4, <4>2, <4>3
      <4>4. CASE x = t /\ k = i
        BY <2>6, <3>3, <3>4, <4>2, <4>4
      <4>5. CASE (u # t \/ j # i) /\ (x # t \/ k # i)
        <5>1. us[u][j] = ts[u][j] /\ us[x][k] = ts[x][k]
          BY <2>6, <4>2, <4>5
        <5>2. \A a, b \in 1..n, c, d \in Slot :
                ts[a][c] = ts[b][d] /\ ts[a][c] \in Nat \ {0} => a = b /\ c = d
          BY DEF Tree
        <5>3. ts[u][j] = ts[x][k] /\ ts[u][j] \in Nat \ {0}
          BY <3>4, <5>1
        <5> QED BY <4>2, <5>2, <5>3
      <4> QED BY <4>3, <4>4, <4>5
    <3>5. ASSUME NEW x \in 2..Len(us)
          PROVE  \E u \in 1..Len(us), j \in Slot : us[u][j] = x
      <4>1. CASE x = new
        <5>1. t \in 1..Len(us)
          BY <1>1, <2>5
        <5> QED BY <2>6, <4>1, <5>1
      <4>2. CASE x # new
        <5>1. x \in 2..n
          BY <1>1, <2>5, <4>2
        <5>2. PICK u \in 1..n, j \in Slot : ts[u][j] = x
          BY <5>1 DEF Tree
        <5>3. u # t \/ j # i
          BY <1>1, <1>3, <5>1, <5>2
        <5>4. u \in 1..Len(us) /\ us[u][j] = x
          BY <1>1, <2>5, <2>6, <5>2, <5>3
        <5> QED BY <5>4
      <4> QED BY <4>1, <4>2
    <3>6. l \in [1..Len(us) -> Depth] /\ l[1] = 0
      BY <2>5, <2>7
    <3>7. \A u, x \in 1..Len(us), j, k \in Slot :
            us[u][j] = us[x][k] /\ us[u][j] \in Nat \ {0} => u = x /\ j = k
      BY <3>4
    <3> QED BY <2>5, <3>1, <3>2, <3>5, <3>6, <3>7 DEF Tree
  <2>10. w.at \in 1..Len(w.tables)
    BY <1>1, <2>2, <2>5
  <2>11. w.tables[t][i] = w.at
    BY <2>2, <2>6
  <2>12. /\ Prolongs(w.tables, ts) /\ Tree(w.tables, l)
         /\ l[w.at] = lev[t] + 1
    BY <2>2, <2>7, <2>8, <2>9
  <2>13. w = [tables |-> w.tables, at |-> w.at]
    BY <2>1, <2>2
  <2> HIDE DEF w
  <2>14. Down(w, ts, lev, t, i)
    BY <2>7, <2>10, <2>11, <2>12, <2>13, Zenon DEF Down
  <2> QED BY <2>14 DEF w
<1> QED BY <1>2, <1>3

LEMMA ProlongsOn ==
  ASSUME NEW ts, NEW us, NEW xs, Prolongs(us, ts), Prolongs(xs, us),
         Len(ts) \in Nat, Len(us) \in Nat, Len(xs) \in Nat
  PROVE  Prolongs(xs, ts)
<1>1. Len(ts) <= Len(us) /\ Len(us) <= Len(xs)
  BY DEF Prolongs
<1>2. ASSUME NEW t \in 1..Len(ts), NEW i \in Slot
      PROVE  \/ xs[t][i] = ts[t][i]
             \/ ts[t][i] = 0 /\ xs[t][i] \in (Len(ts) + 1)..Len(xs)
  <2>1. t \in 1..Len(us)
    BY <1>1
  <2>2. us[t][i] = ts[t][i] \/ (ts[t][i] = 0 /\ us[t][i] \in (Len(ts) + 1)..Len(us))
    BY DEF Prolongs
  <2>3. xs[t][i] = us[t][i] \/ (us[t][i] = 0 /\ xs[t][i] \in (Len(us) + 1)..Len(xs))
    BY <2>1 DEF Prolongs
  <2> QED BY <1>1, <2>2, <2>3
<1>3. ASSUME NEW t \in (Len(ts) + 1)..Len(xs), NEW i \in Slot
      PROVE  xs[t][i] \in {0} \cup (Len(ts) + 1)..Len(xs)
  <2>1. CASE t \in 1..Len(us)
    <3>1. us[t][i] \in {0} \cup (Len(ts) + 1)..Len(us)
      BY <2>1 DEF Prolongs
    <3>2. xs[t][i] = us[t][i] \/ (us[t][i] = 0 /\ xs[t][i] \in (Len(us) + 1)..Len(xs))
      BY <2>1 DEF Prolongs
    <3> QED BY <1>1, <3>1, <3>2
  <2>2. CASE t \in (Len(us) + 1)..Len(xs)
    <3>1. xs[t][i] \in {0} \cup (Len(us) + 1)..Len(xs)
      BY <2>2 DEF Prolongs
    <3> QED BY <1>1, <3>1
  <2> QED BY <1>1, <2>1, <2>2
<1> QED BY <1>1, <1>2, <1>3 DEF Prolongs

LEMMA BelowIs ==
  ASSUME NEW d \in Depth
  PROVE  Below(d) \in Nat /\ Below(d) > 0
<1>1. PAGE_SLOT \in Nat /\ PAGE_SLOT > 0
  BY SpaceAssumption
<1>2. PAGE_SLOT * PAGE_SLOT \in Nat /\ PAGE_SLOT * PAGE_SLOT > 0
  BY <1>1
<1>3. PAGE_SLOT * PAGE_SLOT * PAGE_SLOT \in Nat /\ PAGE_SLOT * PAGE_SLOT * PAGE_SLOT > 0
  <2> DEFINE x == PAGE_SLOT * PAGE_SLOT
  <2>1. x \in Nat /\ x > 0
    BY <1>2
  <2> HIDE DEF x
  <2>2. x * PAGE_SLOT \in Nat /\ x * PAGE_SLOT > 0
    BY <1>1, <2>1
  <2> QED BY <2>2 DEF x
<1> QED BY <1>1, <1>2, <1>3 DEF Below, Depth

LEMMA IndexIn ==
  ASSUME NEW v \in Nat, NEW d \in Depth
  PROVE  Index(v, d) \in Slot
<1>1. PAGE_SLOT \in Nat /\ PAGE_SLOT > 0 /\ PAGE \in Nat /\ PAGE > 0
  BY SpaceAssumption, AddressAssumption
<1> DEFINE m == PAGE * Below(d)
<1>2. m \in Nat /\ m > 0
  BY <1>1, BelowIs
<1> HIDE DEF m
<1>3. v \div m \in Int
  BY <1>2, QuotientAndRest
<1>4. (v \div m) % PAGE_SLOT \in 0..(PAGE_SLOT - 1)
  BY <1>1, <1>3, QuotientAndRest
<1> QED BY <1>4 DEF Index, Slot, m

\* The tables a, b and c are on the way to the entry for v.
OnWay(ts, lev, v, a, b, c) ==
  /\ a \in 1..Len(ts) /\ b \in 1..Len(ts) /\ c \in 1..Len(ts)
  /\ lev[a] = 1 /\ lev[b] = 2 /\ lev[c] = 3
  /\ ts[1][Index(v, 0)] = a /\ ts[a][Index(v, 1)] = b
  /\ ts[b][Index(v, 2)] = c

\* What the walk of both loops does to tables, and where it ends.
LEMMA WalkIs ==
  ASSUME NEW ts, IsTree(ts), NEW v \in Nat
  PROVE  LET w == Walk(ts, v)
         IN  /\ Prolongs(w.tables, ts)
             /\ \E lev, a, b : /\ Tree(w.tables, lev)
                               /\ OnWay(w.tables, lev, v, a, b, w.at)
<1> DEFINE one   == Deeper([tables |-> ts, at |-> 1], Index(v, 0))
           two   == Deeper(one, Index(v, 1))
           three == Deeper(two, Index(v, 2))
<1>1. Walk(ts, v) = three
  BY DEF Walk
<1>2. PICK l0 : Tree(ts, l0)
  BY DEF IsTree
<1>3. \A d \in Depth : Index(v, d) \in Slot
  BY IndexIn
<1>4. 0 \in Depth /\ 1 \in Depth /\ 2 \in Depth
  BY DEF Depth
<1>5. Len(ts) \in Nat /\ 1 \in 1..Len(ts) /\ l0[1] = 0
  BY <1>2 DEF Tree
<1>6. Down(one, ts, l0, 1, Index(v, 0))
  <2>1. l0[1] < 3
    BY <1>5
  <2> QED BY <1>2, <1>3, <1>4, <1>5, <2>1, DeeperKeeps
<1> HIDE DEF one
<1>7. PICK l1 : Tree(one.tables, l1) /\ l1[one.at] = 1 /\ l1[1] = 0
  BY <1>5, <1>6 DEF Down
<1>8. Len(one.tables) \in Nat /\ one.at \in 1..Len(one.tables)
  BY <1>6, <1>7 DEF Down, Tree
<1>9. Down(two, one.tables, l1, one.at, Index(v, 1))
  <2>1. l1[one.at] < 3 /\ one = [tables |-> one.tables, at |-> one.at]
    BY <1>6, <1>7 DEF Down
  <2>2. Down(Deeper([tables |-> one.tables, at |-> one.at], Index(v, 1)),
             one.tables, l1, one.at, Index(v, 1))
    BY <1>3, <1>4, <1>7, <1>8, <2>1, DeeperKeeps
  <2> QED BY <2>1, <2>2
<1> HIDE DEF two
<1>10. PICK l2 : /\ Tree(two.tables, l2) /\ l2[two.at] = 2
                 /\ l2[one.at] = 1 /\ l2[1] = 0
  <2>1. 1 \in 1..Len(one.tables)
    BY <1>8
  <2> QED BY <1>7, <1>8, <1>9, <2>1 DEF Down
<1>11. Len(two.tables) \in Nat /\ two.at \in 1..Len(two.tables)
  BY <1>9, <1>10 DEF Down, Tree
<1>12. Down(three, two.tables, l2, two.at, Index(v, 2))
  <2>1. l2[two.at] < 3 /\ two = [tables |-> two.tables, at |-> two.at]
    BY <1>9, <1>10 DEF Down
  <2>2. Down(Deeper([tables |-> two.tables, at |-> two.at], Index(v, 2)),
             two.tables, l2, two.at, Index(v, 2))
    BY <1>3, <1>4, <1>10, <1>11, <2>1, DeeperKeeps
  <2> QED BY <2>1, <2>2
<1> HIDE DEF three
<1>13. /\ Prolongs(one.tables, ts) /\ Prolongs(two.tables, one.tables)
       /\ Prolongs(three.tables, two.tables)
  BY <1>6, <1>9, <1>12 DEF Down
<1>14. /\ Len(ts) <= Len(one.tables) /\ Len(one.tables) <= Len(two.tables)
       /\ Len(two.tables) <= Len(three.tables)
  BY <1>13 DEF Prolongs
<1>15. PICK lev : /\ Tree(three.tables, lev) /\ lev[three.at] = 3
                  /\ lev[two.at] = 2 /\ lev[one.at] = 1
  <2>1. one.at \in 1..Len(two.tables)
    BY <1>8, <1>11, <1>14
  <2> QED BY <1>10, <1>11, <1>12, <2>1 DEF Down
<1>16. Len(three.tables) \in Nat /\ three.at \in 1..Len(three.tables)
  BY <1>12, <1>15 DEF Down, Tree
<1>17. Prolongs(three.tables, ts)
  <2>1. Prolongs(two.tables, ts)
    BY <1>5, <1>8, <1>11, <1>13, ProlongsOn
  <2> QED BY <1>5, <1>11, <1>13, <1>16, <2>1, ProlongsOn
<1>18. OnWay(three.tables, lev, v, one.at, two.at, three.at)
  <2>1. /\ one.tables[1][Index(v, 0)] = one.at
        /\ two.tables[one.at][Index(v, 1)] = two.at
        /\ three.tables[two.at][Index(v, 2)] = three.at
    BY <1>6, <1>9, <1>12 DEF Down
  <2>2. two.tables[1][Index(v, 0)] = one.at
    <3>1. 1 \in 1..Len(one.tables) /\ one.at # 0
      BY <1>8
    <3> QED BY <1>3, <1>4, <1>13, <2>1, <3>1 DEF Prolongs
  <2>3. three.tables[1][Index(v, 0)] = one.at
    <3>1. 1 \in 1..Len(two.tables) /\ one.at # 0
      BY <1>8, <1>11
    <3> QED BY <1>3, <1>4, <1>13, <2>2, <3>1 DEF Prolongs
  <2>4. three.tables[one.at][Index(v, 1)] = two.at
    <3>1. one.at \in 1..Len(two.tables) /\ two.at # 0
      BY <1>8, <1>11, <1>14
    <3> QED BY <1>3, <1>4, <1>13, <2>1, <3>1 DEF Prolongs
  <2>5. one.at \in 1..Len(three.tables) /\ two.at \in 1..Len(three.tables)
    BY <1>8, <1>11, <1>14, <1>16
  <2> QED BY <1>15, <1>16, <2>1, <2>3, <2>4, <2>5 DEF OnWay
<1> QED BY <1>1, <1>15, <1>17, <1>18

Entry(ts, t, i) == IF t = 0 THEN 0 ELSE ts[t][i]
First(ts, v)    == ts[1][Index(v, 0)]
Second(ts, v)   == Entry(ts, First(ts, v), Index(v, 1))
Third(ts, v)    == Entry(ts, Second(ts, v), Index(v, 2))

LEMMA PageInIs ==
  ASSUME NEW ts, NEW v
  PROVE  PageIn(ts, v) = Entry(ts, Third(ts, v), Index(v, 3))
BY DEF PageIn, Entry, First, Second, Third

\* No table, or one on level k.
OnLevel(ts, lev, t, k) == t = 0 \/ (t \in 1..Len(ts) /\ lev[t] = k)

LEMMA EntryKinds ==
  ASSUME NEW ts, NEW lev, Tree(ts, lev), NEW i \in Slot, NEW t,
         NEW k \in Depth, OnLevel(ts, lev, t, k)
  PROVE  /\ k # 3 => OnLevel(ts, lev, Entry(ts, t, i), k + 1)
         /\ k = 3 => Entry(ts, t, i) \in PageId \cup {0}
<1>1. CASE t = 0
  BY <1>1 DEF Entry, OnLevel
<1>2. CASE t # 0
  <2>1. t \in 1..Len(ts) /\ lev[t] = k /\ Entry(ts, t, i) = ts[t][i]
    BY <1>2 DEF Entry, OnLevel
  <2>2. IF lev[t] = 3 THEN ts[t][i] \in PageId \cup {0}
        ELSE \/ ts[t][i] = 0
             \/ /\ ts[t][i] \in 1..Len(ts) /\ t < ts[t][i]
                /\ lev[ts[t][i]] = lev[t] + 1
    BY <2>1 DEF Tree
  <2> QED BY <2>1, <2>2 DEF OnLevel
<1> QED BY <1>1, <1>2

LEMMA WayKinds ==
  ASSUME NEW ts, NEW lev, Tree(ts, lev), NEW v \in Nat
  PROVE  /\ OnLevel(ts, lev, First(ts, v), 1)
         /\ OnLevel(ts, lev, Second(ts, v), 2)
         /\ OnLevel(ts, lev, Third(ts, v), 3)
         /\ PageIn(ts, v) \in PageId \cup {0}
<1>1. \A d \in Depth : Index(v, d) \in Slot
  BY IndexIn
<1>2. 0 \in Depth /\ 1 \in Depth /\ 2 \in Depth /\ 3 \in Depth
  BY DEF Depth
<1>3. OnLevel(ts, lev, 1, 0)
  BY DEF Tree, OnLevel
<1>4. OnLevel(ts, lev, First(ts, v), 1)
  <2>1. First(ts, v) = Entry(ts, 1, Index(v, 0)) /\ Index(v, 0) \in Slot
    BY <1>1, <1>2 DEF First, Entry
  <2>2. OnLevel(ts, lev, Entry(ts, 1, Index(v, 0)), 0 + 1)
    BY <1>2, <1>3, <2>1, EntryKinds
  <2> QED BY <2>1, <2>2
<1>5. OnLevel(ts, lev, Second(ts, v), 2)
  <2>1. OnLevel(ts, lev, Entry(ts, First(ts, v), Index(v, 1)), 1 + 1)
    BY <1>1, <1>2, <1>4, EntryKinds
  <2> QED BY <2>1 DEF Second
<1>6. OnLevel(ts, lev, Third(ts, v), 3)
  <2>1. OnLevel(ts, lev, Entry(ts, Second(ts, v), Index(v, 2)), 2 + 1)
    BY <1>1, <1>2, <1>5, EntryKinds
  <2> QED BY <2>1 DEF Third
<1>7. PageIn(ts, v) \in PageId \cup {0}
  BY <1>1, <1>2, <1>6, EntryKinds, PageInIs
<1> QED BY <1>4, <1>5, <1>6, <1>7

\* New tables have no pages.
LEMMA ProlongedPages ==
  ASSUME NEW ts, NEW us, IsTree(ts), IsTree(us), Prolongs(us, ts), NEW v \in Nat
  PROVE  PageIn(us, v) = PageIn(ts, v)
<1> DEFINE Rel(x, y) == y = x \/ (x = 0 /\ y \in (Len(ts) + 1)..Len(us))
<1>1. PICK l0, l1 : Tree(ts, l0) /\ Tree(us, l1)
  BY DEF IsTree
<1>2. \A d \in Depth : Index(v, d) \in Slot
  BY IndexIn
<1>3. 0 \in Depth /\ 1 \in Depth /\ 2 \in Depth /\ 3 \in Depth
  BY DEF Depth
<1>4. Len(ts) \in Nat /\ Len(us) \in Nat /\ 1 \in 1..Len(ts)
  BY <1>1 DEF Tree
<1>5. ASSUME NEW x \in {0} \cup 1..Len(ts), NEW y, NEW i \in Slot, Rel(x, y)
      PROVE  Rel(Entry(ts, x, i), Entry(us, y, i))
  <2>1. CASE x # 0
    <3>1. x \in 1..Len(ts) /\ y = x
      BY <1>5, <2>1
    <3>2. Rel(ts[x][i], us[x][i])
      BY <3>1 DEF Prolongs
    <3> QED BY <2>1, <3>1, <3>2 DEF Entry
  <2>2. CASE x = 0 /\ y = 0
    BY <2>2 DEF Entry
  <2>3. CASE x = 0 /\ y # 0
    <3>1. y \in (Len(ts) + 1)..Len(us)
      BY <1>5, <2>3
    <3>2. us[y][i] \in {0} \cup (Len(ts) + 1)..Len(us)
      BY <3>1 DEF Prolongs
    <3> QED BY <2>3, <3>2 DEF Entry
  <2> QED BY <2>1, <2>2, <2>3
<1>6. /\ First(ts, v) \in {0} \cup 1..Len(ts)
      /\ Second(ts, v) \in {0} \cup 1..Len(ts)
      /\ Third(ts, v) \in {0} \cup 1..Len(ts)
      /\ PageIn(us, v) \in PageId \cup {0}
  BY <1>1, WayKinds DEF OnLevel
<1>7. Rel(First(ts, v), First(us, v))
  BY <1>2, <1>3, <1>4 DEF First, Prolongs
<1> HIDE DEF Rel
<1>8. Rel(Second(ts, v), Second(us, v))
  BY <1>2, <1>3, <1>5, <1>6, <1>7 DEF Second
<1>9. Rel(Third(ts, v), Third(us, v))
  BY <1>2, <1>3, <1>5, <1>6, <1>8 DEF Third
<1>10. Rel(PageIn(ts, v), PageIn(us, v))
  BY <1>2, <1>3, <1>5, <1>6, <1>9, PageInIs
<1>11. PageIn(us, v) \notin (Len(ts) + 1)..Len(us)
  BY <1>4, <1>6, Entry0
<1> QED BY <1>10, <1>11 DEF Rel

\* Addresses with the same way through the tables.
Alike(u, v) == \A d \in Depth : Index(u, d) = Index(v, d)

LEMMA OnWayIs ==
  ASSUME NEW ts, NEW lev, Tree(ts, lev), NEW v \in Nat, NEW a, NEW b, NEW c,
         OnWay(ts, lev, v, a, b, c)
  PROVE  /\ First(ts, v) = a /\ Second(ts, v) = b /\ Third(ts, v) = c
         /\ PageIn(ts, v) = ts[c][Index(v, 3)]
<1>1. Len(ts) \in Nat
  BY DEF Tree
<1>2. a # 0 /\ b # 0 /\ c # 0
  BY <1>1 DEF OnWay
<1>3. First(ts, v) = a /\ Second(ts, v) = b /\ Third(ts, v) = c
  BY <1>2 DEF OnWay, First, Second, Third, Entry
<1> QED BY <1>2, <1>3, PageInIs DEF Entry

\* Ways that come to the same table are the same.
LEMMA WaysApart ==
  ASSUME NEW ts, NEW lev, Tree(ts, lev), NEW v \in Nat, NEW a, NEW b, NEW c,
         OnWay(ts, lev, v, a, b, c), NEW u \in Nat, Third(ts, u) = c,
         Index(u, 3) = Index(v, 3)
  PROVE  Alike(u, v)
<1>1. \A d \in Depth : Index(v, d) \in Slot /\ Index(u, d) \in Slot
  BY IndexIn
<1>2. 0 \in Depth /\ 1 \in Depth /\ 2 \in Depth /\ 3 \in Depth
  BY DEF Depth
<1>3. Len(ts) \in Nat /\ 1 \in 1..Len(ts)
  BY DEF Tree
<1>4. /\ a \in 1..Len(ts) /\ b \in 1..Len(ts) /\ c \in 1..Len(ts)
      /\ ts[1][Index(v, 0)] = a /\ ts[a][Index(v, 1)] = b
      /\ ts[b][Index(v, 2)] = c
  BY DEF OnWay
<1>5. \A s, t \in 1..Len(ts), i, j \in Slot :
        ts[s][i] = ts[t][j] /\ ts[s][i] \in Nat \ {0} => s = t /\ i = j
  BY DEF Tree
<1>6. a \in Nat \ {0} /\ b \in Nat \ {0} /\ c \in Nat \ {0}
  BY <1>3, <1>4
<1>7. /\ First(ts, u) = 0 \/ First(ts, u) \in 1..Len(ts)
      /\ Second(ts, u) = 0 \/ Second(ts, u) \in 1..Len(ts)
  BY WayKinds DEF OnLevel
<1>8. Second(ts, u) = b /\ Index(u, 2) = Index(v, 2)
  <2>1. Second(ts, u) # 0 /\ ts[Second(ts, u)][Index(u, 2)] = c
    BY <1>6 DEF Third, Entry
  <2> QED BY <1>1, <1>2, <1>4, <1>5, <1>6, <1>7, <2>1
<1>9. First(ts, u) = a /\ Index(u, 1) = Index(v, 1)
  <2>1. First(ts, u) # 0 /\ ts[First(ts, u)][Index(u, 1)] = b
    BY <1>6, <1>8 DEF Second, Entry
  <2>2. /\ First(ts, u) \in 1..Len(ts) /\ Index(u, 1) \in Slot
        /\ Index(v, 1) \in Slot
        /\ ts[First(ts, u)][Index(u, 1)] = ts[a][Index(v, 1)]
        /\ ts[First(ts, u)][Index(u, 1)] \in Nat \ {0}
    BY <1>1, <1>2, <1>4, <1>6, <1>7, <2>1
  <2> QED BY <1>4, <1>5, <2>2
<1>10. Index(u, 0) = Index(v, 0)
  <2>1. ts[1][Index(u, 0)] = a
    BY <1>9 DEF First
  <2> QED BY <1>1, <1>2, <1>3, <1>4, <1>5, <1>6, <2>1
<1> QED BY <1>8, <1>9, <1>10 DEF Alike, Depth

\* Tables us have at v the page x (none if it is 0), and else what ts have.
MapsTo(us, ts, x, v) ==
  /\ IsTree(us)
  /\ \A u \in Nat : PageIn(us, u) = IF Alike(u, v) THEN x ELSE PageIn(ts, u)

LEMMA EntryMaps ==
  ASSUME NEW ts, NEW lev, Tree(ts, lev), NEW v \in Nat, NEW a, NEW b, NEW c,
         OnWay(ts, lev, v, a, b, c), NEW x \in PageId \cup {0}
  PROVE  MapsTo(WithEntry(ts, c, Index(v, 3), x), ts, x, v)
<1> DEFINE i  == Index(v, 3)
           us == WithEntry(ts, c, i, x)
<1>1. \A u \in Nat, d \in Depth : Index(u, d) \in Slot
  BY IndexIn
<1>2. 0 \in Depth /\ 1 \in Depth /\ 2 \in Depth /\ 3 \in Depth
  BY DEF Depth
<1>3. /\ ts \in Seq(Table) /\ Len(ts) \in Nat /\ 1 \in 1..Len(ts)
      /\ lev \in [1..Len(ts) -> Depth] /\ lev[1] = 0
  BY DEF Tree
<1>4. i \in Slot /\ c \in 1..Len(ts) /\ lev[c] = 3 /\ c # 0
  BY <1>1, <1>2, <1>3 DEF OnWay
<1>5. IsSet(us, ts, c, i, x)
  <2>1. x \in Nat \cup PageId
    OBVIOUS
  <2> HIDE DEF i
  <2> QED BY <1>3, <1>4, <2>1, WithEntryIs
<1> HIDE DEF us, i
<1>6. /\ us \in Seq(Table) /\ Len(us) = Len(ts) /\ us[c][i] = x
      /\ \A t \in 1..Len(ts), j \in Slot : t # c \/ j # i => us[t][j] = ts[t][j]
  BY <1>5 DEF IsSet
<1>7. ts[c][i] \in PageId \cup {0}
  BY <1>4 DEF Tree
<1>8. Tree(us, lev)
  <2>1. ASSUME NEW t \in 1..Len(us), NEW j \in Slot
        PROVE  IF lev[t] = 3 THEN us[t][j] \in PageId \cup {0}
               ELSE \/ us[t][j] = 0
                    \/ /\ us[t][j] \in 1..Len(us) /\ t < us[t][j]
                       /\ lev[us[t][j]] = lev[t] + 1
    <3>1. CASE t = c /\ j = i
      BY <1>4, <1>6, <3>1
    <3>2. CASE t # c \/ j # i
      <4>1. us[t][j] = ts[t][j] /\ t \in 1..Len(ts)
        BY <1>6, <3>2
      <4>2. IF lev[t] = 3 THEN ts[t][j] \in PageId \cup {0}
            ELSE \/ ts[t][j] = 0
                 \/ /\ ts[t][j] \in 1..Len(ts) /\ t < ts[t][j]
                    /\ lev[ts[t][j]] = lev[t] + 1
        BY <4>1 DEF Tree
      <4> QED BY <1>6, <4>1, <4>2
    <3> QED BY <3>1, <3>2
  <2>2. ASSUME NEW t \in 1..Len(us), NEW s \in 1..Len(us), NEW j \in Slot,
               NEW k \in Slot, us[t][j] = us[s][k], us[t][j] \in Nat \ {0}
        PROVE  t = s /\ j = k
    <3>1. x \notin Nat \ {0}
      BY Entry0
    <3>2. us[t][j] = ts[t][j] /\ us[s][k] = ts[s][k]
      BY <1>6, <2>2, <3>1
    <3>3. \A r, q \in 1..Len(ts), m, n \in Slot :
            ts[r][m] = ts[q][n] /\ ts[r][m] \in Nat \ {0} => r = q /\ m = n
      BY DEF Tree
    <3>4. /\ t \in 1..Len(ts) /\ s \in 1..Len(ts)
          /\ ts[t][j] = ts[s][k] /\ ts[t][j] \in Nat \ {0}
      BY <1>6, <2>2, <3>2
    <3> QED BY <3>3, <3>4
  <2>3. ASSUME NEW t \in 2..Len(us)
        PROVE  \E s \in 1..Len(us), j \in Slot : us[s][j] = t
    <3>1. PICK s \in 1..Len(ts), j \in Slot : ts[s][j] = t
      BY <1>6 DEF Tree
    <3>2. s # c \/ j # i
      BY <1>3, <1>6, <1>7, <3>1, Entry0
    <3> QED BY <1>6, <3>1, <3>2
  <2>4. \A t, s \in 1..Len(us), j, k \in Slot :
          us[t][j] = us[s][k] /\ us[t][j] \in Nat \ {0} => t = s /\ j = k
    BY <2>2
  <2> QED BY <1>3, <1>6, <2>1, <2>3, <2>4 DEF Tree
<1>9. ASSUME NEW u \in Nat
      PROVE  PageIn(us, u) = IF Alike(u, v) THEN x ELSE PageIn(ts, u)
  <2>1. /\ First(ts, u) = 0 \/ (First(ts, u) \in 1..Len(ts) /\ lev[First(ts, u)] = 1)
        /\ Second(ts, u) = 0 \/ (Second(ts, u) \in 1..Len(ts) /\ lev[Second(ts, u)] = 2)
        /\ Third(ts, u) = 0 \/ Third(ts, u) \in 1..Len(ts)
    BY WayKinds DEF OnLevel
  <2>2. First(us, u) = First(ts, u)
    BY <1>1, <1>2, <1>3, <1>4, <1>6 DEF First
  <2>3. Second(us, u) = Second(ts, u)
    BY <1>1, <1>2, <1>4, <1>6, <2>1, <2>2 DEF Second, Entry
  <2>4. Third(us, u) = Third(ts, u)
    BY <1>1, <1>2, <1>4, <1>6, <2>1, <2>3 DEF Third, Entry
  <2>5. CASE Third(ts, u) = c /\ Index(u, 3) = i
    <3>1. PageIn(us, u) = x
      BY <1>4, <1>6, <2>4, <2>5, PageInIs DEF Entry
    <3>2. Alike(u, v)
      BY <2>5, WaysApart DEF i
    <3> QED BY <3>1, <3>2
  <2>6. CASE ~ (Third(ts, u) = c /\ Index(u, 3) = i)
    <3>1. PageIn(us, u) = PageIn(ts, u)
      BY <1>1, <1>2, <1>6, <2>1, <2>4, <2>6, PageInIs DEF Entry
    <3>2. ~ Alike(u, v)
      <4>1. SUFFICES ASSUME Alike(u, v) PROVE FALSE
        OBVIOUS
      <4>2. /\ Index(u, 0) = Index(v, 0) /\ Index(u, 1) = Index(v, 1)
            /\ Index(u, 2) = Index(v, 2) /\ Index(u, 3) = Index(v, 3)
        BY <1>2, <4>1 DEF Alike
      <4>3. Third(ts, u) = Third(ts, v)
        BY <4>2 DEF First, Second, Third
      <4>4. Third(ts, v) = c
        BY OnWayIs
      <4> QED BY <2>6, <4>2, <4>3, <4>4 DEF i
    <3> QED BY <3>1, <3>2
  <2> QED BY <2>5, <2>6
<1>10. MapsTo(us, ts, x, v)
  BY <1>8, <1>9 DEF MapsTo, IsTree
<1> QED BY <1>10 DEF us, i

\* AddressSpace__getPaddrByVaddr: the tables it makes have no pages, and what
\* it answers was there before.
LEMMA LookupKeeps ==
  ASSUME NEW ts, IsTree(ts), NEW v \in Nat
  PROVE  /\ IsTree(Walk(ts, v).tables)
         /\ \A u \in Nat : PageIn(Walk(ts, v).tables, u) = PageIn(ts, u)
         /\ GetPaddr(ts, v) = PageIn(ts, v)
<1> DEFINE w == Walk(ts, v)
<1>1. /\ Prolongs(w.tables, ts)
      /\ \E lev, a, b : /\ Tree(w.tables, lev)
                        /\ OnWay(w.tables, lev, v, a, b, w.at)
  BY WalkIs
<1>2. GetPaddr(ts, v) = w.tables[w.at][Index(v, 3)]
  BY DEF GetPaddr
<1> HIDE DEF w
<1>3. PICK lev, a, b : /\ Tree(w.tables, lev)
                       /\ OnWay(w.tables, lev, v, a, b, w.at)
  BY <1>1
<1>4. IsTree(w.tables)
  BY <1>3 DEF IsTree
<1>5. \A u \in Nat : PageIn(w.tables, u) = PageIn(ts, u)
  BY <1>1, <1>4, ProlongedPages
<1>6. GetPaddr(ts, v) = PageIn(w.tables, v)
  BY <1>2, <1>3, OnWayIs
<1> QED BY <1>4, <1>5, <1>6 DEF w

\* AddressSpace__mapVaddr
LEMMA MapVaddrMaps ==
  ASSUME NEW ts, IsTree(ts), NEW v \in Nat, NEW x \in PageId \cup {0}
  PROVE  MapsTo(MapVaddr(ts, x, v), ts, x, v)
<1> DEFINE w  == Walk(ts, v)
           us == WithEntry(w.tables, w.at, Index(v, 3), x)
<1>1. PICK lev, a, b : /\ Tree(w.tables, lev)
                       /\ OnWay(w.tables, lev, v, a, b, w.at)
  BY WalkIs
<1>2. MapVaddr(ts, x, v) = us
  BY DEF MapVaddr
<1>3. \A u \in Nat : PageIn(w.tables, u) = PageIn(ts, u)
  BY LookupKeeps
<1> HIDE DEF w
<1>4. MapsTo(us, w.tables, x, v)
  BY <1>1, EntryMaps
<1> HIDE DEF us
<1> QED BY <1>2, <1>3, <1>4 DEF MapsTo

LEMMA AlikePages ==
  ASSUME NEW ts, NEW u, NEW v, Alike(u, v)
  PROVE  PageIn(ts, u) = PageIn(ts, v)
<1>1. 0 \in Depth /\ 1 \in Depth /\ 2 \in Depth /\ 3 \in Depth
  BY DEF Depth
<1> QED BY <1>1, PageInIs DEF Alike, First, Second, Third

\* A round of AddressSpace__unmap.
LEMMA CollectedIs ==
  ASSUME NEW c, IsTree(c.tables), NEW v \in Nat
  PROVE  /\ MapsTo(Collected(c, v).tables, c.tables, 0, v)
         /\ Collected(c, v).pages = c.pages \cup ({PageIn(c.tables, v)} \ {0})
<1> DEFINE x == PageIn(c.tables, v)
           d == Collected(c, v)
<1>1. /\ IsTree(Walk(c.tables, v).tables)
      /\ \A u \in Nat :
           PageIn(Walk(c.tables, v).tables, u) = PageIn(c.tables, u)
      /\ GetPaddr(c.tables, v) = x
  BY LookupKeeps
<1>2. CASE x = 0
  <2>1. d = [tables |-> Walk(c.tables, v).tables, pages |-> c.pages]
    BY <1>1, <1>2 DEF Collected
  <2>2. d.tables = Walk(c.tables, v).tables /\ d.pages = c.pages
    BY <2>1
  <2>3. \A u \in Nat : Alike(u, v) => PageIn(c.tables, u) = 0
    BY <1>2, AlikePages
  <2> HIDE DEF d
  <2>4. MapsTo(d.tables, c.tables, 0, v)
    BY <1>1, <2>2, <2>3 DEF MapsTo
  <2> QED BY <1>2, <2>2, <2>4 DEF d
<1>3. CASE x # 0
  <2>1. d = [tables |-> MapVaddr(c.tables, 0, v), pages |-> c.pages \cup {x}]
    BY <1>1, <1>3 DEF Collected
  <2>2. d.tables = MapVaddr(c.tables, 0, v) /\ d.pages = c.pages \cup {x}
    BY <2>1
  <2>3. MapsTo(MapVaddr(c.tables, 0, v), c.tables, 0, v)
    BY MapVaddrMaps
  <2> HIDE DEF d
  <2>4. MapsTo(d.tables, c.tables, 0, v)
    BY <2>2, <2>3
  <2> HIDE DEF x
  <2>5. d.pages = c.pages \cup ({x} \ {0})
    BY <1>3, <2>2
  <2> QED BY <2>4, <2>5 DEF d, x
<1> QED BY <1>2, <1>3

(***************************************************************************)
(* The rounds of AddressSpace__unmap: as in Among, the recursion defines a *)
(* function.                                                               *)
(***************************************************************************)
RoundsOf(ts, start, n) ==
  CHOOSE after : after = [k \in 0..n |->
    IF k = 0 THEN [tables |-> ts, pages |-> {}]
             ELSE Collected(after[k - 1], start + (k - 1) * PAGE)]

LEMMA RoundsAre ==
  ASSUME NEW ts, NEW start, NEW n \in Nat
  PROVE  RoundsOf(ts, start, n) = [k \in 0..n |->
           IF k = 0 THEN [tables |-> ts, pages |-> {}]
           ELSE Collected(RoundsOf(ts, start, n)[k - 1], start + (k - 1) * PAGE)]
<1> DEFINE G(f, k) == IF k = 0 THEN [tables |-> ts, pages |-> {}]
                      ELSE Collected(f[k - 1], start + (k - 1) * PAGE)
           Bad == {m \in Nat : ~ \E f : f = [k \in 0..m |-> G(f, k)]}
<1>1. Bad = {}
  <2> SUFFICES ASSUME Bad # {} PROVE FALSE
    OBVIOUS
  <2>1. Bad \subseteq Nat
    OBVIOUS
  <2>2. PICK m \in Bad : \A i \in Bad : m <= i
    <3> HIDE DEF Bad
    <3> QED BY <2>1, MinOfNats
  <2>3. CASE m = 0
    <3> DEFINE z == [tables |-> ts, pages |-> {}]
               g == [i \in 0..0 |-> z]
    <3>1. g = [i \in 0..0 |-> G(g, i)]
      <4>1. \A i \in 0..0 : i = 0
        OBVIOUS
      <4> QED BY <4>1
    <3> HIDE DEF g, G
    <3> QED BY <2>2, <2>3, <3>1
  <2>4. CASE m # 0
    <3>1. m \in Nat /\ m - 1 \in Nat /\ m > 0
      BY <2>2, <2>4
    <3>2. PICK g : g = [i \in 0..(m - 1) |-> G(g, i)]
      <4>1. m - 1 \notin Bad
        <5> HIDE DEF Bad
        <5> QED BY <2>2, <3>1
      <4> HIDE DEF G
      <4> QED BY <3>1, <4>1
    <3> DEFINE x == G(g, m)
               h == [i \in 0..m |-> IF i = m THEN x ELSE g[i]]
    <3>3. \A i \in 0..m : h[i] = G(h, i)
      <4>1. ASSUME NEW i \in 0..m PROVE h[i] = G(h, i)
        <5>0. i # 0 => /\ i - 1 \in 0..m /\ i - 1 # m
                       /\ h[i - 1] = g[i - 1]
          <6> HIDE DEF x, G
          <6> QED BY <3>1
        <5>1. CASE i = m
          <6>1. h[i] = x
            <7> HIDE DEF x
            <7> QED BY <5>1
          <6> HIDE DEF h
          <6> QED BY <2>4, <5>0, <5>1, <6>1
        <5>2. CASE i # m
          <6>1. i \in 0..(m - 1)
            BY <3>1, <5>2
          <6>2. h[i] = g[i]
            <7> HIDE DEF x
            <7> QED BY <5>2
          <6>3. g[i] = G(g, i)
            <7> HIDE DEF G
            <7> QED BY <3>2, <6>1
          <6> HIDE DEF h
          <6> QED BY <5>0, <6>2, <6>3
        <5> QED BY <5>1, <5>2
      <4> QED BY <4>1
    <3>4. h = [i \in 0..m |-> G(h, i)]
      <4>1. h = [i \in 0..m |-> h[i]]
        <5> HIDE DEF x
        <5> QED OBVIOUS
      <4> HIDE DEF h, G
      <4> QED BY <3>3, <4>1
    <3> HIDE DEF h, G
    <3> QED BY <2>2, <3>4
  <2> QED BY <2>3, <2>4
<1>2. \E f : f = [k \in 0..n |-> G(f, k)]
  <2> HIDE DEF G
  <2> QED BY <1>1
<1> QED BY <1>2 DEF RoundsOf

\* The address of a round.
Adr(start, k) == start + (k - 1) * PAGE

LEMMA AdrIn ==
  ASSUME NEW start \in Nat, NEW k \in Nat, k > 0
  PROVE  Adr(start, k) \in Nat
<1>1. k - 1 \in Nat /\ PAGE \in Nat
  BY AddressAssumption
<1>2. (k - 1) * PAGE \in Nat
  BY <1>1
<1> QED BY <1>2 DEF Adr

\* What has been done after k rounds.
DoneTo(c, ts, start, k) ==
  /\ IsTree(c.tables)
  /\ \A u \in Nat :
       PageIn(c.tables, u) = IF \E j \in 1..k : Alike(u, Adr(start, j)) THEN 0
                             ELSE PageIn(ts, u)
  /\ c.pages = {PageIn(ts, Adr(start, j)) : j \in 1..k} \ {0}

LEMMA RoundDone ==
  ASSUME NEW ts, IsTree(ts), NEW start \in Nat, NEW k \in Nat, k > 0,
         NEW c, DoneTo(c, ts, start, k - 1)
  PROVE  DoneTo(Collected(c, Adr(start, k)), ts, start, k)
<1> DEFINE v == Adr(start, k)
           d == Collected(c, v)
<1>1. v \in Nat
  BY AdrIn
<1> HIDE DEF v
<1>2. /\ IsTree(c.tables)
      /\ \A u \in Nat :
           PageIn(c.tables, u) = IF \E j \in 1..(k - 1) : Alike(u, Adr(start, j))
                                 THEN 0 ELSE PageIn(ts, u)
      /\ c.pages = {PageIn(ts, Adr(start, j)) : j \in 1..(k - 1)} \ {0}
  BY DEF DoneTo
<1>3. MapsTo(d.tables, c.tables, 0, v)
  BY <1>1, <1>2, CollectedIs
<1>4. d.pages = c.pages \cup ({PageIn(c.tables, v)} \ {0})
  BY <1>1, <1>2, CollectedIs
<1> HIDE DEF d
<1>5. \A j : j \in 1..k <=> j \in 1..(k - 1) \/ j = k
  OBVIOUS
<1>6. Adr(start, k) = v
  BY DEF v
<1>7. ASSUME NEW u \in Nat
      PROVE  PageIn(d.tables, u) = IF \E j \in 1..k : Alike(u, Adr(start, j))
                                   THEN 0 ELSE PageIn(ts, u)
  <2>1. PageIn(d.tables, u) = IF Alike(u, v) THEN 0 ELSE PageIn(c.tables, u)
    BY <1>3 DEF MapsTo
  <2> QED BY <1>2, <1>5, <1>6, <2>1
<1>8. d.pages = {PageIn(ts, Adr(start, j)) : j \in 1..k} \ {0}
  <2>1. CASE \E j \in 1..(k - 1) : Alike(v, Adr(start, j))
    <3>1. PICK j \in 1..(k - 1) : Alike(v, Adr(start, j))
      BY <2>1
    <3>2. PageIn(c.tables, v) = 0
      BY <1>1, <1>2, <2>1
    <3>3. PageIn(ts, v) = PageIn(ts, Adr(start, j))
      BY <3>1, AlikePages
    <3>4. d.pages = c.pages
      BY <1>4, <3>2
    <3> QED BY <1>2, <1>5, <1>6, <3>3, <3>4
  <2>2. CASE ~ \E j \in 1..(k - 1) : Alike(v, Adr(start, j))
    <3>1. PageIn(c.tables, v) = PageIn(ts, v)
      BY <1>1, <1>2, <2>2
    <3> QED BY <1>2, <1>4, <1>5, <1>6, <3>1
  <2> QED BY <2>1, <2>2
<1>9. IsTree(d.tables)
  BY <1>3 DEF MapsTo
<1>10. DoneTo(d, ts, start, k)
  BY <1>7, <1>8, <1>9 DEF DoneTo
<1> QED BY <1>10 DEF d, v

LEMMA EmptiedDone ==
  ASSUME NEW ts, IsTree(ts), NEW start \in Nat, NEW size, Indents(size) \in Nat
  PROVE  DoneTo(Emptied(ts, start, size), ts, start, Indents(size))
<1> DEFINE n     == Indents(size)
           after == RoundsOf(ts, start, n)
<1>1. Emptied(ts, start, size) = after[n]
  BY DEF Emptied, RoundsOf
<1>2. after = [k \in 0..n |->
                 IF k = 0 THEN [tables |-> ts, pages |-> {}]
                 ELSE Collected(after[k - 1], start + (k - 1) * PAGE)]
  BY RoundsAre
<1> HIDE DEF after, n
<1>3. n \in Nat
  BY DEF n
<1>4. /\ after[0] = [tables |-> ts, pages |-> {}]
      /\ \A k \in 1..n : after[k] = Collected(after[k - 1], Adr(start, k))
  <2>1. 0 \in 0..n
    BY <1>3
  <2>2. \A k \in 1..n : k \in 0..n /\ k # 0
    BY <1>3
  <2> QED BY <1>2, <2>1, <2>2 DEF Adr
<1> DEFINE Bad == {k \in 0..n : ~ DoneTo(after[k], ts, start, k)}
<1>5. Bad = {}
  <2> SUFFICES ASSUME Bad # {} PROVE FALSE
    OBVIOUS
  <2>1. Bad \subseteq Nat
    BY <1>3
  <2>2. PICK k \in Bad : \A i \in Bad : k <= i
    <3> HIDE DEF Bad
    <3> QED BY <2>1, MinOfNats
  <2>3. CASE k = 0
    <3>1. after[0].tables = ts /\ after[0].pages = {} /\ 1..0 = {}
      BY <1>4
    <3>2. DoneTo(after[0], ts, start, 0)
      BY <3>1 DEF DoneTo
    <3> QED BY <2>2, <2>3, <3>2
  <2>4. CASE k # 0
    <3>1. k \in Nat /\ k > 0 /\ k \in 1..n /\ k - 1 \in 0..n
      BY <1>3, <2>2, <2>4
    <3>2. DoneTo(after[k - 1], ts, start, k - 1)
      <4>1. k - 1 \notin Bad
        <5> HIDE DEF Bad
        <5> QED BY <2>2, <3>1
      <4> QED BY <3>1, <4>1
    <3>3. DoneTo(after[k], ts, start, k)
      BY <1>4, <3>1, <3>2, RoundDone
    <3> QED BY <2>2, <3>3
  <2> QED BY <2>3, <2>4
<1>6. DoneTo(after[n], ts, start, n)
  <2>1. n \in 0..n
    BY <1>3
  <2> QED BY <1>5, <2>1
<1> QED BY <1>1, <1>6 DEF n

-----------------------------------------------------------------------------
(* The digits of an address *)

LEMMA QuotientOfProduct ==
  ASSUME NEW a \in Nat, NEW b \in Nat, b > 0, NEW c \in Nat, c > 0
  PROVE  a \div (b * c) = (a \div b) \div c
<1> DEFINE q == a \div b
           r == a % b
           s == q \div c
           t == q % c
<1>1. q \in Int /\ r \in 0..(b - 1) /\ a = b * q + r
  BY QuotientAndRest
<1> HIDE DEF q, r
<1>2. s \in Int /\ t \in 0..(c - 1) /\ q = c * s + t
  BY <1>1, QuotientAndRest
<1> HIDE DEF s, t
<1>3. PICK e \in Nat : c = t + 1 + e
  <2>1. c - 1 - t \in Nat /\ c = t + 1 + (c - 1 - t)
    BY <1>2
  <2> QED BY <2>1
<1>4. /\ b * t \in Nat /\ b * e \in Nat /\ b * c = b * t + b + b * e
      /\ b * c \in Nat
  BY <1>2, <1>3
<1>5. b * t + r \in 0..(b * c - 1) /\ b * c > 0
  BY <1>1, <1>4
<1>6. a = (b * c) * s + (b * t + r)
  <2>1. b * q = b * (c * s) + b * t /\ b * (c * s) = (b * c) * s
    BY <1>1, <1>2
  <2> QED BY <1>1, <1>2, <1>4, <2>1
<1> DEFINE m == b * c
           x == b * t + r
<1>7. m \in Nat /\ m > 0 /\ x \in 0..(m - 1) /\ a = m * s + x /\ a \in Int
  BY <1>4, <1>5, <1>6
<1> HIDE DEF m, x
<1>8. a \div m = s
  BY <1>2, <1>7, QuotientIsUnique
<1> QED BY <1>8 DEF m, s, q

LEMMA QuotientBound ==
  ASSUME NEW a \in Nat, NEW b \in Nat, b > 0, NEW c \in Nat, a < b * c
  PROVE  a \div b \in Nat /\ a \div b < c
<1> DEFINE q == a \div b
           r == a % b
<1>1. q \in Int /\ r \in 0..(b - 1) /\ a = b * q + r
  BY QuotientAndRest
<1> HIDE DEF q, r
<1>2. q >= 0
  <2>1. SUFFICES ASSUME q < 0 PROVE FALSE
    BY <1>1
  <2>2. PICK e \in Nat : q = - e /\ e >= 1
    <3>1. - q \in Nat /\ - q >= 1 /\ q = - (- q)
      BY <1>1, <2>1
    <3> QED BY <3>1
  <2>3. b * e >= b /\ b * q = - (b * e)
    BY <2>2
  <2> QED BY <1>1, <2>2, <2>3
<1>3. q < c
  <2>1. SUFFICES ASSUME q >= c PROVE FALSE
    BY <1>1
  <2>2. PICK e \in Nat : q = c + e
    <3>1. q - c \in Nat /\ q = c + (q - c)
      BY <1>1, <2>1
    <3> QED BY <3>1
  <2>3. b * q = b * c + b * e /\ b * e \in Nat
    BY <2>2
  <2> QED BY <1>1, <2>3
<1> QED BY <1>1, <1>2, <1>3 DEF q

LEMMA QuotientIn ==
  ASSUME NEW a \in Nat, NEW b \in Nat, b > 0
  PROVE  a \div b \in Nat
<1> DEFINE q == a \div b
           r == a % b
<1>1. q \in Int /\ r \in 0..(b - 1) /\ a = b * q + r
  BY QuotientAndRest
<1> HIDE DEF q, r
<1>2. q >= 0
  <2>1. SUFFICES ASSUME q < 0 PROVE FALSE
    BY <1>1
  <2>2. PICK e \in Nat : q = - e /\ e >= 1
    <3>1. - q \in Nat /\ - q >= 1 /\ q = - (- q)
      BY <1>1, <2>1
    <3> QED BY <3>1
  <2>3. b * e >= b /\ b * q = - (b * e)
    BY <2>2
  <2> QED BY <1>1, <2>2, <2>3
<1> QED BY <1>1, <1>2 DEF q

Quot(a)  == a \div PAGE_SLOT
PageNo(v) == v \div PAGE

LEMMA SlotNumbers ==
  /\ PAGE_SLOT \in Nat /\ PAGE_SLOT > 0 /\ PAGE \in Nat /\ PAGE > 0
  /\ PAGE_SLOT * PAGE_SLOT \in Nat /\ PAGE_SLOT * PAGE_SLOT > 0
  /\ PAGE_SLOT * PAGE_SLOT * PAGE_SLOT \in Nat
  /\ AllPages \in Nat /\ AllPages > 0
<1>1. PAGE_SLOT \in Nat /\ PAGE_SLOT > 0 /\ PAGE \in Nat /\ PAGE > 0
  BY SpaceAssumption, AddressAssumption
<1> DEFINE x == PAGE_SLOT * PAGE_SLOT
<1>2. x \in Nat /\ x > 0
  BY <1>1
<1> HIDE DEF x
<1> DEFINE y == x * PAGE_SLOT
<1>3. y \in Nat /\ y > 0
  BY <1>1, <1>2
<1> HIDE DEF y
<1>4. y * PAGE_SLOT \in Nat /\ y * PAGE_SLOT > 0
  BY <1>1, <1>3
<1> QED BY <1>1, <1>2, <1>3, <1>4 DEF AllPages, x, y

\* The digits of the number of its page.
LEMMA IndexIs ==
  ASSUME NEW v \in Nat
  PROVE  /\ Index(v, 3) = PageNo(v) % PAGE_SLOT
         /\ Index(v, 2) = Quot(PageNo(v)) % PAGE_SLOT
         /\ Index(v, 1) = Quot(Quot(PageNo(v))) % PAGE_SLOT
         /\ Index(v, 0) = Quot(Quot(Quot(PageNo(v)))) % PAGE_SLOT
<1> DEFINE S == PAGE_SLOT
<1>1. S \in Nat /\ S > 0 /\ PAGE \in Nat /\ PAGE > 0
  BY SlotNumbers
<1>2. S * S \in Nat /\ S * S > 0
  BY SlotNumbers
<1>3. PageNo(v) \in Nat /\ Quot(PageNo(v)) \in Nat
  BY <1>1, QuotientIn DEF PageNo, Quot
<1> DEFINE n == PageNo(v)
<1>4. v \div (PAGE * 1) = n
  BY <1>1 DEF PageNo
<1>5. v \div (PAGE * S) = Quot(n)
  BY <1>1, QuotientOfProduct DEF PageNo, Quot
<1>6. v \div (PAGE * (S * S)) = Quot(Quot(n))
  <2>1. v \div (PAGE * (S * S)) = n \div (S * S)
    <3> DEFINE x == S * S
    <3>1. x \in Nat /\ x > 0
      BY <1>2
    <3> HIDE DEF x
    <3>2. v \div (PAGE * x) = n \div x
      BY <1>1, <3>1, QuotientOfProduct DEF PageNo
    <3> QED BY <3>2 DEF x
  <2>2. n \div (S * S) = Quot(Quot(n))
    BY <1>1, <1>3, QuotientOfProduct DEF Quot
  <2> QED BY <2>1, <2>2
<1>7. v \div (PAGE * (S * S * S)) = Quot(Quot(Quot(n)))
  <2> DEFINE x == S * S
  <2>1. x \in Nat /\ x > 0
    BY <1>2
  <2> HIDE DEF x
  <2>2. x * S \in Nat /\ x * S > 0
    BY <1>1, <2>1
  <2>3. v \div (PAGE * (x * S)) = n \div (x * S)
    <3> DEFINE y == x * S
    <3>1. y \in Nat /\ y > 0
      BY <2>2
    <3> HIDE DEF y
    <3>2. v \div (PAGE * y) = n \div y
      BY <1>1, <3>1, QuotientOfProduct DEF PageNo
    <3> QED BY <3>2 DEF y
  <2>4. n \div (x * S) = (n \div x) \div S
    BY <1>1, <1>3, <2>1, QuotientOfProduct
  <2>5. n \div x = Quot(Quot(n))
    BY <1>1, <1>3, QuotientOfProduct DEF Quot, x
  <2> QED BY <2>3, <2>4, <2>5 DEF Quot, x
<1>8. Below(3) = 1 /\ Below(2) = S /\ Below(1) = S * S /\ Below(0) = S * S * S
  BY DEF Below
<1> HIDE DEF S
<1> QED BY <1>4, <1>5, <1>6, <1>7, <1>8 DEF Index, S

\* Two numbers with the same quotient and the same rest are the same.
LEMMA SameNumber ==
  ASSUME NEW a \in Nat, NEW b \in Nat, Quot(a) = Quot(b),
         a % PAGE_SLOT = b % PAGE_SLOT
  PROVE  a = b
<1>1. PAGE_SLOT \in Nat /\ PAGE_SLOT > 0
  BY SlotNumbers
<1>2. /\ a = PAGE_SLOT * (a \div PAGE_SLOT) + (a % PAGE_SLOT)
      /\ b = PAGE_SLOT * (b \div PAGE_SLOT) + (b % PAGE_SLOT)
  BY <1>1, QuotientAndRest
<1>3. a \div PAGE_SLOT = b \div PAGE_SLOT
  BY DEF Quot
<1> QED BY <1>2, <1>3

LEMMA SmallRest ==
  ASSUME NEW a \in Nat, a < PAGE_SLOT
  PROVE  a % PAGE_SLOT = a
<1>1. /\ PAGE_SLOT \in Nat /\ PAGE_SLOT > 0 /\ a \in Int /\ 0 \in Int
      /\ a \in 0..(PAGE_SLOT - 1) /\ a = PAGE_SLOT * 0 + a
  BY SlotNumbers
<1> QED BY <1>1, QuotientIsUnique

\* As far as the tables reach, those alike are the addresses of a page.
LEMMA AlikeIs ==
  ASSUME NEW u \in Nat, NEW v \in Nat
  PROVE  /\ PageNo(u) = PageNo(v) => Alike(u, v)
         /\ PageNo(u) < AllPages /\ PageNo(v) < AllPages /\ Alike(u, v)
              => PageNo(u) = PageNo(v)
<1>1. PageNo(u) = PageNo(v) => Alike(u, v)
  BY IndexIs DEF Alike, Depth
<1>2. ASSUME PageNo(u) < AllPages, PageNo(v) < AllPages, Alike(u, v)
      PROVE  PageNo(u) = PageNo(v)
  <2> DEFINE S == PAGE_SLOT
  <2>1. S \in Nat /\ S > 0 /\ PAGE \in Nat /\ PAGE > 0 /\ S * S \in Nat
        /\ S * S * S \in Nat
    BY SlotNumbers
  <2>2. ASSUME NEW n \in Nat, n < AllPages
        PROVE  /\ Quot(n) \in Nat /\ Quot(Quot(n)) \in Nat
               /\ Quot(Quot(Quot(n))) \in Nat /\ Quot(Quot(Quot(n))) < S
    <3>1. n < S * (S * S * S)
      <4>1. AllPages = S * (S * S * S)
        BY <2>1 DEF AllPages
      <4> QED BY <2>2, <4>1
    <3>2. Quot(n) \in Nat /\ Quot(n) < S * S * S
      <4> DEFINE x == S * S * S
      <4>1. x \in Nat /\ n < S * x
        BY <2>1, <3>1
      <4> HIDE DEF x
      <4>2. n \div S \in Nat /\ n \div S < x
        BY <2>1, <4>1, QuotientBound
      <4> QED BY <4>2 DEF x, Quot
    <3>3. Quot(Quot(n)) \in Nat /\ Quot(Quot(n)) < S * S
      <4> DEFINE x == S * S
                 m == Quot(n)
      <4>1. x \in Nat /\ m < S * x /\ m \in Nat
        BY <2>1, <3>2
      <4> HIDE DEF x, m
      <4>2. m \div S \in Nat /\ m \div S < x
        BY <2>1, <4>1, QuotientBound
      <4> QED BY <4>2 DEF x, m, Quot
    <3>4. Quot(Quot(Quot(n))) \in Nat /\ Quot(Quot(Quot(n))) < S
      <4> DEFINE m == Quot(Quot(n))
      <4>1. m < S * S /\ m \in Nat
        BY <3>3
      <4> HIDE DEF m
      <4>2. m \div S \in Nat /\ m \div S < S
        BY <2>1, <4>1, QuotientBound
      <4> QED BY <4>2 DEF m, Quot
    <3> QED BY <3>2, <3>3, <3>4
  <2>3. PageNo(u) \in Nat /\ PageNo(v) \in Nat
    BY <2>1, QuotientIn DEF PageNo
  <2> DEFINE m == PageNo(u)
             n == PageNo(v)
  <2>4. /\ m % S = n % S /\ Quot(m) % S = Quot(n) % S
        /\ Quot(Quot(m)) % S = Quot(Quot(n)) % S
        /\ Quot(Quot(Quot(m))) % S = Quot(Quot(Quot(n))) % S
    <3>1. 0 \in Depth /\ 1 \in Depth /\ 2 \in Depth /\ 3 \in Depth
      BY DEF Depth
    <3> QED BY <1>2, <3>1, IndexIs DEF Alike
  <2>5. Quot(Quot(Quot(m))) = Quot(Quot(Quot(n)))
    BY <1>2, <2>2, <2>3, <2>4, SmallRest
  <2>6. Quot(Quot(m)) = Quot(Quot(n))
    BY <1>2, <2>2, <2>3, <2>4, <2>5, SameNumber
  <2>7. Quot(m) = Quot(n)
    BY <1>2, <2>2, <2>3, <2>4, <2>6, SameNumber
  <2> QED BY <2>3, <2>4, <2>7, SameNumber
<1> QED BY <1>1, <1>2

\* The address a page begins at.
LEMMA PageBegins ==
  ASSUME NEW i \in Nat, NEW o \in 0..(PAGE - 1)
  PROVE  i * PAGE \in Nat /\ PageNo(i * PAGE) = i /\ PageNo(i * PAGE + o) = i
<1>1. PAGE \in Nat /\ PAGE > 0 /\ 0 \in 0..(PAGE - 1)
  BY SlotNumbers
<1>2. i * PAGE \in Nat /\ i * PAGE = PAGE * i
  BY <1>1
<1>3. i * PAGE = PAGE * i + 0 /\ i * PAGE + o = PAGE * i + o /\ i \in Int
      /\ i * PAGE + o \in Int /\ i * PAGE \in Int
  BY <1>1, <1>2
<1>4. (i * PAGE) \div PAGE = i
  BY <1>1, <1>3, QuotientIsUnique
<1>5. (i * PAGE + o) \div PAGE = i
  BY <1>1, <1>3, QuotientIsUnique
<1> QED BY <1>2, <1>4, <1>5 DEF PageNo
-----------------------------------------------------------------------------
(* The regions in pages *)

\* The page the regions for mmap begin with.
Base == PageNo(MMAP_START)

LEMMA PagesOrdered ==
  ASSUME NEW a \in Nat, NEW b \in Nat
  PROVE  /\ a * PAGE \in Nat /\ b * PAGE \in Nat
         /\ (a + b) * PAGE = a * PAGE + b * PAGE
         /\ a < b <=> a * PAGE < b * PAGE
         /\ a < b <=> a * PAGE + PAGE <= b * PAGE
<1>1. PAGE \in Nat /\ PAGE > 0
  BY SlotNumbers
<1>2. ASSUME NEW c \in Nat, NEW d \in Nat, c < d
      PROVE  c * PAGE + PAGE <= d * PAGE
  <2>1. PICK e \in Nat : d = c + 1 + e
    <3>1. d - c - 1 \in Nat /\ d = c + 1 + (d - c - 1)
      BY <1>2
    <3> QED BY <3>1
  <2>2. d * PAGE = c * PAGE + PAGE + e * PAGE
    BY <1>1, <2>1
  <2>3. c * PAGE \in Nat /\ e * PAGE \in Nat
    BY <1>1
  <2> DEFINE x == c * PAGE
             y == d * PAGE
             z == e * PAGE
  <2>4. y = x + PAGE + z /\ x \in Nat /\ z \in Nat
    BY <2>2, <2>3
  <2> HIDE DEF x, y, z
  <2>5. x + PAGE <= y
    BY <1>1, <2>4
  <2> QED BY <2>5 DEF x, y
<1>3. a * PAGE \in Nat /\ b * PAGE \in Nat
  BY <1>1
<1>4. (a + b) * PAGE = a * PAGE + b * PAGE
  BY <1>1
<1>5. a < b => a * PAGE + PAGE <= b * PAGE
  BY <1>2
<1>6. b < a => b * PAGE + PAGE <= a * PAGE
  BY <1>2
<1>7. a = b => a * PAGE = b * PAGE
  OBVIOUS
<1> DEFINE x == a * PAGE
           y == b * PAGE
<1>8. /\ x \in Nat /\ y \in Nat /\ (a < b => x + PAGE <= y)
      /\ (b < a => y + PAGE <= x) /\ (a = b => x = y)
  BY <1>3, <1>5, <1>6, <1>7
<1> HIDE DEF x, y
<1>9. (a < b <=> x < y) /\ (a < b <=> x + PAGE <= y)
  BY <1>1, <1>8
<1> QED BY <1>3, <1>4, <1>9 DEF x, y

LEMMA PageNoIs ==
  ASSUME NEW v \in Nat
  PROVE  /\ PageNo(v) \in Nat /\ PageNo(v) * PAGE \in Nat
         /\ PageNo(v) * PAGE <= v /\ v < PageNo(v) * PAGE + PAGE
<1>1. PAGE \in Nat /\ PAGE > 0
  BY SlotNumbers
<1>2. PageNo(v) \in Nat
  BY <1>1, QuotientIn DEF PageNo
<1>3. PageNo(v) * PAGE \in Nat
  BY <1>1, <1>2
<1> DEFINE q == v \div PAGE
           r == v % PAGE
<1>4. r \in 0..(PAGE - 1) /\ v = PAGE * q + r /\ q \in Int
  BY <1>1, QuotientAndRest
<1>5. PageNo(v) = q
  BY DEF PageNo
<1> HIDE DEF q, r
<1>6. q * PAGE = PAGE * q /\ q * PAGE \in Int
  BY <1>1, <1>4
<1>7. q * PAGE <= v /\ v < q * PAGE + PAGE
  BY <1>1, <1>4, <1>6
<1> QED BY <1>2, <1>3, <1>5, <1>7

LEMMA BaseIs ==
  /\ Base \in Nat /\ MMAP_START = Base * PAGE /\ MaxPages \in Nat
  /\ Base + MaxPages <= AllPages
<1>1. /\ PAGE \in Nat /\ PAGE > 0 /\ AllPages \in Nat /\ MaxPages \in Nat
      /\ MMAP_START \in Nat /\ MMAP_START % PAGE = 0
      /\ MMAP_START + MaxPages * PAGE <= AllPages * PAGE
  BY SlotNumbers, SpaceAssumption, AddressAssumption
<1>2. Base \in Nat
  BY <1>1, QuotientIn DEF Base, PageNo
<1>3. MMAP_START = Base * PAGE
  <2> DEFINE q == MMAP_START \div PAGE
             r == MMAP_START % PAGE
  <2>1. MMAP_START = PAGE * q + r /\ r = 0 /\ q \in Int
    BY <1>1, QuotientAndRest
  <2>2. Base = q
    BY DEF Base, PageNo
  <2> HIDE DEF q, r
  <2> QED BY <1>1, <2>1, <2>2
<1>4. Base + MaxPages <= AllPages
  <2>1. SUFFICES ASSUME AllPages < Base + MaxPages PROVE FALSE
    BY <1>1, <1>2
  <2>2. Base + MaxPages \in Nat
    BY <1>1, <1>2
  <2>3. AllPages * PAGE < (Base + MaxPages) * PAGE
    BY <1>1, <2>1, <2>2, PagesOrdered
  <2>4. /\ (Base + MaxPages) * PAGE = Base * PAGE + MaxPages * PAGE
        /\ Base * PAGE \in Nat /\ MaxPages * PAGE \in Nat
    BY <1>1, <1>2, PagesOrdered
  <2>5. AllPages * PAGE \in Nat
    BY <1>1
  <2> DEFINE x == AllPages * PAGE
             y == (Base + MaxPages) * PAGE
             z == Base * PAGE
             w == MaxPages * PAGE
  <2>6. x < y /\ y = z + w /\ z + w <= x /\ x \in Nat /\ z \in Nat /\ w \in Nat
    BY <1>1, <1>3, <2>3, <2>4, <2>5
  <2> HIDE DEF x, y, z, w
  <2> QED BY <2>6
<1> QED BY <1>1, <1>2, <1>3, <1>4

\* The runs of mapRegions behind the regions, which are where the runs are.
RunOf(s, i) == Cells(Region(s, i).crrt.start, Region(s, i).crrt.size)

Placed(s, i) ==
  LET r == Region(s, i)
  IN  /\ r.crrt.start + r.crrt.size <= s.mapRegions.size
      /\ s.mapRegions.size <= MaxPages
      /\ r.start = MMAP_START + r.crrt.start * PAGE
      /\ r.size = r.crrt.size * PAGE

RegionsInv(s) ==
  /\ s = [regions |-> s.regions, mapRegions |-> s.mapRegions]
  /\ Slotted(s.regions, MmapRecord) /\ s.mapRegions \in Regions
  /\ \A i \in Slots(s) : Placed(s, i)
  /\ s.mapRegions.occupied = UNION {RunOf(s, i) : i \in Slots(s)}
  /\ \A i, j \in Slots(s) : i # j => RunOf(s, i) \cap RunOf(s, j) = {}

\* What there is to know of a region, as numbers.
LEMMA RegionIs ==
  ASSUME NEW s, RegionsInv(s), NEW i \in Slots(s)
  PROVE  LET r == Region(s, i)
         IN  /\ r \in MmapRecord /\ r.type = "MMAP"
             /\ r.crrt.start \in Nat /\ r.crrt.size \in Nat
             /\ r.start \in Nat /\ r.size \in Nat
             /\ r.crrt.start + r.crrt.size <= MaxPages
             /\ r.start = MMAP_START + r.crrt.start * PAGE
             /\ r.size = r.crrt.size * PAGE
             /\ RunOf(s, i) \subseteq s.mapRegions.occupied
<1> DEFINE r == Region(s, i)
<1>1. /\ Slotted(s.regions, MmapRecord) /\ Placed(s, i)
      /\ s.mapRegions \in Regions
      /\ RunOf(s, i) \subseteq s.mapRegions.occupied
  BY DEF RegionsInv
<1>2. r \in MmapRecord
  <2>1. /\ s.regions.item \in [0..(s.regions.length - 1) -> MmapRecord \cup {Empty}]
    BY <1>1 DEF Slotted
  <2>2. i \in 0..(s.regions.length - 1) /\ s.regions.item[i] # Empty
    BY DEF Slots, Occupied
  <2> QED BY <2>1, <2>2 DEF Region
<1> HIDE DEF r
<1>3. /\ r.type = "MMAP" /\ r.crrt.start \in Nat /\ r.crrt.size \in Nat
      /\ r.start \in Nat /\ r.size \in Nat
  BY <1>2 DEF MmapRecord
<1>4. s.mapRegions.size \in Nat
  BY <1>1 DEF Regions
<1>5. /\ r.crrt.start + r.crrt.size <= s.mapRegions.size
      /\ s.mapRegions.size <= MaxPages
      /\ r.start = MMAP_START + r.crrt.start * PAGE
      /\ r.size = r.crrt.size * PAGE
  BY <1>1 DEF Placed, r
<1>6. r.crrt.start + r.crrt.size <= MaxPages
  BY <1>3, <1>4, <1>5, BaseIs
<1> QED BY <1>1, <1>2, <1>3, <1>5, <1>6 DEF r

\* The page of an address is not before another if the address is not.
LEMMA NotBefore ==
  ASSUME NEW a \in Nat, NEW v \in Nat
  PROVE  a * PAGE <= v <=> a <= PageNo(v)
<1> DEFINE q == PageNo(v)
           x == a * PAGE
           y == q * PAGE
<1>1. q \in Nat /\ y <= v /\ v < y + PAGE /\ y \in Nat
  BY PageNoIs
<1> HIDE DEF q
<1>2. /\ x \in Nat /\ (q < a <=> y < x) /\ (q < a <=> y + PAGE <= x)
      /\ (a < q <=> x < y)
  BY <1>1, PagesOrdered
<1>3. a = q => x = y
  OBVIOUS
<1>4. PAGE \in Nat
  BY SlotNumbers
<1> HIDE DEF x, y
<1>5. x <= v <=> a <= q
  <2>1. CASE a < q
    BY <1>1, <1>2, <1>4, <2>1
  <2>2. CASE a = q
    BY <1>1, <1>3, <1>4, <2>2
  <2>3. CASE q < a
    BY <1>1, <1>2, <1>4, <2>3
  <2> QED BY <1>1, <2>1, <2>2, <2>3
<1> QED BY <1>5 DEF x, q

\* A region ends below WORD, so that __strictInRegion is what it says.
LEMMA RegionReach ==
  ASSUME NEW s, RegionsInv(s), NEW i \in Slots(s), NEW v \in Nat
  PROVE  StrictlyIn(Region(s, i), v) <=> \E c \in RunOf(s, i) : PageNo(v) = Base + c
<1> DEFINE r == Region(s, i)
           x == r.crrt.start
           y == r.crrt.size
           b == Base + x
           e == Base + x + y
<1>1. /\ x \in Nat /\ y \in Nat /\ r.start \in Nat /\ r.size \in Nat
      /\ x + y <= MaxPages /\ r.start = MMAP_START + x * PAGE
      /\ r.size = y * PAGE
  BY RegionIs
<1>2. RunOf(s, i) = x..(x + y - 1)
  BY DEF RunOf, Cells
<1> HIDE DEF r, x, y
<1>3. b \in Nat /\ e \in Nat /\ PageNo(v) \in Nat
  BY <1>1, BaseIs, PageNoIs
<1>4. r.start = b * PAGE /\ r.start + r.size = e * PAGE
  <2>1. /\ b * PAGE = Base * PAGE + x * PAGE
        /\ e * PAGE = b * PAGE + y * PAGE
        /\ Base * PAGE \in Nat /\ x * PAGE \in Nat /\ y * PAGE \in Nat
    BY <1>1, <1>3, BaseIs, PagesOrdered
  <2> QED BY <1>1, <2>1, BaseIs
<1>5. r.start + r.size < WORD
  <2> DEFINE top == (Base + MaxPages) * PAGE
  <2>1. Base + MaxPages \in Nat /\ e <= Base + MaxPages
    BY <1>1, BaseIs
  <2>2. /\ top \in Nat /\ e * PAGE \in Nat
        /\ Base + MaxPages < e <=> top < e * PAGE
    BY <1>3, <2>1, PagesOrdered
  <2>3. top = MMAP_START + MaxPages * PAGE
    BY BaseIs, PagesOrdered
  <2>4. top < WORD /\ WORD \in Nat
    BY <2>3, SpaceAssumption, AddressAssumption
  <2> HIDE DEF top
  <2>5. e * PAGE <= top
    BY <1>3, <2>1, <2>2
  <2> DEFINE z == e * PAGE
  <2>6. z \in Nat /\ z <= top /\ r.start + r.size = z
    BY <1>4, <2>2, <2>5
  <2> HIDE DEF z
  <2> QED BY <1>1, <2>2, <2>4, <2>6
<1>6. Plus(r.start, r.size) = r.start + r.size
  <2> DEFINE z == r.start + r.size
  <2>1. /\ WORD \in Nat /\ WORD > 0 /\ z \in Int /\ 0 \in Int
        /\ z \in 0..(WORD - 1) /\ z = WORD * 0 + z
    BY <1>1, <1>5, AddressAssumption
  <2> HIDE DEF z
  <2>2. z % WORD = z
    BY <2>1, QuotientIsUnique
  <2> QED BY <2>2 DEF Plus, z
<1>7. StrictlyIn(r, v) <=> b <= PageNo(v) /\ PageNo(v) < e
  <2>1. (b * PAGE <= v <=> b <= PageNo(v)) /\ (e * PAGE <= v <=> e <= PageNo(v))
    BY <1>3, NotBefore
  <2>2. StrictlyIn(r, v) <=> b * PAGE <= v /\ e * PAGE > v
    BY <1>4, <1>6 DEF StrictlyIn
  <2>3. e * PAGE \in Nat
    BY <1>3, PagesOrdered
  <2> DEFINE z == e * PAGE
  <2>4. z \in Nat /\ (z <= v <=> e <= PageNo(v)) /\ (StrictlyIn(r, v) <=> b * PAGE <= v /\ z > v)
    BY <2>1, <2>2, <2>3
  <2> HIDE DEF z
  <2> QED BY <1>3, <2>1, <2>4
<1>8. (b <= PageNo(v) /\ PageNo(v) < e) <=> \E c \in x..(x + y - 1) : PageNo(v) = Base + c
  <2>1. ASSUME b <= PageNo(v), PageNo(v) < e
        PROVE  \E c \in x..(x + y - 1) : PageNo(v) = Base + c
    <3>1. PageNo(v) - Base \in x..(x + y - 1) /\ PageNo(v) = Base + (PageNo(v) - Base)
      BY <1>1, <1>3, <2>1, BaseIs
    <3> QED BY <3>1
  <2>2. ASSUME NEW c \in x..(x + y - 1), PageNo(v) = Base + c
        PROVE  b <= PageNo(v) /\ PageNo(v) < e
    BY <1>1, <2>2, BaseIs
  <2> QED BY <2>1, <2>2
<1> QED BY <1>2, <1>7, <1>8 DEF r

\* An address is in a region if its page is a cell in use of mapRegions.
LEMMA InRegionIs ==
  ASSUME NEW s, RegionsInv(s), NEW v \in Nat
  PROVE  /\ IsInRegion(s, v) <=> \E c \in s.mapRegions.occupied : PageNo(v) = Base + c
         /\ IsInRegion(s, v) => PageNo(v) < AllPages
<1>1. IsInRegion(s, v) <=> \E i \in Slots(s) : StrictlyIn(Region(s, i), v)
  BY DEF IsInRegion, SlotsAt
<1>2. \A i \in Slots(s) : StrictlyIn(Region(s, i), v)
                            <=> \E c \in RunOf(s, i) : PageNo(v) = Base + c
  BY RegionReach
<1>3. s.mapRegions.occupied = UNION {RunOf(s, i) : i \in Slots(s)}
  BY DEF RegionsInv
<1>4. IsInRegion(s, v) <=> \E c \in s.mapRegions.occupied : PageNo(v) = Base + c
  BY <1>1, <1>2, <1>3
<1>5. ASSUME IsInRegion(s, v) PROVE PageNo(v) < AllPages
  <2>4. PICK i \in Slots(s) : \E c \in RunOf(s, i) : PageNo(v) = Base + c
    BY <1>1, <1>2, <1>5
  <2>1. PICK c \in RunOf(s, i) : PageNo(v) = Base + c
    BY <2>4
  <2> DEFINE x == Region(s, i).crrt.start
             y == Region(s, i).crrt.size
  <2>2. x \in Nat /\ y \in Nat /\ x + y <= MaxPages
    BY RegionIs
  <2>3. c \in x..(x + y - 1)
    BY DEF RunOf, Cells
  <2> HIDE DEF x, y
  <2> QED BY <2>1, <2>2, <2>3, BaseIs, SlotNumbers
<1> QED BY <1>4, <1>5

\* The addresses of its pages.
LEMMA PagesAre ==
  ASSUME NEW s, RegionsInv(s), NEW i \in Slots(s)
  PROVE  LET r == Region(s, i)
         IN  /\ Indents(r.size) = r.crrt.size
             /\ \A k \in 1..r.crrt.size :
                  Adr(r.start, k) = (Base + r.crrt.start + k - 1) * PAGE
             /\ PagesOf(r.start, r.size) = {(Base + c) * PAGE : c \in RunOf(s, i)}
<1> DEFINE r == Region(s, i)
           x == r.crrt.start
           y == r.crrt.size
<1>1. /\ x \in Nat /\ y \in Nat /\ r.start \in Nat /\ r.size \in Nat
      /\ x + y <= MaxPages /\ r.start = MMAP_START + x * PAGE
      /\ r.size = y * PAGE
  BY RegionIs
<1>2. RunOf(s, i) = x..(x + y - 1)
  BY DEF RunOf, Cells
<1> HIDE DEF r, x, y
<1>3. Indents(r.size) = y
  <2>1. PAGE - 1 \in 0..(PAGE - 1)
    BY SlotNumbers
  <2>2. y * PAGE \in Nat /\ PageNo(y * PAGE + (PAGE - 1)) = y
    BY <1>1, <2>1, PageBegins
  <2>3. r.size + PAGE - 1 = y * PAGE + (PAGE - 1)
    BY <1>1, <2>2, SlotNumbers
  <2> QED BY <2>2, <2>3 DEF Indents, PageNo
<1>4. ASSUME NEW k \in 1..y
      PROVE  Adr(r.start, k) = (Base + x + k - 1) * PAGE
  <2>1. k - 1 \in Nat /\ Base + x \in Nat /\ Base + x + k - 1 = (Base + x) + (k - 1)
    BY <1>1, BaseIs
  <2>2. /\ ((Base + x) + (k - 1)) * PAGE = (Base + x) * PAGE + (k - 1) * PAGE
        /\ (Base + x) * PAGE = Base * PAGE + x * PAGE
    BY <1>1, <2>1, BaseIs, PagesOrdered
  <2> QED BY <1>1, <2>1, <2>2, BaseIs DEF Adr
<1>5. PagesOf(r.start, r.size) = {(Base + c) * PAGE : c \in RunOf(s, i)}
  <2>1. PagesOf(r.start, r.size) = {Adr(r.start, k) : k \in 1..y}
    BY <1>3 DEF PagesOf, Adr
  <2>2. ASSUME NEW k \in 1..y
        PROVE  \E c \in x..(x + y - 1) : Adr(r.start, k) = (Base + c) * PAGE
    <3>1. x + k - 1 \in x..(x + y - 1) /\ Base + (x + k - 1) = Base + x + k - 1
      BY <1>1, BaseIs
    <3>2. Adr(r.start, k) = (Base + (x + k - 1)) * PAGE
      BY <1>4, <3>1
    <3> QED BY <3>1, <3>2
  <2>3. ASSUME NEW c \in x..(x + y - 1)
        PROVE  \E k \in 1..y : Adr(r.start, k) = (Base + c) * PAGE
    <3>1. c - x + 1 \in 1..y /\ Base + x + (c - x + 1) - 1 = Base + c
      BY <1>1, BaseIs
    <3>2. Adr(r.start, c - x + 1) = (Base + c) * PAGE
      BY <1>4, <3>1
    <3> QED BY <3>1, <3>2
  <2> QED BY <1>2, <2>1, <2>2, <2>3
<1> QED BY <1>3, <1>4, <1>5 DEF r, x, y

\* __size4kAlign gives a whole number of pages, whatever the size.
LEMMA AlignedPages ==
  ASSUME NEW n \in Nat
  PROVE  Align(n) \div PAGE \in Nat
<1>1. PAGE \in Nat /\ PAGE > 0 /\ WORD \in Nat /\ WORD > 0
  BY AddressAssumption
<1> DEFINE up == Plus(n, PAGE - 1)
           q == up \div PAGE
           r == up % PAGE
<1>2. up \in Nat
  <2>1. n + (PAGE - 1) \in Int
    BY <1>1
  <2>2. (n + (PAGE - 1)) % WORD \in 0..(WORD - 1)
    BY <1>1, <2>1, QuotientAndRest
  <2> QED BY <1>1, <2>2 DEF Plus
<1>3. Align(n) = up - r
  BY DEF Align
<1> HIDE DEF up
<1>4. q \in Nat
  BY <1>1, <1>2, QuotientIn
<1>5. r \in 0..(PAGE - 1) /\ up = PAGE * q + r
  BY <1>1, <1>2, QuotientAndRest
<1> HIDE DEF q, r
<1>6. Align(n) = PAGE * q /\ PAGE * q \in Nat
  BY <1>1, <1>2, <1>3, <1>4, <1>5
<1> QED BY <1>1, <1>6, QuotientIn

LEMMA NoRegions ==
  /\ RegionsInv(EmptySpace) /\ Slots(EmptySpace) = {}
<1> DEFINE s == EmptySpace
<1>1. /\ s = [regions |-> s.regions, mapRegions |-> s.mapRegions]
      /\ s.regions = EmptyArr /\ s.mapRegions = EmptyRegions
  BY DEF EmptySpace
<1> HIDE DEF s
<1>2. Occupied(EmptyArr) = {}
  BY DEF Occupied, EmptyArr
<1>3. Slotted(EmptyArr, MmapRecord)
  <2>1. Cardinality({}) = 0
    BY FS_EmptySet
  <2> QED BY <1>2, <2>1 DEF Slotted, EmptyArr
<1>4. EmptyRegions \in Regions /\ EmptyRegions.occupied = {}
  <2>1. Cardinality({}) = 0
    BY FS_EmptySet
  <2> QED BY <2>1 DEF Regions, EmptyRegions
<1>5. Slots(s) = {}
  BY <1>1, <1>2 DEF Slots
<1>6. RegionsInv(s)
  BY <1>1, <1>3, <1>4, <1>5 DEF RegionsInv
<1> QED BY <1>5, <1>6 DEF s

\* Regions e are those of s and another, whose pages no region has.
Joined(e, s) ==
  /\ RegionsInv(e)
  /\ \E id : /\ id \notin Slots(s) /\ Slots(e) = Slots(s) \cup {id}
             /\ \A j \in Slots(s) : Region(e, j) = Region(s, j)
             /\ RunOf(e, id) \cap s.mapRegions.occupied = {}

\* AddressRegion__declareForMmap
LEMMA MmapJoins ==
  ASSUME NEW s, RegionsInv(s), NEW size \in Nat,
         DeclareForMmap(s, size).ar.mapRegions.size <= MaxPages
  PROVE  Joined(DeclareForMmap(s, size).ar, s)
<1> DEFINE n   == Align(size) \div PAGE
           run == RequestRegion(s.mapRegions, n)
           x   == run.start
           t   == run.cr
           r   == [type |-> "MMAP", start |-> Plus(x * PAGE, MMAP_START),
                   size |-> (n * PAGE) % WORD, crrt |-> [start |-> x, size |-> n]]
           id  == ArrAdd(s.regions, r).id
           arr == ArrAdd(s.regions, r).arr
           e   == [regions |-> arr, mapRegions |-> t]
<1>1. DeclareForMmap(s, size).ar = e
  BY DEF DeclareForMmap
<1>2. n \in Nat
  BY AlignedPages
<1>3. /\ Slotted(s.regions, MmapRecord) /\ s.mapRegions \in Regions
      /\ \A i \in Slots(s) : Placed(s, i)
      /\ s.mapRegions.occupied = UNION {RunOf(s, i) : i \in Slots(s)}
      /\ \A i, j \in Slots(s) : i # j => RunOf(s, i) \cap RunOf(s, j) = {}
  BY DEF RegionsInv
<1> HIDE DEF n
<1>4. /\ t \in Regions /\ s.mapRegions.size <= t.size
      /\ x \in Nat /\ x + n <= t.size
      /\ Cells(x, n) \cap s.mapRegions.occupied = {}
      /\ t.occupied = s.mapRegions.occupied \cup Cells(x, n)
  BY <1>2, <1>3, RequestGrants
<1>5. e.regions = arr /\ e.mapRegions = t
      /\ e = [regions |-> e.regions, mapRegions |-> e.mapRegions]
  OBVIOUS
<1>6. t.size <= MaxPages /\ t.size \in Nat /\ s.mapRegions.size \in Nat
  BY <1>1, <1>3, <1>4, <1>5 DEF Regions
<1> HIDE DEF run, x, t
<1>7. /\ r.start = MMAP_START + x * PAGE /\ r.size = n * PAGE
      /\ r.start \in Nat /\ r.size \in Nat
  <2>10. /\ x * PAGE \in Nat /\ n * PAGE \in Nat
         /\ (x + n) * PAGE = x * PAGE + n * PAGE
    BY <1>2, <1>4, PagesOrdered, Zenon
  <2>11. x + n \in Nat /\ MaxPages \in Nat
    BY <1>2, <1>4, BaseIs
  <2>12. /\ MaxPages * PAGE \in Nat
         /\ MaxPages < x + n <=> MaxPages * PAGE < (x + n) * PAGE
    BY <2>11, PagesOrdered, Zenon
  <2>1. /\ x * PAGE \in Nat /\ n * PAGE \in Nat /\ MaxPages * PAGE \in Nat
        /\ (x + n) * PAGE = x * PAGE + n * PAGE
        /\ x + n \in Nat /\ MaxPages \in Nat
        /\ MaxPages < x + n <=> MaxPages * PAGE < (x + n) * PAGE
    BY <2>10, <2>11, <2>12, Zenon
  <2>2. ~ (MaxPages < x + n)
    BY <1>2, <1>4, <1>6, BaseIs
  <2>3. /\ MMAP_START + MaxPages * PAGE < WORD /\ MMAP_START \in Nat
        /\ WORD \in Nat /\ WORD > 0
    BY SpaceAssumption, AddressAssumption
  <2> DEFINE a == x * PAGE
             b == n * PAGE
             c == MaxPages * PAGE
             d == (x + n) * PAGE
  <2>4. /\ a \in Nat /\ b \in Nat /\ c \in Nat /\ d = a + b /\ ~ (c < d)
        /\ MMAP_START + c < WORD
    BY <2>1, <2>2, <2>3
  <2>5. r.start = (a + MMAP_START) % WORD /\ r.size = b % WORD
    BY DEF Plus
  <2> HIDE DEF a, b, c, d, r
  <2>6. /\ 0 \in Int /\ a + MMAP_START \in Int /\ b \in Int
        /\ a + MMAP_START \in 0..(WORD - 1) /\ b \in 0..(WORD - 1)
        /\ a + MMAP_START = WORD * 0 + (a + MMAP_START)
        /\ b = WORD * 0 + b
    BY <2>3, <2>4
  <2>7. (a + MMAP_START) % WORD = a + MMAP_START
    BY <2>3, <2>6, QuotientIsUnique
  <2>8. b % WORD = b
    BY <2>3, <2>6, QuotientIsUnique
  <2>9. /\ r.start = MMAP_START + a /\ r.size = b
        /\ r.start \in Nat /\ r.size \in Nat
    BY <2>3, <2>4, <2>5, <2>7, <2>8
  <2> QED BY <2>9 DEF a, b
<1>8. r \in MmapRecord /\ r.crrt.start = x /\ r.crrt.size = n
  <2>1. Plus(x * PAGE, MMAP_START) \in Nat /\ (n * PAGE) % WORD \in Nat
    BY <1>7
  <2> QED BY <1>2, <1>4, <2>1 DEF MmapRecord
<1> HIDE DEF r
<1>9. /\ Slotted(arr, MmapRecord) /\ id \in Nat \ Slots(s)
      /\ Occupied(arr) = Slots(s) \cup {id} /\ arr.item[id] = r
      /\ \A j \in Slots(s) : arr.item[j] = s.regions.item[j]
  BY <1>3, <1>8, SpaceAssumption, AddHolds DEF Slots
<1> HIDE DEF id, arr, e
<1>10. Slots(e) = Slots(s) \cup {id} /\ Region(e, id) = r
  BY <1>5, <1>9 DEF Slots, Region
<1>11. \A j \in Slots(s) : Region(e, j) = Region(s, j)
  BY <1>5, <1>9 DEF Region
<1>12. RunOf(e, id) = Cells(x, n) /\ \A j \in Slots(s) : RunOf(e, j) = RunOf(s, j)
  BY <1>8, <1>10, <1>11 DEF RunOf
<1>13. Placed(e, id)
  BY <1>4, <1>5, <1>6, <1>7, <1>8, <1>10 DEF Placed
<1>14. ASSUME NEW j \in Slots(s) PROVE Placed(e, j)
  <2>1. Placed(s, j) /\ Region(e, j) = Region(s, j)
    BY <1>3, <1>11
  <2>2. Region(s, j).crrt.start \in Nat /\ Region(s, j).crrt.size \in Nat
    BY RegionIs
  <2> DEFINE u == Region(s, j).crrt.start + Region(s, j).crrt.size
  <2>3. u \in Nat /\ u <= s.mapRegions.size
    BY <2>1, <2>2 DEF Placed
  <2>4. u <= t.size
    <3> HIDE DEF u
    <3> QED BY <1>4, <1>6, <2>3
  <2> QED BY <1>5, <1>6, <2>1, <2>4 DEF Placed
<1>15. e.mapRegions.occupied = UNION {RunOf(e, i) : i \in Slots(e)}
  BY <1>3, <1>4, <1>5, <1>10, <1>12
<1>16. \A i, j \in Slots(e) : i # j => RunOf(e, i) \cap RunOf(e, j) = {}
  <2>1. \A i \in Slots(s) : RunOf(e, i) \cap RunOf(e, id) = {}
    BY <1>3, <1>4, <1>12
  <2>2. \A i, j \in Slots(s) : i # j => RunOf(e, i) \cap RunOf(e, j) = {}
    BY <1>3, <1>12
  <2> QED BY <1>10, <2>1, <2>2
<1>17. RegionsInv(e)
  BY <1>4, <1>5, <1>9, <1>10, <1>13, <1>14, <1>15, <1>16 DEF RegionsInv
<1>18. RunOf(e, id) \cap s.mapRegions.occupied = {}
  BY <1>4, <1>12
<1> QED BY <1>1, <1>9, <1>10, <1>11, <1>17, <1>18 DEF Joined

\* Regions e are those of s without the one in slot i.
Parted(e, s, i) ==
  /\ RegionsInv(e) /\ i \in Slots(s) /\ Slots(e) = Slots(s) \ {i}
  /\ \A j \in Slots(e) : Region(e, j) = Region(s, j)
  /\ e.mapRegions.occupied = s.mapRegions.occupied \ RunOf(s, i)

\* AddressRegion__unmap, when it finds a region.
LEMMA UnmapParts ==
  ASSUME NEW s, RegionsInv(s), NEW a \in Nat, NEW size, Unmap(s, a, size).start # NULL
  PROVE  \E i : /\ Parted(Unmap(s, a, size).ar, s, i) /\ StrictlyIn(Region(s, i), a)
                /\ Unmap(s, a, size).start = Region(s, i).start
                /\ Region(s, i).size = size
<1> DEFINE i == Max(SlotsAt(s, a))
           r == Region(s, i)
           arr == ArrDel(s.regions, i)
           t == Release(s.mapRegions, r.crrt.start, r.crrt.size)
           e == [regions |-> arr, mapRegions |-> t]
<1>1. Unmappable(s, a, size)
  BY DEF Unmap
<1>2. Unmap(s, a, size).ar = e /\ Unmap(s, a, size).start = r.start /\ r.size = size
  BY <1>1 DEF Unmap, Unmappable
<1>3. i \in SlotsAt(s, a)
  <2> DEFINE S == SlotsAt(s, a)
             m == s.regions.length
  <2>1. S # {}
    BY <1>1 DEF Unmappable, IsInRegion
  <2>2. m \in Nat
    BY DEF RegionsInv, Slotted
  <2>3. S \subseteq 0..m
    BY <2>2 DEF SlotsAt, Slots, Occupied
  <2> HIDE DEF S, m
  <2>4. Max(S) \in S
    BY <2>1, <2>2, <2>3, MaxOfNats
  <2> QED BY <2>4 DEF S
<1>4. i \in Slots(s) /\ StrictlyIn(r, a)
  BY <1>3 DEF SlotsAt
<1> HIDE DEF i
<1>5. /\ Slotted(s.regions, MmapRecord) /\ s.mapRegions \in Regions
      /\ \A j \in Slots(s) : Placed(s, j)
      /\ s.mapRegions.occupied = UNION {RunOf(s, j) : j \in Slots(s)}
      /\ \A j, k \in Slots(s) : j # k => RunOf(s, j) \cap RunOf(s, k) = {}
  BY DEF RegionsInv
<1>6. /\ r.crrt.start \in Nat /\ r.crrt.size \in Nat
      /\ RunOf(s, i) \subseteq s.mapRegions.occupied
      /\ RunOf(s, i) = Cells(r.crrt.start, r.crrt.size)
  BY <1>4, RegionIs DEF RunOf
<1>7. /\ Slotted(arr, MmapRecord) /\ Occupied(arr) = Slots(s) \ {i}
      /\ \A j \in Occupied(arr) : arr.item[j] = s.regions.item[j]
  BY <1>4, <1>5, SpaceAssumption, DelHolds DEF Slots
<1>8. /\ t \in Regions /\ t.size = s.mapRegions.size
      /\ t.occupied = s.mapRegions.occupied \ RunOf(s, i)
  BY <1>5, <1>6, ReleaseFrees
<1> HIDE DEF arr, t, r
<1>9. /\ e.regions = arr /\ e.mapRegions = t
      /\ e = [regions |-> e.regions, mapRegions |-> e.mapRegions]
  OBVIOUS
<1> HIDE DEF e
<1>10. Slots(e) = Slots(s) \ {i}
  BY <1>7, <1>9 DEF Slots
<1>11. \A j \in Slots(e) : Region(e, j) = Region(s, j)
  BY <1>7, <1>9, <1>10 DEF Region, Slots
<1>12. \A j \in Slots(e) : RunOf(e, j) = RunOf(s, j)
  BY <1>11 DEF RunOf
<1>13. \A j \in Slots(e) : Placed(e, j)
  BY <1>5, <1>8, <1>9, <1>10, <1>11 DEF Placed
<1>14. e.mapRegions.occupied = UNION {RunOf(e, j) : j \in Slots(e)}
  <2>1. ASSUME NEW c \in s.mapRegions.occupied, c \notin RunOf(s, i)
        PROVE  \E j \in Slots(e) : c \in RunOf(e, j)
    BY <1>5, <1>10, <1>12, <2>1
  <2>2. ASSUME NEW j \in Slots(e), NEW c \in RunOf(e, j)
        PROVE  c \in s.mapRegions.occupied /\ c \notin RunOf(s, i)
    BY <1>4, <1>5, <1>10, <1>12
  <2> QED BY <1>8, <1>9, <2>1, <2>2
<1>15. \A j, k \in Slots(e) : j # k => RunOf(e, j) \cap RunOf(e, k) = {}
  BY <1>5, <1>10, <1>12
<1>16. RegionsInv(e)
  BY <1>7, <1>8, <1>9, <1>10, <1>13, <1>14, <1>15 DEF RegionsInv, Slots
<1>17. Parted(e, s, i)
  BY <1>4, <1>8, <1>9, <1>10, <1>11, <1>16 DEF Parted
<1> QED BY <1>2, <1>4, <1>17 DEF r

-----------------------------------------------------------------------------
(* What the tables hold for the addresses of pages *)

LEMMA NoTables ==
  /\ IsTree(<<EmptyTable>>) /\ \A v \in Nat : PageIn(<<EmptyTable>>, v) = 0
<1> DEFINE ts  == <<EmptyTable>>
           lev == [t \in 1..1 |-> 0]
<1>1. ts \in Seq(Table) /\ Len(ts) = 1 /\ \A i \in Slot : ts[1][i] = 0
  BY DEF EmptyTable, Table
<1>2. lev \in [1..1 -> Depth] /\ lev[1] = 0
  BY DEF Depth
<1> HIDE DEF ts, lev
<1>3. Tree(ts, lev)
  BY <1>1, <1>2 DEF Tree
<1>4. ASSUME NEW v \in Nat PROVE PageIn(ts, v) = 0
  <2>1. Index(v, 0) \in Slot
    BY IndexIn DEF Depth
  <2>2. First(ts, v) = 0
    BY <1>1, <2>1 DEF First
  <2> QED BY <2>2, PageInIs DEF Second, Third, Entry
<1> QED BY <1>3, <1>4 DEF IsTree, ts

\* The addresses pages begin at, by their numbers.
LEMMA PageAddressIs ==
  ASSUME NEW v
  PROVE  v \in PageAddress <=> /\ v \in Nat /\ PageNo(v) < AllPages
                               /\ v = PageNo(v) * PAGE
<1>0. 0 \in 0..(PAGE - 1) /\ AllPages \in Nat
  BY SlotNumbers
<1>1. ASSUME v \in PageAddress
      PROVE  v \in Nat /\ PageNo(v) < AllPages /\ v = PageNo(v) * PAGE
  <2>1. PICK i \in 0..(AllPages - 1) : v = i * PAGE
    BY <1>1 DEF PageAddress
  <2>2. v \in Nat /\ PageNo(v) = i
    BY <1>0, <2>1, PageBegins
  <2> QED BY <1>0, <2>1, <2>2
<1>2. ASSUME v \in Nat, PageNo(v) < AllPages, v = PageNo(v) * PAGE
      PROVE  v \in PageAddress
  <2>1. PageNo(v) \in 0..(AllPages - 1)
    BY <1>0, <1>2, PageNoIs
  <2> QED BY <1>2, <2>1 DEF PageAddress
<1> QED BY <1>1, <1>2

LEMMA NumberedPage ==
  ASSUME NEW i \in Nat, i < AllPages
  PROVE  i * PAGE \in PageAddress /\ PageNo(i * PAGE) = i
<1>1. 0 \in 0..(PAGE - 1)
  BY SlotNumbers
<1>2. i * PAGE \in Nat /\ PageNo(i * PAGE) = i
  BY <1>1, PageBegins
<1> QED BY <1>2, PageAddressIs

\* Where the page of an address begins, and tables say the same.
LEMMA PageOfAddress ==
  ASSUME NEW v \in Nat, PageNo(v) < AllPages
  PROVE  /\ PageNo(v) * PAGE \in PageAddress
         /\ PageNo(PageNo(v) * PAGE) = PageNo(v)
         /\ \A ts : PageIn(ts, PageNo(v) * PAGE) = PageIn(ts, v)
<1> DEFINE w == PageNo(v) * PAGE
<1>1. PageNo(v) \in Nat
  BY PageNoIs
<1>2. w \in PageAddress /\ PageNo(w) = PageNo(v)
  BY <1>1, NumberedPage
<1>3. w \in Nat
  BY <1>2, PageAddressIs
<1> HIDE DEF w
<1>4. Alike(w, v)
  BY <1>2, <1>3, AlikeIs
<1>5. \A ts : PageIn(ts, w) = PageIn(ts, v)
  BY <1>4, AlikePages
<1> QED BY <1>2, <1>5 DEF w

\* Page addresses that are alike are the same.
LEMMA ApartPages ==
  ASSUME NEW u \in PageAddress, NEW v \in Nat, PageNo(v) < AllPages
  PROVE  Alike(u, v) <=> u = PageNo(v) * PAGE
<1>1. u \in Nat /\ PageNo(u) < AllPages /\ u = PageNo(u) * PAGE
  BY PageAddressIs
<1>2. PageNo(PageNo(v) * PAGE) = PageNo(v)
  BY PageOfAddress
<1>3. Alike(u, v) => PageNo(u) = PageNo(v)
  BY <1>1, AlikeIs
<1>4. PageNo(u) = PageNo(v) => Alike(u, v)
  BY <1>1, AlikeIs
<1> QED BY <1>1, <1>2, <1>3, <1>4

\* The pages tables hold, and for which addresses.
MappedIn(ts) == {v \in PageAddress : PageIn(ts, v) # 0}

LEMMA MapVaddrIs ==
  ASSUME NEW ts, IsTree(ts), NEW v \in Nat, PageNo(v) < AllPages,
         NEW x \in PageId \cup {0}
  PROVE  /\ IsTree(MapVaddr(ts, x, v))
         /\ \A u \in PageAddress :
              PageIn(MapVaddr(ts, x, v), u)
                = IF u = PageNo(v) * PAGE THEN x ELSE PageIn(ts, u)
<1>1. /\ IsTree(MapVaddr(ts, x, v))
      /\ \A u \in Nat : PageIn(MapVaddr(ts, x, v), u)
                          = IF Alike(u, v) THEN x ELSE PageIn(ts, u)
  BY MapVaddrMaps DEF MapsTo
<1>2. \A u \in PageAddress : u \in Nat
  BY PageAddressIs
<1>3. \A u \in PageAddress : Alike(u, v) <=> u = PageNo(v) * PAGE
  BY ApartPages
<1> QED BY <1>1, <1>2, <1>3

\* AddressSpace__unmap of the pages of a region.
LEMMA EmptiedIs ==
  ASSUME NEW ts, IsTree(ts), NEW s, RegionsInv(s), NEW i \in Slots(s)
  PROVE  LET r == Region(s, i)
             c == Emptied(ts, r.start, r.size)
             pages == PagesOf(r.start, r.size)
         IN  /\ IsTree(c.tables) /\ pages \subseteq PageAddress
             /\ \A u \in PageAddress :
                  PageIn(c.tables, u) = IF u \in pages THEN 0 ELSE PageIn(ts, u)
             /\ c.pages = {PageIn(ts, u) : u \in pages} \ {0}
<1> DEFINE r == Region(s, i)
           c == Emptied(ts, r.start, r.size)
           pages == PagesOf(r.start, r.size)
           x == r.crrt.start
           n == r.crrt.size
<1>1. /\ x \in Nat /\ n \in Nat /\ r.start \in Nat /\ r.size \in Nat
      /\ x + n <= MaxPages
  BY RegionIs
<1>2. /\ Indents(r.size) = n
      /\ \A k \in 1..n : Adr(r.start, k) = (Base + x + k - 1) * PAGE
  BY PagesAre
<1>3. pages = {Adr(r.start, k) : k \in 1..n}
  BY <1>2 DEF PagesOf, Adr
<1>4. DoneTo(c, ts, r.start, n)
  BY <1>1, <1>2, EmptiedDone
<1> HIDE DEF c, pages, r, x, n
<1>5. ASSUME NEW k \in 1..n
      PROVE  /\ Adr(r.start, k) \in PageAddress
             /\ \A u \in PageAddress : Alike(u, Adr(r.start, k)) <=> u = Adr(r.start, k)
  <2> DEFINE v == Adr(r.start, k)
             q == Base + x + k - 1
  <2>1. q \in Nat /\ q < AllPages
    BY <1>1, BaseIs, SlotNumbers
  <2>2. v = q * PAGE
    BY <1>2
  <2> HIDE DEF v, q
  <2>3. v \in PageAddress /\ PageNo(v) = q
    BY <2>1, <2>2, NumberedPage
  <2>4. v \in Nat /\ PageNo(v) < AllPages
    BY <2>3, PageAddressIs
  <2>5. \A u \in PageAddress : Alike(u, v) <=> u = v
    BY <2>2, <2>3, <2>4, ApartPages
  <2> QED BY <2>3, <2>5 DEF v
<1>6. pages \subseteq PageAddress
  BY <1>3, <1>5
<1>7. ASSUME NEW u \in PageAddress
      PROVE  PageIn(c.tables, u) = IF u \in pages THEN 0 ELSE PageIn(ts, u)
  <2>1. u \in Nat
    BY PageAddressIs
  <2>2. PageIn(c.tables, u) = IF \E j \in 1..n : Alike(u, Adr(r.start, j)) THEN 0
                              ELSE PageIn(ts, u)
    BY <1>4, <2>1 DEF DoneTo
  <2>3. u \in pages <=> \E j \in 1..n : Alike(u, Adr(r.start, j))
    BY <1>3, <1>5
  <2> QED BY <2>2, <2>3
<1>8. c.pages = {PageIn(ts, u) : u \in pages} \ {0}
  <2>1. c.pages = {PageIn(ts, Adr(r.start, j)) : j \in 1..n} \ {0}
    BY <1>4 DEF DoneTo
  <2>2. {PageIn(ts, Adr(r.start, j)) : j \in 1..n} = {PageIn(ts, u) : u \in pages}
    BY <1>3
  <2> QED BY <2>1, <2>2
<1>9. IsTree(c.tables)
  BY <1>4 DEF DoneTo
<1> QED BY <1>6, <1>7, <1>8, <1>9 DEF c, pages, r

-----------------------------------------------------------------------------
(* The list of pages *)

\* A list with one item more, and whether items are on it once.
LEMMA AppendHas ==
  ASSUME NEW T, NEW q \in Seq(T), NEW x \in T
  PROVE  /\ Append(q, x) \in Seq(T) /\ Range(Append(q, x)) = Range(q) \cup {x}
         /\ IsInjective(q) /\ x \notin Range(q) => IsInjective(Append(q, x))
<1> DEFINE a == Append(q, x)
           n == Len(q)
<1>1. /\ a \in Seq(T) /\ Len(a) = n + 1 /\ n \in Nat
      /\ \A i \in 1..n : a[i] = q[i]
      /\ a[n + 1] = x
  OBVIOUS
<1>2. DOMAIN a = 1..(n + 1) /\ DOMAIN q = 1..n
  BY <1>1
<1> HIDE DEF a, n
<1>3. 1..(n + 1) = (1..n) \cup {n + 1}
  BY <1>1
<1>4. Range(a) = Range(q) \cup {x}
  BY <1>1, <1>2, <1>3 DEF Range
<1>5. ASSUME IsInjective(q), x \notin Range(q) PROVE IsInjective(a)
  <2>1. \A i \in 1..n : q[i] # x
    BY <1>2, <1>5 DEF Range
  <2>2. \A i, j \in 1..n : q[i] = q[j] => i = j
    BY <1>2, <1>5 DEF IsInjective
  <2>3. \A i, j \in DOMAIN a : a[i] = a[j] => i = j
    BY <1>1, <1>2, <1>3, <2>1, <2>2
  <2> QED BY <2>3 DEF IsInjective
<1> QED BY <1>1, <1>4, <1>5 DEF a

\* Part of a list has the items it should, and once if the list has.
LEMMA AmongHas ==
  ASSUME NEW T, NEW s \in Seq(T), NEW P
  PROVE  /\ Among(s, P) \in Seq(T) /\ Range(Among(s, P)) = Range(s) \cap P
         /\ IsInjective(s) => IsInjective(Among(s, P))
<1> DEFINE n == Len(s)
           Upto(i) == {s[j] : j \in 1..i}
           Has(q, i) == /\ q \in Seq(T) /\ Range(q) = Upto(i) \cap P
                        /\ IsInjective(s) => IsInjective(q)
<1>1. n \in Nat /\ DOMAIN s = 1..n /\ \A i \in 1..n : s[i] \in T
  OBVIOUS
<1>2. PICK k : /\ DOMAIN k = 0..n /\ k[0] = <<>>
               /\ \A i \in 1..n : k[i] = IF s[i] \in P THEN Append(k[i - 1], s[i])
                                         ELSE k[i - 1]
               /\ Among(s, P) = k[n]
  BY <1>1, AmongIs
<1> HIDE DEF n
<1>3. Has(k[0], 0)
  <2>1. <<>> \in Seq(T) /\ Range(<<>>) = {} /\ IsInjective(<<>>)
    BY DEF Range, IsInjective
  <2>2. Upto(0) = {}
    OBVIOUS
  <2> QED BY <1>2, <2>1, <2>2
<1>4. ASSUME NEW i \in 1..n, Has(k[i - 1], i - 1) PROVE Has(k[i], i)
  <2> DEFINE q == k[i - 1]
  <2>1. /\ q \in Seq(T) /\ Range(q) = Upto(i - 1) \cap P
        /\ IsInjective(s) => IsInjective(q)
    BY <1>4
  <2>2. Upto(i) = Upto(i - 1) \cup {s[i]}
    <3>1. 1..i = (1..(i - 1)) \cup {i}
      BY <1>1
    <3> QED BY <3>1
  <2>3. IsInjective(s) => s[i] \notin Upto(i - 1)
    <3>1. \A j \in 1..(i - 1) : j \in 1..n /\ j # i
      BY <1>1
    <3> QED BY <1>1, <3>1 DEF IsInjective
  <2>4. s[i] \in T
    BY <1>1
  <2>5. k[i] = IF s[i] \in P THEN Append(q, s[i]) ELSE q
    BY <1>2
  <2> HIDE DEF q, Upto
  <2>6. /\ Append(q, s[i]) \in Seq(T) /\ Range(Append(q, s[i])) = Range(q) \cup {s[i]}
        /\ IsInjective(q) /\ s[i] \notin Range(q) => IsInjective(Append(q, s[i]))
    BY <2>1, <2>4, AppendHas
  <2>7. CASE s[i] \in P
    BY <2>1, <2>2, <2>3, <2>5, <2>6, <2>7
  <2>8. CASE s[i] \notin P
    BY <2>1, <2>2, <2>5, <2>8
  <2> QED BY <2>7, <2>8
<1> DEFINE Bad == {i \in 0..n : ~ Has(k[i], i)}
<1>5. Bad = {}
  <2>1. SUFFICES ASSUME Bad # {} PROVE FALSE
    OBVIOUS
  <2>2. Bad \subseteq Nat
    OBVIOUS
  <2> DEFINE m == Min(Bad)
  <2> HIDE DEF Bad
  <2>3. m \in Bad /\ \A i \in Bad : m <= i
    BY <2>1, <2>2, MinOfNats
  <2> HIDE DEF m, Has
  <2>4. m \in 0..n /\ ~ Has(k[m], m)
    BY <2>3 DEF Bad
  <2>5. m # 0
    BY <1>3, <2>4
  <2>6. m - 1 \in 0..n /\ m \in 1..n /\ ~ (m <= m - 1)
    BY <1>1, <2>4, <2>5
  <2>7. Has(k[m - 1], m - 1)
    BY <2>3, <2>6 DEF Bad
  <2> QED BY <1>4, <2>4, <2>6, <2>7
<1>6. Has(k[n], n)
  <2> HIDE DEF Has
  <2>1. n \in 0..n
    BY <1>1
  <2> QED BY <1>5, <2>1
<1>7. Upto(n) = Range(s)
  BY <1>1 DEF Range
<1> QED BY <1>2, <1>6, <1>7

-----------------------------------------------------------------------------
(* The inductive invariant *)

\* The pages tables hold are those of H, each once and in a region.
PagesHeld(ts, s, H) ==
  /\ \A v \in MappedIn(ts) : PageIn(ts, v) \in H /\ IsInRegion(s, v)
  /\ \A u, v \in MappedIn(ts) : PageIn(ts, u) = PageIn(ts, v) => u = v
  /\ \A x \in H : \E v \in MappedIn(ts) : PageIn(ts, v) = x

\* And the list those the process has.
Listed(list, need, have) ==
  /\ list \in Seq(PageId) /\ IsInjective(list) /\ Range(list) = have
  /\ need \subseteq have

Accounts(ts, s, list, need, have) ==
  /\ IsTree(ts) /\ RegionsInv(s) /\ Listed(list, need, have)
  /\ PagesHeld(ts, s, have \ need)

SpaceInv == Accounts(tables, ar, pageList, needFree, live)

LEMMA SpaceStarts == SpaceInit => SpaceInv
<1> SUFFICES ASSUME SpaceInit PROVE SpaceInv
  OBVIOUS
<1>1. /\ tables = <<EmptyTable>> /\ ar = EmptySpace
      /\ pageList = <<>> /\ needFree = {} /\ live = {}
  BY DEF SpaceInit
<1>2. IsTree(tables) /\ MappedIn(tables) = {}
  <2>1. \A v \in PageAddress : v \in Nat
    BY PageAddressIs
  <2> QED BY <1>1, <2>1, NoTables DEF MappedIn
<1>3. PagesHeld(tables, ar, live \ needFree)
  BY <1>1, <1>2 DEF PagesHeld
<1>4. Listed(pageList, needFree, live)
  BY <1>1 DEF Listed, IsInjective, Range
<1>5. RegionsInv(ar)
  BY <1>1, NoRegions
<1> QED BY <1>2, <1>3, <1>4, <1>5 DEF SpaceInv, Accounts

\* Tables that hold the same.
LEMMA SamePages ==
  ASSUME NEW ts, NEW us, \A v \in Nat : PageIn(us, v) = PageIn(ts, v), NEW s, NEW H
  PROVE  MappedIn(us) = MappedIn(ts) /\ (PagesHeld(ts, s, H) => PagesHeld(us, s, H))
<1>1. \A v \in PageAddress : v \in Nat
  BY PageAddressIs
<1>2. MappedIn(us) = MappedIn(ts) /\ \A v \in MappedIn(ts) : PageIn(us, v) = PageIn(ts, v)
  BY <1>1 DEF MappedIn
<1> QED BY <1>2 DEF PagesHeld

\* A page given to an address that has none.
LEMMA FaultHolds ==
  ASSUME NEW ts, NEW s, NEW H, IsTree(ts), RegionsInv(s), PagesHeld(ts, s, H),
         NEW v \in Nat, IsInRegion(s, v), PageIn(ts, v) = 0,
         NEW x \in PageId, x \notin H
  PROVE  LET us == MapVaddr(ts, x, v)
             w  == PageNo(v) * PAGE
         IN  /\ IsTree(us) /\ PagesHeld(us, s, H \cup {x})
             /\ w \in PageAddress \ MappedIn(ts) /\ IsInRegion(s, w)
             /\ MappedIn(us) = MappedIn(ts) \cup {w}
             /\ \A u \in MappedIn(us) :
                  PageIn(us, u) = IF u = w THEN x ELSE PageIn(ts, u)
<1> DEFINE us == MapVaddr(ts, x, v)
           w  == PageNo(v) * PAGE
<1>1. PageNo(v) < AllPages
  BY InRegionIs
<1>2. /\ w \in PageAddress /\ PageNo(w) = PageNo(v)
      /\ PageIn(ts, w) = 0
  BY <1>1, PageOfAddress
<1>3. /\ IsTree(us)
      /\ \A u \in PageAddress : PageIn(us, u) = IF u = w THEN x ELSE PageIn(ts, u)
  BY <1>1, MapVaddrIs
<1> HIDE DEF us, w
<1>4. IsInRegion(s, w)
  <2>1. w \in Nat
    BY <1>2, PageAddressIs
  <2>2. \E c \in s.mapRegions.occupied : PageNo(v) = Base + c
    BY InRegionIs
  <2> QED BY <1>2, <2>1, <2>2, InRegionIs
<1>5. x # 0 /\ w \notin MappedIn(ts)
  BY <1>2, Entry0 DEF MappedIn
<1>6. MappedIn(us) = MappedIn(ts) \cup {w}
  BY <1>2, <1>3, <1>5 DEF MappedIn
<1>7. \A u \in MappedIn(us) : PageIn(us, u) = IF u = w THEN x ELSE PageIn(ts, u)
  BY <1>3 DEF MappedIn
<1>8. PagesHeld(us, s, H \cup {x})
  <2>1. \A u \in MappedIn(us) : PageIn(us, u) \in H \cup {x} /\ IsInRegion(s, u)
    BY <1>4, <1>6, <1>7 DEF PagesHeld
  <2>2. \A u, z \in MappedIn(us) : PageIn(us, u) = PageIn(us, z) => u = z
    BY <1>6, <1>7 DEF PagesHeld
  <2>3. \A y \in H \cup {x} : \E u \in MappedIn(us) : PageIn(us, u) = y
    BY <1>5, <1>6, <1>7 DEF PagesHeld
  <2> QED BY <2>1, <2>2, <2>3 DEF PagesHeld
<1> QED BY <1>2, <1>3, <1>4, <1>5, <1>6, <1>7, <1>8 DEF us, w

\* The pages of region i of s collected from tables that hold those of H, and
\* of regions e, those of s without it.
Collects(ts, s, H, e, i) ==
  LET r == Region(s, i)
      c == Emptied(ts, r.start, r.size)
      pages == PagesOf(r.start, r.size)
  IN  /\ IsTree(c.tables) /\ PagesHeld(c.tables, e, H \ c.pages)
      /\ c.pages \subseteq H
      /\ MappedIn(c.tables) = MappedIn(ts) \ pages
      /\ \A u \in MappedIn(c.tables) : PageIn(c.tables, u) = PageIn(ts, u)

LEMMA MunmapHolds ==
  ASSUME NEW ts, NEW s, NEW H, IsTree(ts), RegionsInv(s), PagesHeld(ts, s, H),
         NEW e, NEW i, Parted(e, s, i)
  PROVE  Collects(ts, s, H, e, i)
<1> DEFINE r == Region(s, i)
           c == Emptied(ts, r.start, r.size)
           pages == PagesOf(r.start, r.size)
           us == c.tables
           got == c.pages
<1>1. /\ RegionsInv(e) /\ i \in Slots(s)
      /\ e.mapRegions.occupied = s.mapRegions.occupied \ RunOf(s, i)
  BY DEF Parted
<1>2. /\ IsTree(us) /\ pages \subseteq PageAddress
      /\ \A u \in PageAddress :
           PageIn(us, u) = IF u \in pages THEN 0 ELSE PageIn(ts, u)
      /\ got = {PageIn(ts, u) : u \in pages} \ {0}
  BY <1>1, EmptiedIs
<1>3. pages = {(Base + n) * PAGE : n \in RunOf(s, i)}
  BY <1>1, PagesAre
<1> HIDE DEF r, c, pages, us, got
<1>4. MappedIn(us) = MappedIn(ts) \ pages
  BY <1>2 DEF MappedIn
<1>5. \A u \in MappedIn(us) : PageIn(us, u) = PageIn(ts, u)
  BY <1>2, <1>4 DEF MappedIn
<1>6. got = {PageIn(ts, u) : u \in MappedIn(ts) \cap pages}
  BY <1>2 DEF MappedIn
<1>7. got \subseteq H
  BY <1>6 DEF PagesHeld
<1>8. ASSUME NEW v \in MappedIn(us) PROVE IsInRegion(e, v)
  <2>1. /\ v \in PageAddress /\ v \notin pages /\ IsInRegion(s, v)
    BY <1>4 DEF MappedIn, PagesHeld
  <2>2. v \in Nat /\ v = PageNo(v) * PAGE
    BY <2>1, PageAddressIs
  <2>3. PICK n \in s.mapRegions.occupied : PageNo(v) = Base + n
    BY <2>1, <2>2, InRegionIs
  <2>4. n \notin RunOf(s, i)
    BY <1>3, <2>1, <2>2, <2>3
  <2>5. n \in e.mapRegions.occupied
    BY <1>1, <2>4
  <2> QED BY <1>1, <2>2, <2>3, <2>5, InRegionIs
<1>9. PagesHeld(us, e, H \ got)
  <2>1. \A v \in MappedIn(us) : PageIn(us, v) \in H \ got
    BY <1>4, <1>5, <1>6 DEF PagesHeld
  <2>2. \A u, v \in MappedIn(us) : PageIn(us, u) = PageIn(us, v) => u = v
    BY <1>4, <1>5 DEF PagesHeld
  <2>3. \A x \in H \ got : \E v \in MappedIn(us) : PageIn(us, v) = x
    BY <1>4, <1>5, <1>6 DEF PagesHeld
  <2> QED BY <1>8, <2>1, <2>2, <2>3 DEF PagesHeld
<1> QED BY <1>2, <1>4, <1>5, <1>7, <1>9 DEF r, c, pages, us, got, Collects

-----------------------------------------------------------------------------
(* The steps *)

LEMMA AddressIn ==
  ASSUME NEW v \in Touched
  PROVE  v \in Nat
BY SpaceAssumption, AddressAssumption DEF Address

LEMMA SizeIn ==
  ASSUME NEW n \in Sizes
  PROVE  n \in Nat
BY SpaceAssumption, AddressAssumption DEF Address

LEMMA MmapAccounts ==
  ASSUME SpaceInv, NEW n \in Sizes, Mmap(n)
  PROVE  SpaceInv' /\ Joined(ar', ar)
<1>1. /\ IsTree(tables) /\ RegionsInv(ar) /\ Listed(pageList, needFree, live)
      /\ PagesHeld(tables, ar, live \ needFree)
  BY DEF SpaceInv, Accounts
<1>2. /\ ar' = DeclareForMmap(ar, n).ar /\ ar'.mapRegions.size <= MaxPages
      /\ tables' = tables /\ pageList' = pageList /\ needFree' = needFree
      /\ live' = live
  BY DEF Mmap
<1>3. Joined(ar', ar)
  BY <1>1, <1>2, SizeIn, MmapJoins
<1>4. \A v : IsInRegion(ar, v) => IsInRegion(ar', v)
  BY <1>3 DEF Joined, IsInRegion, SlotsAt
<1>5. PagesHeld(tables, ar', live \ needFree)
  BY <1>1, <1>4 DEF PagesHeld
<1>6. RegionsInv(ar')
  BY <1>3 DEF Joined
<1> QED BY <1>1, <1>2, <1>3, <1>5, <1>6 DEF SpaceInv, Accounts

LEMMA LookupAccounts ==
  ASSUME SpaceInv, NEW v \in Touched, Lookup(v)
  PROVE  /\ SpaceInv' /\ ar' = ar /\ MappedIn(tables') = MappedIn(tables)
         /\ \A u \in PageAddress : PageIn(tables', u) = PageIn(tables, u)
<1>1. /\ IsTree(tables) /\ RegionsInv(ar) /\ Listed(pageList, needFree, live)
      /\ PagesHeld(tables, ar, live \ needFree)
  BY DEF SpaceInv, Accounts
<1>2. /\ tables' = Walk(tables, v).tables
      /\ ar' = ar /\ pageList' = pageList /\ needFree' = needFree /\ live' = live
  BY DEF Lookup
<1>3. IsTree(tables') /\ \A u \in Nat : PageIn(tables', u) = PageIn(tables, u)
  BY <1>1, <1>2, AddressIn, LookupKeeps
<1>4. /\ PagesHeld(tables', ar, live \ needFree)
      /\ MappedIn(tables') = MappedIn(tables)
  BY <1>1, <1>3, SamePages
<1>5. \A u \in PageAddress : u \in Nat
  BY PageAddressIs
<1> QED BY <1>1, <1>2, <1>3, <1>4, <1>5 DEF SpaceInv, Accounts

\* What of Fault the refinement needs besides.
Faulted(w, x) ==
  /\ w \in PageAddress \ MappedIn(tables) /\ IsInRegion(ar, w)
  /\ x \in PageId \ live /\ ar' = ar
  /\ MappedIn(tables') = MappedIn(tables) \cup {w}
  /\ \A u \in MappedIn(tables') :
       PageIn(tables', u) = IF u = w THEN x ELSE PageIn(tables, u)

LEMMA FaultAccounts ==
  ASSUME SpaceInv, NEW v \in Touched, Fault(v)
  PROVE  SpaceInv' /\ \E w, x : Faulted(w, x)
<1>1. /\ IsTree(tables) /\ RegionsInv(ar) /\ Listed(pageList, needFree, live)
      /\ PagesHeld(tables, ar, live \ needFree)
  BY DEF SpaceInv, Accounts
<1>2. IsInRegion(ar, v) /\ GetPaddr(tables, v) = 0 /\ ar' = ar /\ needFree' = needFree
  BY DEF Fault
<1>3. PICK x \in PageId \ live : /\ live' = live \cup {x}
                                 /\ tables' = MapVaddr(tables, x, v)
                                 /\ pageList' = Append(pageList, x)
  BY DEF Fault
<1>4. PageIn(tables, v) = 0
  BY <1>1, <1>2, AddressIn, LookupKeeps
<1> DEFINE w == PageNo(v) * PAGE
           H == live \ needFree
           us == tables'
<1>5. x \notin H /\ x \in PageId /\ v \in Nat
  BY <1>3, AddressIn
<1>6. /\ IsTree(us) /\ PagesHeld(us, ar, H \cup {x})
      /\ w \in PageAddress \ MappedIn(tables) /\ IsInRegion(ar, w)
      /\ MappedIn(us) = MappedIn(tables) \cup {w}
      /\ \A u \in MappedIn(us) :
           PageIn(us, u) = IF u = w THEN x ELSE PageIn(tables, u)
  <2> DEFINE m == MapVaddr(tables, x, v)
  <2>1. PagesHeld(tables, ar, H)
    BY <1>1
  <2> HIDE DEF H
  <2>2. /\ IsTree(m) /\ PagesHeld(m, ar, H \cup {x})
        /\ w \in PageAddress \ MappedIn(tables) /\ IsInRegion(ar, w)
        /\ MappedIn(m) = MappedIn(tables) \cup {w}
        /\ \A u \in MappedIn(m) :
             PageIn(m, u) = IF u = w THEN x ELSE PageIn(tables, u)
    BY <1>1, <1>2, <1>4, <1>5, <2>1, FaultHolds
  <2>3. us = m
    BY <1>3
  <2> HIDE DEF m, us
  <2> QED BY <2>2, <2>3
<1>7. live' \ needFree' = H \cup {x}
  BY <1>1, <1>2, <1>3 DEF Listed
<1>8. Listed(pageList', needFree', live')
  <2>1. /\ Append(pageList, x) \in Seq(PageId)
        /\ Range(Append(pageList, x)) = Range(pageList) \cup {x}
        /\ IsInjective(pageList) /\ x \notin Range(pageList)
             => IsInjective(Append(pageList, x))
    BY <1>1, <1>5, AppendHas DEF Listed
  <2> QED BY <1>1, <1>2, <1>3, <2>1 DEF Listed
<1>9. Faulted(w, x)
  BY <1>2, <1>3, <1>6 DEF Faulted
<1>10. SpaceInv'
  BY <1>1, <1>2, <1>6, <1>7, <1>8 DEF SpaceInv, Accounts
<1> QED BY <1>9, <1>10

\* What of Munmap the refinement needs besides.
Unmapped(i) ==
  LET r == Region(ar, i)
  IN  /\ Parted(ar', ar, i) /\ PagesOf(r.start, r.size) # {}
      /\ MappedIn(tables') = MappedIn(tables) \ PagesOf(r.start, r.size)
      /\ \A u \in MappedIn(tables') : PageIn(tables', u) = PageIn(tables, u)

LEMMA MunmapAccounts ==
  ASSUME SpaceInv, NEW a \in Touched, NEW n \in Sizes, Munmap(a, n)
  PROVE  SpaceInv' /\ \E i : Unmapped(i)
<1>1. /\ IsTree(tables) /\ RegionsInv(ar) /\ Listed(pageList, needFree, live)
      /\ PagesHeld(tables, ar, live \ needFree)
  BY DEF SpaceInv, Accounts
<1> DEFINE u == Unmap(ar, a, n)
           c == Emptied(tables, u.start, n)
<1>2. /\ needFree = {} /\ u.start # NULL /\ ar' = u.ar /\ tables' = c.tables
      /\ needFree' = c.pages /\ pageList' = pageList /\ live' = live
  BY DEF Munmap
<1>3. PICK i : /\ Parted(u.ar, ar, i) /\ StrictlyIn(Region(ar, i), a)
               /\ u.start = Region(ar, i).start /\ Region(ar, i).size = n
  BY <1>1, <1>2, AddressIn, UnmapParts
<1> DEFINE r == Region(ar, i)
           d == Emptied(tables, r.start, r.size)
           pages == PagesOf(r.start, r.size)
<1>4. c = d
  BY <1>3
<1> HIDE DEF u, c
<1>5. /\ IsTree(d.tables) /\ PagesHeld(d.tables, ar', live \ d.pages)
      /\ d.pages \subseteq live
      /\ MappedIn(d.tables) = MappedIn(tables) \ pages
      /\ \A v \in MappedIn(d.tables) : PageIn(d.tables, v) = PageIn(tables, v)
  <2>1. PagesHeld(tables, ar, live) /\ Parted(ar', ar, i)
    <3>1. live \ needFree = live
      BY <1>2
    <3> QED BY <1>1, <1>2, <1>3, <3>1
  <2>2. Collects(tables, ar, live, ar', i)
    BY <1>1, <2>1, MunmapHolds
  <2> QED BY <2>2 DEF Collects
<1> HIDE DEF d
<1>6. pages # {}
  <2>1. i \in Slots(ar) /\ a \in Nat
    BY <1>3, AddressIn DEF Parted
  <2>2. PICK k \in RunOf(ar, i) : PageNo(a) = Base + k
    BY <1>1, <1>3, <2>1, RegionReach
  <2>3. pages = {(Base + k1) * PAGE : k1 \in RunOf(ar, i)}
    BY <1>1, <2>1, PagesAre
  <2> QED BY <2>2, <2>3
<1>7. Unmapped(i)
  BY <1>2, <1>3, <1>4, <1>5, <1>6 DEF Unmapped
<1>8. RegionsInv(ar')
  BY <1>2, <1>3 DEF Parted
<1>9. Listed(pageList', needFree', live')
  BY <1>1, <1>2, <1>4, <1>5 DEF Listed
<1>10. SpaceInv'
  BY <1>2, <1>4, <1>5, <1>8, <1>9 DEF SpaceInv, Accounts
<1> QED BY <1>7, <1>10

LEMMA DelPagesAccounts ==
  ASSUME SpaceInv, DelPages
  PROVE  SpaceInv'
<1>1. /\ IsTree(tables) /\ RegionsInv(ar) /\ Listed(pageList, needFree, live)
      /\ PagesHeld(tables, ar, live \ needFree)
  BY DEF SpaceInv, Accounts
<1>2. /\ live' = live \ (needFree \cap Range(pageList))
      /\ pageList' = Among(pageList, PageId \ needFree)
      /\ needFree' = {} /\ tables' = tables /\ ar' = ar
  BY DEF DelPages
<1>3. /\ pageList \in Seq(PageId) /\ IsInjective(pageList)
      /\ Range(pageList) = live /\ needFree \subseteq live
  BY <1>1 DEF Listed
<1>4. /\ pageList' \in Seq(PageId)
      /\ Range(pageList') = Range(pageList) \cap (PageId \ needFree)
      /\ IsInjective(pageList')
  BY <1>2, <1>3, AmongHas
<1>5. Range(pageList) \subseteq PageId
  BY <1>3 DEF Range
<1>6. live' = live \ needFree /\ live' \ needFree' = live \ needFree
  BY <1>2, <1>3
<1>7. Listed(pageList', needFree', live')
  BY <1>2, <1>3, <1>4, <1>5, <1>6 DEF Listed
<1> QED BY <1>1, <1>2, <1>6, <1>7 DEF SpaceInv, Accounts

LEMMA ExitAccounts ==
  ASSUME SpaceInv, Exit
  PROVE  SpaceInv' /\ ar' = EmptySpace /\ MappedIn(tables') = {}
<1>1. Listed(pageList, needFree, live)
  BY DEF SpaceInv, Accounts
<1>2. /\ live = {} /\ tables' = <<EmptyTable>> /\ ar' = EmptySpace
      /\ pageList' = pageList /\ needFree' = needFree /\ live' = live
  BY DEF Exit
<1>3. \A v \in PageAddress : v \in Nat
  BY PageAddressIs
<1>4. IsTree(tables') /\ MappedIn(tables') = {}
  BY <1>2, <1>3, NoTables DEF MappedIn
<1>5. PagesHeld(tables', ar', live' \ needFree')
  BY <1>2, <1>4 DEF PagesHeld
<1>6. RegionsInv(ar')
  BY <1>2, NoRegions
<1> QED BY <1>1, <1>2, <1>4, <1>5, <1>6 DEF SpaceInv, Accounts

LEMMA StepAccounts ==
  ASSUME SpaceInv, [SpaceNext]_spaceVars
  PROVE  SpaceInv'
<1>1. ASSUME NEW n \in Sizes, Mmap(n) PROVE SpaceInv'
  BY <1>1, MmapAccounts
<1>2. ASSUME NEW v \in Touched, Lookup(v) PROVE SpaceInv'
  BY <1>2, LookupAccounts
<1>3. ASSUME NEW v \in Touched, Fault(v) PROVE SpaceInv'
  BY <1>3, FaultAccounts
<1>4. ASSUME NEW a \in Touched, NEW n \in Sizes, Munmap(a, n) PROVE SpaceInv'
  BY <1>4, MunmapAccounts
<1>5. CASE DelPages
  BY <1>5, DelPagesAccounts
<1>6. CASE Exit
  BY <1>6, ExitAccounts
<1>7. CASE UNCHANGED spaceVars
  BY <1>7 DEF spaceVars, SpaceInv
<1> QED BY <1>1, <1>2, <1>3, <1>4, <1>5, <1>6, <1>7 DEF SpaceNext

LEMMA SpaceInvHolds == SpaceSpec => []SpaceInv
<1>1. SpaceInit => SpaceInv
  BY SpaceStarts
<1>2. SpaceInv /\ [SpaceNext]_spaceVars => SpaceInv'
  BY StepAccounts
<1> QED BY <1>1, <1>2, PTL DEF SpaceSpec

-----------------------------------------------------------------------------
(* What follows *)

LEMMA TreeForms ==
  ASSUME IsTree(tables)
  PROVE  TablesFormTree
<1>1. PICK lev : Tree(tables, lev)
  BY DEF IsTree
<1>2. /\ tables \in Seq(Table) /\ Len(tables) \in Nat
      /\ \A t \in 1..Len(tables), i \in Slot :
           IF lev[t] = 3 THEN tables[t][i] \in PageId \cup {0}
           ELSE \/ tables[t][i] = 0
                \/ /\ tables[t][i] \in 1..Len(tables) /\ t < tables[t][i]
                   /\ lev[tables[t][i]] = lev[t] + 1
      /\ \A t, u \in 1..Len(tables), i, j \in Slot :
           tables[t][i] = tables[u][j] /\ tables[t][i] \in Nat \ {0}
             => t = u /\ i = j
      /\ \A t \in 2..Len(tables) :
           \E u \in 1..Len(tables), i \in Slot : tables[u][i] = t
  BY <1>1 DEF Tree
<1>3. DOMAIN tables = 1..Len(tables)
  BY <1>2
<1>4. ASSUME NEW t \in 2..Len(tables)
      PROVE  /\ Cardinality(Entries({t})) = 1
             /\ \A e \in Entries({t}) : e[1] < t
  <2>1. t \in Nat \ {0}
    BY <1>2
  <2>2. PICK u \in 1..Len(tables), i \in Slot : tables[u][i] = t
    BY <1>2
  <2>3. Entries({t}) = {<<u, i>>}
    <3>1. <<u, i>> \in Entries({t})
      BY <1>3, <2>2 DEF Entries
    <3>2. ASSUME NEW e \in Entries({t}) PROVE e = <<u, i>>
      <4>1. /\ e = <<e[1], e[2]>> /\ e[1] \in 1..Len(tables) /\ e[2] \in Slot
            /\ tables[e[1]][e[2]] = t
        BY <1>3 DEF Entries
      <4>2. e[1] = u /\ e[2] = i
        BY <1>2, <2>1, <2>2, <4>1
      <4> QED BY <4>1, <4>2
    <3> QED BY <3>1, <3>2
  <2>4. u < t
    <3>1. t \notin PageId \cup {0}
      BY <2>1, Entry0
    <3>2. lev[u] # 3 /\ tables[u][i] # 0
      BY <1>2, <2>2, <3>1
    <3> QED BY <1>2, <2>2, <3>2
  <2>5. Cardinality(Entries({t})) = 1
    BY <2>3, FS_Singleton
  <2>6. \A e \in Entries({t}) : e[1] = u
    BY <2>3
  <2>7. \A e \in Entries({t}) : e[1] < t
    BY <2>4, <2>6
  <2> QED BY <2>5, <2>7
<1> QED BY <1>4 DEF TablesFormTree

(***************************************************************************)
(* The page tables of a process stay a tree, whatever is looked up,        *)
(* touched and unmapped, so that AddressSpace__free frees each once.       *)
(***************************************************************************)
THEOREM TreeHolds == SpaceSpec => []TablesFormTree
<1>1. SpaceInv => TablesFormTree
  BY TreeForms DEF SpaceInv, Accounts
<1> QED BY <1>1, SpaceInvHolds, PTL

\* Addresses with different pages are as many as their pages.
LEMMA PagesCounted ==
  ASSUME NEW ts,
         \A u, v \in MappedIn(ts) : PageIn(ts, u) = PageIn(ts, v) => u = v
  PROVE  Cardinality({PageIn(ts, v) : v \in MappedIn(ts)}) = Cardinality(MappedIn(ts))
<1> DEFINE M == MappedIn(ts)
           P == {PageIn(ts, v) : v \in MappedIn(ts)}
           N == 0..(AllPages - 1)
           f == [v \in M |-> PageIn(ts, v)]
           g == [i \in N |-> i * PAGE]
<1>1. IsFiniteSet(PageAddress)
  <2>1. IsFiniteSet(N)
    <3>1. 0 \in Int /\ AllPages - 1 \in Int
      BY SlotNumbers
    <3> QED BY <3>1, FS_Interval
  <2>2. g \in Surjection(N, PageAddress)
    BY DEF Surjection, PageAddress
  <2> QED BY <2>1, <2>2, FS_Surjection
<1>2. IsFiniteSet(M)
  <2>1. M \in SUBSET PageAddress
    BY DEF MappedIn
  <2> QED BY <1>1, <2>1, FS_Subset
<1>3. f \in Surjection(M, P)
  BY DEF Surjection
<1>4. f \in Injection(M, P)
  BY DEF Injection, IsInjective
<1> HIDE DEF M, P, f
<1>5. Cardinality(P) = Cardinality(M)
  BY <1>2, <1>3, <1>4, FS_Surjection
<1> QED BY <1>5 DEF P, M

LEMMA AllAccounted ==
  ASSUME SpaceInv
  PROVE  PagesAccounted
<1>1. /\ IsTree(tables) /\ RegionsInv(ar) /\ Listed(pageList, needFree, live)
      /\ PagesHeld(tables, ar, live \ needFree)
  BY DEF SpaceInv, Accounts
<1>2. /\ pageList \in Seq(PageId) /\ IsInjective(pageList)
      /\ Range(pageList) = live /\ needFree \subseteq live
  BY <1>1 DEF Listed
<1>3. SpaceTypeOK
  <2>1. tables \in Seq([Slot -> Nat \cup PageId]) /\ tables # <<>>
    BY <1>1 DEF IsTree, Tree, Table
  <2>2. ASSUME NEW i \in Slots(ar)
        PROVE  Region(ar, i).type = "MMAP" /\ Region(ar, i).start \in Address
    <3> DEFINE r == Region(ar, i)
               x == r.crrt.start
               n == r.crrt.size
    <3>1. /\ x \in Nat /\ n \in Nat /\ r.start \in Nat /\ x + n <= MaxPages
          /\ r.start = MMAP_START + x * PAGE /\ r.type = "MMAP"
      BY <1>1, RegionIs
    <3>2. /\ x * PAGE \in Nat /\ MaxPages * PAGE \in Nat
          /\ MaxPages < x <=> MaxPages * PAGE < x * PAGE
      BY <3>1, BaseIs, PagesOrdered
    <3>3. /\ MMAP_START + MaxPages * PAGE < WORD /\ MMAP_START \in Nat
          /\ WORD \in Nat
      BY SpaceAssumption, AddressAssumption
    <3>4. ~ (MaxPages < x)
      <4> HIDE DEF x, n
      <4> QED BY <3>1, BaseIs
    <3> DEFINE y == x * PAGE
               z == MaxPages * PAGE
    <3>5. y \in Nat /\ z \in Nat /\ ~ (z < y) /\ r.start = MMAP_START + y
          /\ MMAP_START + z < WORD
      BY <3>1, <3>2, <3>3, <3>4
    <3> HIDE DEF r, y, z
    <3>6. r.start \in Address
      BY <3>3, <3>5 DEF Address
    <3> QED BY <3>1, <3>6 DEF r
  <2>3. ar.regions.alloced = Cardinality(Slots(ar))
    BY <1>1 DEF RegionsInv, Slotted, Slots
  <2>4. needFree \subseteq PageId /\ live \subseteq PageId
    BY <1>2 DEF Range
  <2> QED BY <1>2, <2>1, <2>2, <2>3, <2>4 DEF SpaceTypeOK
<1> DEFINE mapped == {PageAt(v) : v \in Mapped}
           H == live \ needFree
<1>4. Mapped = MappedIn(tables) /\ mapped = {PageIn(tables, v) : v \in MappedIn(tables)}
  BY DEF Mapped, MappedIn, PageAt
<1>5. mapped = H
  <2>1. \A v \in MappedIn(tables) : PageIn(tables, v) \in H
    BY <1>1 DEF PagesHeld
  <2>2. \A x \in H : \E v \in MappedIn(tables) : PageIn(tables, v) = x
    BY <1>1 DEF PagesHeld
  <2> QED BY <1>4, <2>1, <2>2
<1>6. Cardinality(mapped) = Cardinality(Mapped)
  <2>1. \A u, v \in MappedIn(tables) : PageIn(tables, u) = PageIn(tables, v) => u = v
    BY <1>1 DEF PagesHeld
  <2> QED BY <1>4, <2>1, PagesCounted
<1>7. mapped \cup needFree = live /\ mapped \cap needFree = {}
  BY <1>2, <1>5
<1> QED BY <1>2, <1>3, <1>6, <1>7 DEF PagesAccounted

(***************************************************************************)
(* No page leaks, is mapped twice, or is deleted while it is mapped,       *)
(* through any sequence of the calls, between AddressSpace__unmap and its  *)
(* delPageHelper, too.                                                     *)
(***************************************************************************)
THEOREM PagesAccountedFor == SpaceSpec => []PagesAccounted
<1>1. SpaceInv => PagesAccounted
  BY AllAccounted
<1> QED BY <1>1, SpaceInvHolds, PTL

-----------------------------------------------------------------------------
(* The map of AddressMap *)

RegionSets(s) ==
  {PagesOf(Region(s, i).start, Region(s, i).size) : i \in SlotsOf(s, "MMAP")} \ {{}}

PagesMapped(ts) == [v \in MappedIn(ts) |-> PageIn(ts, v)]

\* The pages of the region in a slot, and what they have to do with others.
Pages(s, i) == PagesOf(Region(s, i).start, Region(s, i).size)

LEMMA RegionSetsAre ==
  ASSUME NEW s, RegionsInv(s)
  PROVE  /\ RegionSets(s) = {Pages(s, i) : i \in Slots(s)} \ {{}}
         /\ \A i, j \in Slots(s) : i # j => Pages(s, i) \cap Pages(s, j) = {}
         /\ \A v \in PageAddress : IsInRegion(s, v) <=> v \in UNION RegionSets(s)
<1>1. SlotsOf(s, "MMAP") = Slots(s)
  BY RegionIs DEF SlotsOf
<1>2. RegionSets(s) = {Pages(s, i) : i \in Slots(s)} \ {{}}
  BY <1>1 DEF RegionSets, Pages
<1>3. ASSUME NEW v \in PageAddress, NEW i \in Slots(s)
      PROVE  v \in Pages(s, i) <=> \E c \in RunOf(s, i) : PageNo(v) = Base + c
  <2>1. Pages(s, i) = {(Base + c) * PAGE : c \in RunOf(s, i)}
    BY PagesAre DEF Pages
  <2>2. v = PageNo(v) * PAGE
    BY PageAddressIs
  <2>3. ASSUME NEW c \in RunOf(s, i), v = (Base + c) * PAGE PROVE PageNo(v) = Base + c
    <3>1. c \in Nat
      BY RegionIs DEF RunOf, Cells
    <3>2. Base + c \in Nat /\ 0 \in 0..(PAGE - 1)
      BY <3>1, BaseIs, SlotNumbers
    <3> QED BY <2>3, <3>2, PageBegins
  <2> QED BY <2>1, <2>2, <2>3
<1>4. \A i \in Slots(s) : Pages(s, i) \subseteq PageAddress
  <2>1. PICK ts : IsTree(ts)
    BY NoTables
  <2> QED BY <2>1, EmptiedIs DEF Pages
<1>5. \A i, j \in Slots(s) : i # j => Pages(s, i) \cap Pages(s, j) = {}
  <2>1. SUFFICES ASSUME NEW i \in Slots(s), NEW j \in Slots(s), i # j,
                        NEW v \in Pages(s, i), v \in Pages(s, j)
                 PROVE  FALSE
    OBVIOUS
  <2>2. v \in PageAddress
    BY <1>4
  <2>3. PICK c \in RunOf(s, i) : PageNo(v) = Base + c
    BY <1>3, <2>2
  <2>4. PICK d \in RunOf(s, j) : PageNo(v) = Base + d
    BY <1>3, <2>1, <2>2
  <2>5. c \in Nat /\ d \in Nat
    BY RegionIs DEF RunOf, Cells
  <2>6. c = d
    BY <2>3, <2>4, <2>5, BaseIs
  <2>7. RunOf(s, i) \cap RunOf(s, j) = {}
    BY <2>1 DEF RegionsInv
  <2> QED BY <2>6, <2>7
<1>6. ASSUME NEW v \in PageAddress PROVE IsInRegion(s, v) <=> v \in UNION RegionSets(s)
  <2>1. v \in Nat
    BY PageAddressIs
  <2>2. IsInRegion(s, v) <=> \E i \in Slots(s) : v \in Pages(s, i)
    BY <1>3, <2>1, RegionReach DEF IsInRegion, SlotsAt
  <2> QED BY <1>2, <2>2
<1> QED BY <1>2, <1>5, <1>6

\* The map, in the terms above.
LEMMA SpaceMapIs ==
  /\ Space!vars = <<RegionSets(ar), PagesMapped(tables)>>
  /\ Space!Init <=> RegionSets(ar) = {} /\ PagesMapped(tables) = [v \in {} |-> v]
<1>1. Mapped = MappedIn(tables) /\ \A v : PageAt(v) = PageIn(tables, v)
  BY DEF Mapped, MappedIn, PageAt
<1>2. [v \in Mapped |-> PageAt(v)] = PagesMapped(tables)
  BY <1>1 DEF PagesMapped
<1> QED BY <1>2 DEF Space!vars, Space!Init, RegionSets

LEMMA EmptyMap ==
  ASSUME NEW ts, MappedIn(ts) = {}
  PROVE  PagesMapped(ts) = [v \in {} |-> v]
BY DEF PagesMapped

LEMMA NoRegionSets == RegionSets(EmptySpace) = {}
BY NoRegions, RegionSetsAre

\* Steps of the map, by what happens to the sets and to the pages.
LEMMA MapSteps ==
  LET R == RegionSets(ar)
      S == RegionSets(ar')
      F == PagesMapped(tables)
      G == PagesMapped(tables')
  IN  /\ S = R /\ G = F => UNCHANGED Space!vars
      /\ S = {} /\ G = [v \in {} |-> v] => Space!Next
      /\ \A r \in S \ R :
           r \cap UNION R = {} /\ r \cap DOMAIN F = {} /\ S = R \cup {r} /\ G = F
             => Space!Next
      /\ \A v \in (UNION R) \ DOMAIN F : \A x :
           (/\ x \notin {F[w] : w \in DOMAIN F} /\ S = R
            /\ G = [w \in DOMAIN F \cup {v} |-> IF w = v THEN x ELSE F[w]])
             => Space!Next
      /\ \A r \in R \ S :
           S = R \ {r} /\ G = [w \in DOMAIN F \ r |-> F[w]] => Space!Next
<1> DEFINE R == RegionSets(ar)
           S == RegionSets(ar')
           F == PagesMapped(tables)
           G == PagesMapped(tables')
           regions == {PagesOf(Region(ar, i).start, Region(ar, i).size) :
                         i \in SlotsOf(ar, "MMAP")} \ {{}}
           mapping == [v \in Mapped |-> PageAt(v)]
<1>1. regions = R /\ mapping = F
  BY DEF RegionSets, PagesMapped, Mapped, MappedIn, PageAt
<1>2. regions' = S /\ mapping' = G
  BY DEF RegionSets, PagesMapped, Mapped, MappedIn, PageAt
<1> HIDE DEF R, S, F, G
<1>3. UNCHANGED Space!vars <=> S = R /\ G = F
  BY <1>1, <1>2 DEF Space!vars
<1>4. Space!Exit <=> S = {} /\ G = [v \in {} |-> v]
  BY <1>2 DEF Space!Exit
<1>5. \A r : Space!Mmap(r) <=> /\ r \cap UNION R = {} /\ r \cap DOMAIN F = {}
                               /\ S = R \cup {r} /\ G = F
  BY <1>1, <1>2 DEF Space!Mmap
<1>6. ASSUME NEW v \in (UNION R) \ DOMAIN F, NEW x, x \notin {F[w] : w \in DOMAIN F},
             G = [w \in DOMAIN F \cup {v} |-> IF w = v THEN x ELSE F[w]], S = R
      PROVE  Space!Fault(v, x)
  <2>1. [w \in DOMAIN mapping \cup {v} |-> IF w = v THEN x ELSE mapping[w]] = G
    <3> HIDE DEF mapping
    <3> QED BY <1>1, <1>6
  <2>2. x \notin {mapping[w] : w \in DOMAIN mapping} /\ v \in (UNION regions) \ DOMAIN mapping
    <3> HIDE DEF mapping, regions
    <3> QED BY <1>1, <1>6
  <2>3. mapping' = [w \in DOMAIN mapping \cup {v} |-> IF w = v THEN x ELSE mapping[w]]
        /\ regions' = regions
    BY <1>1, <1>2, <1>6, <2>1
  <2> QED BY <2>2, <2>3 DEF Space!Fault
<1>7. ASSUME NEW r, S = R \ {r}, G = [w \in DOMAIN F \ r |-> F[w]]
      PROVE  Space!Munmap(r)
  <2>1. [w \in DOMAIN mapping \ r |-> mapping[w]] = G
    <3> HIDE DEF mapping
    <3> QED BY <1>1, <1>7
  <2>2. regions' = regions \ {r}
        /\ mapping' = [w \in DOMAIN mapping \ r |-> mapping[w]]
    BY <1>1, <1>2, <1>7, <2>1
  <2> QED BY <2>2 DEF Space!Munmap
<1>8. Space!Next <=>
        \/ \E r \in S \ R : Space!Mmap(r)
        \/ \E v \in DOMAIN G \ DOMAIN F : \E x : x = G[v] /\ Space!Fault(v, x)
        \/ \E r \in R \ S : Space!Munmap(r)
        \/ Space!Exit
  BY <1>1, <1>2 DEF Space!Next
<1> HIDE DEF regions, mapping
<1>9. S = R /\ G = F => UNCHANGED Space!vars
  BY <1>3
<1>10. S = {} /\ G = [v \in {} |-> v] => Space!Next
  BY <1>4, <1>8
<1>11. ASSUME NEW r \in S \ R, r \cap UNION R = {}, r \cap DOMAIN F = {},
              S = R \cup {r}, G = F
       PROVE  Space!Next
  BY <1>5, <1>8, <1>11
<1>12. ASSUME NEW v \in (UNION R) \ DOMAIN F, NEW x,
              x \notin {F[w] : w \in DOMAIN F}, S = R,
              G = [w \in DOMAIN F \cup {v} |-> IF w = v THEN x ELSE F[w]]
       PROVE  Space!Next
  <2>1. Space!Fault(v, x)
    BY <1>6, <1>12, Zenon
  <2>2. v \in DOMAIN G \ DOMAIN F /\ G[v] = x
    BY <1>12
  <2> QED BY <1>8, <2>1, <2>2
<1>13. ASSUME NEW r \in R \ S, S = R \ {r}, G = [w \in DOMAIN F \ r |-> F[w]]
       PROVE  Space!Next
  <2>1. Space!Munmap(r)
    BY <1>7, <1>13, Zenon
  <2> QED BY <1>8, <1>13, <2>1
<1> QED BY <1>9, <1>10, <1>11, <1>12, <1>13, Zenon DEF R, S, F, G

-----------------------------------------------------------------------------
(* The steps of the map *)

LEMMA MmapMaps ==
  ASSUME SpaceInv, NEW n \in Sizes, Mmap(n)
  PROVE  [Space!Next]_(Space!vars)
<1> DEFINE R == RegionSets(ar)
           S == RegionSets(ar')
           F == PagesMapped(tables)
           G == PagesMapped(tables')
<1>1. Joined(ar', ar) /\ tables' = tables
  BY MmapAccounts DEF Mmap
<1>2. RegionsInv(ar) /\ RegionsInv(ar') /\ PagesHeld(tables, ar, live \ needFree)
  BY <1>1 DEF Joined, SpaceInv, Accounts
<1>3. PICK id : /\ id \notin Slots(ar) /\ Slots(ar') = Slots(ar) \cup {id}
                /\ \A j \in Slots(ar) : Region(ar', j) = Region(ar, j)
  BY <1>1 DEF Joined
<1> DEFINE r == Pages(ar', id)
<1>4. \A j \in Slots(ar) : Pages(ar', j) = Pages(ar, j)
  BY <1>3 DEF Pages
<1>5. /\ R = {Pages(ar, i) : i \in Slots(ar)} \ {{}}
      /\ S = {Pages(ar', i) : i \in Slots(ar')} \ {{}}
      /\ \A i, j \in Slots(ar') : i # j => Pages(ar', i) \cap Pages(ar', j) = {}
      /\ \A v \in PageAddress : IsInRegion(ar, v) <=> v \in UNION R
  BY <1>2, RegionSetsAre
<1>6. G = F
  BY <1>1
<1>7. S = R \cup ({r} \ {{}})
  BY <1>3, <1>4, <1>5
<1>8. CASE r = {}
  BY <1>6, <1>7, <1>8, MapSteps
<1>9. CASE r # {}
  <2>1. r \cap UNION R = {}
    BY <1>3, <1>4, <1>5
  <2>2. r \notin R
    BY <1>9, <2>1
  <2>3. r \cap DOMAIN F = {}
    <3>1. DOMAIN F = MappedIn(tables)
      BY DEF PagesMapped
    <3>2. \A v \in MappedIn(tables) : v \in UNION R
      BY <1>2, <1>5 DEF PagesHeld, MappedIn
    <3> QED BY <2>1, <3>1, <3>2
  <2>4. r \in S \ R /\ S = R \cup {r}
    BY <1>7, <1>9, <2>2
  <2> QED BY <1>6, <2>1, <2>3, <2>4, MapSteps
<1> QED BY <1>8, <1>9

LEMMA LookupMaps ==
  ASSUME SpaceInv, NEW v \in Touched, Lookup(v)
  PROVE  [Space!Next]_(Space!vars)
<1>1. /\ ar' = ar /\ MappedIn(tables') = MappedIn(tables)
      /\ \A u \in PageAddress : PageIn(tables', u) = PageIn(tables, u)
  BY LookupAccounts
<1>2. PagesMapped(tables') = PagesMapped(tables)
  BY <1>1 DEF PagesMapped, MappedIn
<1> QED BY <1>1, <1>2, MapSteps

LEMMA FaultMaps ==
  ASSUME SpaceInv, NEW v \in Touched, Fault(v)
  PROVE  [Space!Next]_(Space!vars)
<1> DEFINE R == RegionSets(ar)
           S == RegionSets(ar')
           F == PagesMapped(tables)
           G == PagesMapped(tables')
<1>1. PICK w, x : Faulted(w, x)
  BY FaultAccounts
<1>2. /\ RegionsInv(ar) /\ PagesHeld(tables, ar, live \ needFree)
  BY DEF SpaceInv, Accounts
<1>3. /\ w \in PageAddress \ MappedIn(tables) /\ IsInRegion(ar, w)
      /\ x \in PageId \ live /\ ar' = ar
      /\ MappedIn(tables') = MappedIn(tables) \cup {w}
      /\ \A u \in MappedIn(tables') :
           PageIn(tables', u) = IF u = w THEN x ELSE PageIn(tables, u)
  BY <1>1 DEF Faulted
<1>4. DOMAIN F = MappedIn(tables) /\ DOMAIN G = MappedIn(tables) \cup {w}
  BY <1>3 DEF PagesMapped
<1>5. w \in UNION R
  BY <1>2, <1>3, RegionSetsAre
<1>6. \A u \in DOMAIN G : G[u] = IF u = w THEN x ELSE PageIn(tables, u)
  BY <1>3 DEF PagesMapped
<1>7. \A u \in DOMAIN F : F[u] = PageIn(tables, u)
  BY DEF PagesMapped
<1>8. x \notin {F[u] : u \in DOMAIN F}
  BY <1>2, <1>3, <1>4, <1>7 DEF PagesHeld
<1>9. G = [u \in DOMAIN F \cup {w} |-> IF u = w THEN x ELSE F[u]]
  <2>1. G = [u \in DOMAIN G |-> G[u]]
    BY DEF PagesMapped
  <2>2. \A u \in DOMAIN F \cup {w} : G[u] = IF u = w THEN x ELSE F[u]
    BY <1>3, <1>4, <1>6, <1>7
  <2> HIDE DEF F, G
  <2> QED BY <1>4, <2>1, <2>2
<1>10. w \in (UNION R) \ DOMAIN F /\ S = R
  BY <1>3, <1>4, <1>5
<1> HIDE DEF F, G, R, S
<1>11. Space!Next
  BY <1>8, <1>9, <1>10, MapSteps DEF F, G, R, S
<1> QED BY <1>11

LEMMA MunmapMaps ==
  ASSUME SpaceInv, NEW a \in Touched, NEW n \in Sizes, Munmap(a, n)
  PROVE  [Space!Next]_(Space!vars)
<1> DEFINE R == RegionSets(ar)
           S == RegionSets(ar')
           F == PagesMapped(tables)
           G == PagesMapped(tables')
<1>1. PICK i : Unmapped(i)
  BY MunmapAccounts
<1> DEFINE r == Pages(ar, i)
<1>2. /\ Parted(ar', ar, i) /\ r # {}
      /\ MappedIn(tables') = MappedIn(tables) \ r
      /\ \A u \in MappedIn(tables') : PageIn(tables', u) = PageIn(tables, u)
  BY <1>1 DEF Unmapped, Pages
<1>3. /\ RegionsInv(ar) /\ RegionsInv(ar') /\ i \in Slots(ar)
      /\ Slots(ar') = Slots(ar) \ {i}
      /\ \A j \in Slots(ar') : Region(ar', j) = Region(ar, j)
  BY <1>2 DEF Parted, SpaceInv, Accounts
<1>4. \A j \in Slots(ar') : Pages(ar', j) = Pages(ar, j)
  BY <1>3 DEF Pages
<1>5. /\ R = {Pages(ar, j) : j \in Slots(ar)} \ {{}}
      /\ S = {Pages(ar', j) : j \in Slots(ar')} \ {{}}
      /\ \A j, k \in Slots(ar) : j # k => Pages(ar, j) \cap Pages(ar, k) = {}
  BY <1>3, RegionSetsAre
<1>6. S = {Pages(ar, j) : j \in Slots(ar) \ {i}} \ {{}}
  BY <1>3, <1>4, <1>5
<1>7. \A j \in Slots(ar) \ {i} : Pages(ar, j) # r
  BY <1>2, <1>3, <1>5
<1>8. r \in R \ S /\ S = R \ {r}
  BY <1>2, <1>3, <1>5, <1>6, <1>7
<1>9. G = [u \in DOMAIN F \ r |-> F[u]]
  BY <1>2 DEF PagesMapped
<1> HIDE DEF F, G, R, S, r
<1>10. Space!Next
  BY <1>8, <1>9, MapSteps DEF F, G, R, S
<1> QED BY <1>10

LEMMA ExitMaps ==
  ASSUME SpaceInv, Exit
  PROVE  [Space!Next]_(Space!vars)
<1>1. ar' = EmptySpace /\ MappedIn(tables') = {}
  BY ExitAccounts
<1>2. RegionSets(ar') = {} /\ PagesMapped(tables') = [v \in {} |-> v]
  BY <1>1, NoRegionSets, EmptyMap
<1> QED BY <1>2, MapSteps

LEMMA StepMaps ==
  ASSUME SpaceInv, [SpaceNext]_spaceVars
  PROVE  [Space!Next]_(Space!vars)
<1>1. ASSUME NEW n \in Sizes, Mmap(n) PROVE [Space!Next]_(Space!vars)
  BY <1>1, MmapMaps
<1>2. ASSUME NEW v \in Touched, Lookup(v) PROVE [Space!Next]_(Space!vars)
  BY <1>2, LookupMaps
<1>3. ASSUME NEW v \in Touched, Fault(v) PROVE [Space!Next]_(Space!vars)
  BY <1>3, FaultMaps
<1>4. ASSUME NEW a \in Touched, NEW n \in Sizes, Munmap(a, n)
      PROVE  [Space!Next]_(Space!vars)
  BY <1>4, MunmapMaps
<1>5. CASE DelPages
  BY <1>5, MapSteps DEF DelPages
<1>6. CASE Exit
  BY <1>6, ExitMaps
<1>7. CASE UNCHANGED spaceVars
  BY <1>7, MapSteps DEF spaceVars
<1> QED BY <1>1, <1>2, <1>3, <1>4, <1>5, <1>6, <1>7 DEF SpaceNext

(***************************************************************************)
(* To its user an address space is the map of AddressMap: through four     *)
(* levels of tables, slots and runs of cells, a page given to an address   *)
(* stays there, alone, until munmap takes its region and its pages away.   *)
(***************************************************************************)
THEOREM SpaceImplementsMap == SpaceSpec => ImplementsMap
<1>1. SpaceInit => Space!Init
  <2>1. SpaceInit => ar = EmptySpace /\ MappedIn(tables) = {}
    <3>1. \A v \in PageAddress : v \in Nat
      BY PageAddressIs
    <3> QED BY <3>1, NoTables DEF SpaceInit, MappedIn
  <2> QED BY <2>1, NoRegionSets, EmptyMap, SpaceMapIs
<1>2. SpaceInv /\ [SpaceNext]_spaceVars => [Space!Next]_(Space!vars)
  BY StepMaps
<1> QED BY <1>1, <1>2, SpaceInvHolds, PTL DEF SpaceSpec, ImplementsMap, Space!Spec
=============================================================================
