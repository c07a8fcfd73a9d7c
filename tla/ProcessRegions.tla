--------------------------- MODULE ProcessRegions ---------------------------
(***************************************************************************)
(* The regions of a process (addressRegion.c) and those who use them: a    *)
(* loader declares heap and stack, page faults and brk grow them, and the  *)
(* process maps and unmaps.                                                *)
(***************************************************************************)
EXTENDS AddressRegion

CONSTANTS
  Layout,     \* start and size of the regions the loader declares, by type
  Touched,    \* the addresses of page faults and of the heap's new ends
  Sizes,      \* the sizes given to mmap, munmap and regionAddSize
  HeapEnd,    \* bound: no growth of the heap beyond, before it meets the mmaps
  StackEnd,   \* bound: nor of the stack, before it comes to address 0
  MaxMmaps,   \* bound: the mapped regions at a time
  MaxPages    \* bound: no mmap that would grow the table further

Address == 0..(WORD - 1)

Run == [start : Nat, size : Nat]

RegionRecord == [type : DOMAIN Layout \cup {"MMAP"}, start : Address,
                 size : Address, crrt : Run \cup {NULL}]

(***************************************************************************)
(* The loader declares a heap, and all regions below those for mmap; a     *)
(* stack by its upper end.  No size or step is so large that it would wrap *)
(* around when it is added to an address below MMAP_START.                 *)
(***************************************************************************)
ASSUME LayoutAssumption ==
  /\ "HEAP" \in DOMAIN Layout /\ "MMAP" \notin DOMAIN Layout
  /\ \A t \in DOMAIN Layout :
       LET r == Layout[t]
       IN  /\ r.start \in Nat /\ r.size \in Nat /\ r.size >= PAGE
           /\ IF t = "STACK" THEN r.size <= r.start /\ r.start <= MMAP_START
                             ELSE r.start + r.size <= MMAP_START
  /\ Layout["HEAP"].start + Layout["HEAP"].size <= HeapEnd
  /\ HeapEnd \in Nat /\ HeapEnd <= MMAP_START /\ StackEnd \in Nat
  /\ Sizes \subseteq Nat /\ Touched \subseteq Address
  /\ MaxMmaps \in Nat /\ MaxPages \in Nat
  /\ \A n \in Sizes \cup {HEAP_STEP, STACK_STEP, MaxPages * PAGE} :
       MMAP_START + n + PAGE <= WORD

ASSUME EmptyAssumption == Empty \notin RegionRecord

VARIABLES
  ar,      \* the regions
  usable   \* the addresses the process was told it may use, and has not unmapped

vars == <<ar, usable>>

TypeOK ==
  /\ \A i \in Slots(ar) : Region(ar, i) \in RegionRecord
  /\ \A t \in DOMAIN Layout : Cardinality(SlotsOf(ar, t)) <= 1
  /\ ar.regions.alloced = Cardinality(Slots(ar))
  /\ usable \subseteq Address

Init == ar = EmptySpace /\ usable = {}

RangeOf(r) == r.start..(r.start + r.size - 1)

DeclareRegion(type) ==
  /\ SlotsOf(ar, type) = {}
  /\ ar' = Declare(ar, type, Layout[type].start, Layout[type].size)
  /\ usable' = usable \cup RangeOf(Region(ar', Max(SlotsOf(ar', type))))

InBounds ==
  /\ \A i \in SlotsOf(ar', "HEAP") :
       Region(ar', i).start + Region(ar', i).size <= HeapEnd
  /\ \A i \in SlotsOf(ar', "STACK") :
       StackEnd <= Region(ar', i).start /\ Region(ar', i).start < MMAP_START

\* The process runs when the loader is done.
Loaded == \A t \in DOMAIN Layout : SlotsOf(ar, t) # {}

\* What resizeByAddr grants: all below the address if it is the new end of
\* the heap, all from the address on if it is in the stack.
Granted(type, a) ==
  LET r == Region(ar, Min(SlotsOf(ar, type)))
  IN  IF type = "HEAP" THEN r.start..(a - 1) ELSE {a} \cup (a..(r.start - 1))

Resize(type, a) ==
  LET r == ResizeByAddr(ar, type, a)
  IN  /\ Loaded
      /\ ar' = r.ar
      /\ InBounds
      /\ usable' = IF r.ok THEN usable \cup Granted(type, a) ELSE usable

\* A stack is not grown so: it would lose at its upper end what it gains.
AddSize(n) ==
  /\ Loaded
  /\ ar' = RegionAddSize(ar, "HEAP", n)
  /\ InBounds
  /\ usable' = usable \cup RangeOf(Region(ar', Min(SlotsOf(ar', "HEAP"))))

Mmap(size) ==
  LET r == DeclareForMmap(ar, size)
  IN  /\ Loaded
      /\ Cardinality(SlotsOf(ar, "MMAP")) < MaxMmaps
      /\ r.ar.mapRegions.size <= MaxPages
      /\ ar' = r.ar
      /\ usable' = usable \cup (r.start..(r.start + size - 1))

Munmap(a, size) ==
  LET r == Unmap(ar, a, size)
  IN  /\ r.start # NULL
      /\ ar' = r.ar
      /\ usable' = usable \ (r.start..(r.start + size - 1))

Next ==
  \/ \E t \in DOMAIN Layout : DeclareRegion(t)
  \/ \E t \in {"HEAP", "STACK"}, a \in Touched : Resize(t, a)
  \/ \E n \in Sizes : AddSize(n) \/ Mmap(n)
  \/ \E n \in Sizes, a \in usable : Munmap(a, n)

Spec == Init /\ [][Next]_vars
-----------------------------------------------------------------------------
Mmaps      == SlotsOf(ar, "MMAP")
CellsAt(i) == Cells(Region(ar, i).crrt.start, Region(ar, i).crrt.size)

(***************************************************************************)
(* The pages in use in mapRegions are those of the mapped regions, no page *)
(* is in two of them, and a region lies where its pages do: munmap of any  *)
(* address gives back what that mmap took, none leaks and the assertion of *)
(* ContinueRegion__release does not fail.                                  *)
(***************************************************************************)
PagesMatchRegions ==
  /\ TypeOK
  /\ ar.mapRegions.occupied = UNION {CellsAt(i) : i \in Mmaps}
  /\ ar.mapRegions.allocated = Cardinality(ar.mapRegions.occupied)
  /\ \A i, j \in Mmaps : i # j => CellsAt(i) \cap CellsAt(j) = {}
  /\ \A i \in Mmaps :
       LET r == Region(ar, i)
       IN  /\ r.start = MMAP_START + r.crrt.start * PAGE
           /\ r.size = r.crrt.size * PAGE

(***************************************************************************)
(* "now I have right to use these region" (test of addressRegion.c): an    *)
(* address that was granted, by declare, by an answer of true of           *)
(* resizeByAddr or by mmap, is in a region until it is unmapped.           *)
(***************************************************************************)
GrantedStays == \A a \in usable : IsInRegion(ar, a)

(***************************************************************************)
(* As the test does, munmap may be called with any address of a mapped     *)
(* region, and finds that region, whatever lies in other slots.  (Of a     *)
(* region of no pages there is no address.)                                *)
(***************************************************************************)
MunmapFinds ==
  \A i \in Mmaps :
    LET r == Region(ar, i)
    IN  \A a \in RangeOf(r) : /\ Unmap(ar, a, r.size).start = r.start
                              /\ Max(SlotsAt(ar, a)) = i
=============================================================================
