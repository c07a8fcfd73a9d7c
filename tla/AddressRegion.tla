---------------------------- MODULE AddressRegion ----------------------------
(***************************************************************************)
(* addressRegion.c: the regions of an address space, as operators on a     *)
(* record [regions, mapRegions] of a DynamicArr of region records and a    *)
(* ContinueRegion of the pages for mmap.  A region record is               *)
(* [type, start, size, crrt], crrt the first page and the pages of its run *)
(* of mapRegions, or NULL.  Addresses and sizes are uint64_t: they count   *)
(* modulo WORD.                                                            *)
(***************************************************************************)
EXTENDS DynamicArr, ContRegion

CONSTANTS
  PAGE,        \* bytes of a page: 4096
  WORD,        \* 2^64
  MMAP_START,  \* PROCESS_MMAP_START
  HEAP_STEP,   \* 1 << 17: how far a heap grows in a call
  STACK_STEP,  \* ALLOW_STACK_MALLOC: how far a stack does
  NULL         \* no address, no run

ASSUME AddressAssumption ==
  /\ PAGE \in Nat /\ PAGE > 0
  /\ WORD \in Nat /\ WORD > 0 /\ WORD % PAGE = 0
  /\ MMAP_START \in 0..(WORD - 1) /\ MMAP_START % PAGE = 0
  /\ HEAP_STEP \in Nat /\ STACK_STEP \in Nat
  /\ NULL \notin Nat

\* AddressRegion__init
EmptySpace == [regions |-> EmptyArr, mapRegions |-> EmptyRegions]

Plus(a, b)  == (a + b) % WORD
Minus(a, b) == (a - b) % WORD

\* __size4kAlign
Align(size) == LET up == Plus(size, PAGE - 1) IN up - (up % PAGE)

Slots(ar)     == Occupied(ar.regions)
Region(ar, i) == ar.regions.item[i]

\* Mutant of StrictlyIn: the end belongs to the region.
LooselyIn(r, a) == r.start <= a /\ Plus(r.start, r.size) >= a

\* __strictInRegion
StrictlyIn(r, a) == r.start <= a /\ Plus(r.start, r.size) > a

\* The slots whose region an address is in; __inRegionCB keeps the last.
SlotsAt(ar, a) == {i \in Slots(ar) : StrictlyIn(Region(ar, i), a)}

\* AddressRegion__isInRegion: is there one, and its type.
IsInRegion(ar, a) == SlotsAt(ar, a) # {}
TypeAt(ar, a)     == Region(ar, Max(SlotsAt(ar, a))).type

\* The slots of a type; __foundByTypeCB keeps the first.
SlotsOf(ar, type) == {i \in Slots(ar) : Region(ar, i).type = type}

\* AddressRegion__declare; for a STACK `start` is its upper end.
Declare(ar, type, start, size) ==
  LET r == [type |-> type, size |-> size, crrt |-> NULL,
            start |-> IF type = "STACK" THEN Minus(start, size) ELSE start]
  IN  [ar EXCEPT !.regions = ArrAdd(@, r).arr]

\* AddressRegion__regionAddSize
RegionAddSize(ar, type, n) ==
  LET i == Min(SlotsOf(ar, type))
  IN  IF SlotsOf(ar, type) = {} THEN ar
      ELSE IF type = "STACK"
      THEN [ar EXCEPT !.regions.item[i].start = Minus(@, n)]
      ELSE [ar EXCEPT !.regions.item[i].size = Plus(@, n)]

\* Mutant of HeapGrown: the size is rounded down.
HeapGrownDown(r, a) == [r EXCEPT !.size = Minus(a, r.start)
                                            - (Minus(a, r.start) % PAGE)]

\* A heap that reaches up to an address, and a stack that reaches down to it.
HeapGrown(r, a)  == [r EXCEPT !.size = Align(Minus(a, r.start))]
StackGrown(r, a) ==
  LET n == Align(Minus(r.start, a))
  IN  [r EXCEPT !.start = Minus(@, n), !.size = Plus(@, n)]

MayReach(r, a) ==
  \/ r.type = "HEAP" /\ Minus(Minus(a, r.start), r.size) <= HEAP_STEP
  \/ r.type = "STACK" /\ Align(Minus(r.start, a)) <= STACK_STEP

\* AddressRegion__resizeByAddr: its answer, and the regions after.
ResizeByAddr(ar, type, a) ==
  LET i == Min(SlotsOf(ar, type))
      r == Region(ar, i)
  IN  IF SlotsOf(ar, type) = {} THEN [ok |-> FALSE, ar |-> ar]
      ELSE IF StrictlyIn(r, a) THEN [ok |-> TRUE, ar |-> ar]
      ELSE IF ~ MayReach(r, a) THEN [ok |-> FALSE, ar |-> ar]
      ELSE [ok |-> TRUE,
            ar |-> [ar EXCEPT !.regions.item[i] =
                      IF type = "HEAP" THEN HeapGrown(r, a)
                                       ELSE StackGrown(r, a)]]

\* AddressRegion__declareForMmap: the address, and the regions after.
DeclareForMmap(ar, size) ==
  LET n == Align(size) \div PAGE
      run == RequestRegion(ar.mapRegions, n)
      r == [type |-> "MMAP", start |-> Plus(run.start * PAGE, MMAP_START),
            size |-> (n * PAGE) % WORD, crrt |-> [start |-> run.start, size |-> n]]
  IN  [start |-> r.start,
       ar |-> [regions |-> ArrAdd(ar.regions, r).arr, mapRegions |-> run.cr]]

\* Is an address in a region that AddressRegion__unmap takes away?
Unmappable(ar, a, size) ==
  /\ IsInRegion(ar, a) /\ TypeAt(ar, a) = "MMAP"
  /\ Region(ar, Max(SlotsAt(ar, a))).size = size

\* AddressRegion__unmap: where the region began, NULL if there is none, and
\* the regions after.
Unmap(ar, a, size) ==
  LET i == Max(SlotsAt(ar, a))
      r == Region(ar, i)
  IN  IF ~ Unmappable(ar, a, size) THEN [start |-> NULL, ar |-> ar]
      ELSE [start |-> r.start,
            ar |-> [regions |-> ArrDel(ar.regions, i),
                    mapRegions |-> Release(ar.mapRegions, r.crrt.start,
                                           r.crrt.size)]]
=============================================================================
