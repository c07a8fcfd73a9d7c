---------------------------- MODULE AddressSpace ----------------------------
(***************************************************************************)
(* addressSpace.c: the page tables of a process over the regions of        *)
(* addressRegion.c, and its user, as the test drives them: memory is       *)
(* mapped, gets pages when it is touched, and is unmapped in two calls,    *)
(* AddressSpace__unmap that collects the pages and                         *)
(* AddressSpace__delPageHelper that deletes them.                          *)
(*                                                                         *)
(* A page table is named by its place in the pageList it is recorded in,   *)
(* the root is the first; an entry is 0, the name of a table or, in a      *)
(* table of the last level, a page.                                        *)
(***************************************************************************)
EXTENDS AddressRegion, SeqFilter, Functions

CONSTANTS
  PAGE_SLOT,  \* the entries of a page table
  PageId,     \* the pages of VirtualFrame
  Sizes,      \* the sizes given to mmap and munmap
  Touched,    \* the addresses that are looked up and touched
  MaxMmaps,   \* bound: the mapped regions at a time
  MaxPages    \* bound: no mmap that would grow the table of runs further

Address == 0..(WORD - 1)

\* How many pages lie below an entry of a table of a level, and below the root.
Below(depth) == CASE depth = 3 -> 1
                  [] depth = 2 -> PAGE_SLOT
                  [] depth = 1 -> PAGE_SLOT * PAGE_SLOT
                  [] depth = 0 -> PAGE_SLOT * PAGE_SLOT * PAGE_SLOT
AllPages == PAGE_SLOT * PAGE_SLOT * PAGE_SLOT * PAGE_SLOT

\* The record of a region, here all for mmap.
MmapRecord == [type : {"MMAP"}, start : Nat, size : Nat,
               crrt : [start : Nat, size : Nat]]

\* Names differ from each other, and the tables reach as far as the regions do.
ASSUME SpaceAssumption ==
  /\ PAGE_SLOT \in Nat /\ PAGE_SLOT > 1
  /\ PageId \cap Nat = {} /\ Empty \notin MmapRecord
  /\ MaxPages \in Nat /\ MaxMmaps \in Nat
  /\ MMAP_START + MaxPages * PAGE <= AllPages * PAGE
  /\ MMAP_START + MaxPages * PAGE < WORD
  /\ Sizes \subseteq Address /\ Touched \subseteq Address

VARIABLES
  tables,    \* the page tables, in the order of pageList
  ar,        \* the regions
  pageList,  \* the pages of the process, a queue of its user's
  needFree,  \* the pages AddressSpace__unmap has collected
  live       \* the pages VirtualFrame has given out

spaceVars == <<tables, ar, pageList, needFree, live>>

Depth == 0..3
Slot  == 0..(PAGE_SLOT - 1)

EmptyTable == [i \in Slot |-> 0]

SpaceTypeOK ==
  /\ tables \in Seq([Slot -> Nat \cup PageId]) /\ tables # <<>>
  /\ \A i \in Slots(ar) :
       Region(ar, i).type = "MMAP" /\ Region(ar, i).start \in Address
  /\ ar.regions.alloced = Cardinality(Slots(ar))
  /\ pageList \in Seq(PageId)
  /\ needFree \subseteq PageId /\ live \subseteq PageId
-----------------------------------------------------------------------------
\* Mutant of Index: the mask is a bit short.
IndexNarrow(v, depth) == (v \div (PAGE * Below(depth))) % (PAGE_SLOT \div 2)

\* AddressSpace__getIndexByVaddr
Index(v, depth) == (v \div (PAGE * Below(depth))) % PAGE_SLOT

\* Entry i of table t set to x.
WithEntry(ts, t, i, x) == [ts EXCEPT ![t][i] = x]

\* Mutant of Deeper: there is always a new table.
DeeperAnew(w, i) ==
  LET new == Len(w.tables) + 1
  IN  [tables |-> Append(WithEntry(w.tables, w.at, i, new), EmptyTable),
       at |-> new]

\* A level down from the table at, which gets a table for entry i if need be.
Deeper(w, i) ==
  LET new == Len(w.tables) + 1
  IN  IF w.tables[w.at][i] = 0
      THEN [tables |-> Append(WithEntry(w.tables, w.at, i, new), EmptyTable),
            at |-> new]
      ELSE [tables |-> w.tables, at |-> w.tables[w.at][i]]

\* The way both loops go down from the root, in three rounds: the tables
\* after it, and the one of the last level it comes to.
Walk(ts, v) ==
  LET one == Deeper([tables |-> ts, at |-> 1], Index(v, 0))
      two == Deeper(one, Index(v, 1))
  IN  Deeper(two, Index(v, 2))

\* AddressSpace__mapVaddr
MapVaddr(ts, p, v) ==
  LET w == Walk(ts, v) IN WithEntry(w.tables, w.at, Index(v, 3), p)

\* AddressSpace__getPaddrByVaddr, its answer; tables it needs it makes.
GetPaddr(ts, v) == LET w == Walk(ts, v) IN w.tables[w.at][Index(v, 3)]

\* Mutant of Collected: the entry is left as it is.
CollectedOnly(c, v) ==
  LET p == GetPaddr(c.tables, v)
  IN  [tables |-> Walk(c.tables, v).tables,
       pages |-> c.pages \cup ({p} \ {0})]

\* One round of AddressSpace__unmap.
Collected(c, v) ==
  LET p == GetPaddr(c.tables, v)
  IN  IF p = 0 THEN [tables |-> Walk(c.tables, v).tables, pages |-> c.pages]
      ELSE [tables |-> MapVaddr(c.tables, 0, v), pages |-> c.pages \cup {p}]

\* The rounds of AddressSpace__unmap are a page apart, as far as the size.
Indents(size)        == (size + PAGE - 1) \div PAGE
PagesOf(start, size) == {start + (k - 1) * PAGE : k \in 1..Indents(size)}

Emptied(ts, start, size) ==
  LET after[k \in 0..Indents(size)] ==
        IF k = 0 THEN [tables |-> ts, pages |-> {}]
                 ELSE Collected(after[k - 1], start + (k - 1) * PAGE)
  IN  after[Indents(size)]
-----------------------------------------------------------------------------
\* AddressSpace__init
SpaceInit ==
  /\ tables = <<EmptyTable>> /\ ar = EmptySpace
  /\ pageList = <<>> /\ needFree = {} /\ live = {}

\* AddressSpace__mmap
Mmap(size) ==
  LET r == DeclareForMmap(ar, size)
  IN  /\ Cardinality(SlotsOf(ar, "MMAP")) < MaxMmaps
      /\ r.ar.mapRegions.size <= MaxPages
      /\ ar' = r.ar
      /\ UNCHANGED <<tables, pageList, needFree, live>>

Lookup(v) == /\ tables' = Walk(tables, v).tables
             /\ UNCHANGED <<ar, pageList, needFree, live>>

\* An address the process may use has no page yet: it gets one.
Fault(v) ==
  /\ IsInRegion(ar, v) /\ GetPaddr(tables, v) = 0
  /\ \E p \in PageId \ live :
       /\ live' = live \cup {p}
       /\ tables' = MapVaddr(tables, p, v)
       /\ pageList' = Append(pageList, p)
  /\ UNCHANGED <<ar, needFree>>

\* AddressSpace__unmap of a region; needFree has to be empty.
Munmap(a, size) ==
  LET r == Unmap(ar, a, size)
      c == Emptied(tables, r.start, size)
  IN  /\ needFree = {}
      /\ r.start # NULL
      /\ ar' = r.ar
      /\ tables' = c.tables /\ needFree' = c.pages
      /\ UNCHANGED <<pageList, live>>

\* AddressSpace__delPageHelper with the pages collected.
DelPages ==
  /\ needFree # {}
  /\ live' = live \ (needFree \cap Range(pageList))
  /\ pageList' = Among(pageList, PageId \ needFree)
  /\ needFree' = {}
  /\ UNCHANGED <<tables, ar>>

\* AddressSpace__free when the process has no pages, and a new process.
Exit ==
  /\ live = {}
  /\ tables' = <<EmptyTable>> /\ ar' = EmptySpace
  /\ UNCHANGED <<pageList, needFree, live>>

SpaceNext ==
  \/ \E n \in Sizes : Mmap(n)
  \/ \E v \in Touched : Lookup(v) \/ Fault(v)
  \/ \E a \in Touched, n \in Sizes : Munmap(a, n)
  \/ DelPages \/ Exit

SpaceSpec == SpaceInit /\ [][SpaceNext]_spaceVars
-----------------------------------------------------------------------------
PageAddress == {i * PAGE : i \in 0..(AllPages - 1)}

\* What tables hold for an address, 0 if one is missing on the way.
PageIn(ts, v) ==
  LET entry(t, i) == IF t = 0 THEN 0 ELSE ts[t][i]
      one   == entry(1, Index(v, 0))
      two   == entry(one, Index(v, 1))
      three == entry(two, Index(v, 2))
  IN  entry(three, Index(v, 3))

PageAt(v) == PageIn(tables, v)

\* The addresses that have a page.
Mapped == {v \in PageAddress : PageAt(v) # 0}

(***************************************************************************)
(* Every page of the process is on its list once, and is either mapped, at *)
(* one address, or collected by unmap for the delPageHelper that follows:  *)
(* none is deleted twice, none that is mapped is deleted, none leaks.      *)
(***************************************************************************)
PagesAccounted ==
  LET mapped == {PageAt(v) : v \in Mapped}
  IN  /\ SpaceTypeOK
      /\ IsInjective(pageList) /\ Range(pageList) = live
      /\ mapped \cup needFree = live /\ mapped \cap needFree = {}
      /\ Cardinality(mapped) = Cardinality(Mapped)

Entries(d) == {e \in (DOMAIN tables) \X Slot : tables[e[1]][e[2]] \in d}

(***************************************************************************)
(* The tables of pageList form a tree below the root, each the entry of    *)
(* one other and none of itself or of one behind it: AddressSpace__free,   *)
(* which frees what is in pageList, frees each table once and leaves none, *)
(* and no two addresses share an entry.                                    *)
(***************************************************************************)
TablesFormTree ==
  \A t \in 2..Len(tables) :
    /\ Cardinality(Entries({t})) = 1
    /\ \A e \in Entries({t}) : e[1] < t

Space == INSTANCE AddressMap
           WITH regions <- {PagesOf(Region(ar, i).start, Region(ar, i).size) :
                              i \in SlotsOf(ar, "MMAP")} \ {{}},
                mapping <- [v \in Mapped |-> PageAt(v)]

(***************************************************************************)
(* Through four levels of tables, slots and runs of cells, the calls do no *)
(* more to what the process sees than AddressMap allows.                   *)
(***************************************************************************)
ImplementsMap == Space!Spec
=============================================================================
