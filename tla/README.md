# A verification model of COMP9242-Adts

COMP9242-Adts is a set of C data types written for an operating system on seL4:
growing arrays and queues, linked lists over slots, a bit table, the page cache
that uses all of these to move pages between memory and a swap file, regions of
an address space with page tables, heaps, and coroutines with a sleep queue.
This directory holds TLA+ models of these, TLC runs on small instances,
and proofs that TLAPS checks.

To check: `tlc -config <cfg> <module>` for a run of the table below, and
`tlapm <module>` for each module whose name ends in `Proofs` or `Lemmas`.

## 1. Inventory

| Component | State | Operations | Used by | Modelled |
|---|---|---|---|---|
| Occupy (`occupy.c`) | bits in use, data bits, count, size, tail | alloc, del, get, set | VirtualFrame (swap blocks) | yes |
| DynamicQ (`dynamicQ.c`) | circular array, head, tail | enQueue, first, deQueue, foreach, filter, dup | VirtualFrame, AddressSpace, SleepQ | yes |
| DynamicArr, DynamicArrOne (`dynamic*.c`) | slot array, count, tail | alloc, add, get, del, foreach | DoubleLinkList, VirtualFrame, FrameTable, AddressRegion | yes |
| DoubleLinkList (`doubleLinkList.c`) | nodes in slots, by prev and next | add, link, delink, del, get, update, getRoot, foreach | VirtualFrame (page table) | yes |
| VirtualFrame (`virtualFrame.c`) | page table, frame table, disk table, clock hand | allocPage, pin/unpin, markPageDirty, getVaddr, dup, getMapContext, delPage, pinPageArr | AddressSpace, applications | yes |
| FrameTable (`frametable.c`) | frames, capabilities, swap file | allocFrame, capability and swap calls | VirtualFrame, as its interface | in VirtualFrame |
| ContinueRegion (`contRegion.c`) | occupied cells, count, last index | requestRegion, release | AddressRegion | yes |
| AddressRegion (`addressRegion.c`) | regions in slots, map regions | declare, isInRegion, resizeByAddr, regionAddSize, declareForMmap, unmap | AddressSpace | yes |
| AddressSpace (`addressSpace.c`) | page tables, regions | mapVaddr, getPaddrByVaddr, mmap, unmap, delPageHelper | applications | yes |
| SleepQ (`sleepQ.c`) | queue of coroutines | sleep, tryWake | applications | yes |
| picoro (`picoro.c`) | running and idle lists, contexts | coroutine, resume, yield, resumable, get_running | SleepQ, applications | yes |
| PriorityQueue (`priority_q.c`) | array heap | add, first, pop | applications | yes |
| `heap.py` | list heap | insert, pop | nothing | no |
| `coroutine.c`, `exception.c` | - | experiments on their own | nothing | no |

Components call each other directly; there are no threads and no persistent
state beyond one run (`FrameTable__init` removes the swap file). What makes the
code hard is state spread over several structures that must stay in agreement:
a page knows its frame or block, a frame knows one page of the list that shares
it and the block it came from, the list links the sharers, the driver holds
capabilities mapped to frames, and the disk table knows which blocks are in use.
Every request for a page may evict another and changes all of these, in the
middle of an operation on the first. Callbacks (foreach, the swap calls, the
filter's compare function) run inside the operation that gave them. Coroutines
are the only interleaving of control: one has the CPU until it gives it to
another, in the middle of `SleepQ__tryWake`, too.

What makes each component correct:

- Occupy: a position has one holder; a bit is what was last set; alloc answers
  whenever there is room, and there is always room.
- DynamicQ: first in, first out, through growth at every position of head and
  tail; filter keeps the order.
- DynamicArr: the count is right, so the search for an empty slot ends.
- DoubleLinkList: lists stay disjoint and linked both ways; foreach from the
  root of any node visits its list; delink names a node that stays.
- VirtualFrame: records of pages, frames, blocks and capabilities agree; pinned
  pages stay; a victim can be found; data survives swapping; no writable mapping
  leads to a frame of another page.
- ContinueRegion, AddressRegion: regions are disjoint, what was granted is
  inside one, the search ends, munmap gives back what that mmap took.
- AddressSpace: a page is found where it was mapped and nowhere else; an
  unmapped page is found nowhere and deleted once.
- picoro: control goes to the coroutine that is resumed and comes back to the
  one that resumed it; a coroutine is resumable exactly while it is suspended.
- SleepQ: every sleeper is woken once per sleep, in order.
- PriorityQueue: pop answers a most important item, no item is lost.

## 2. Modules

    operators      a state and a client          what it promises
    ---------      --------------------          ----------------
    DynamicQ    <- DynamicQueue                  Fifo
    DynamicArr  <- DoubleLinkList                PageLists
    Occupy      <- OccupyTable
    Occupy      <- VirtualFrame
    ContRegion  <- ContinueRegion                DisjointRuns
    ContRegion, DynamicArr <- AddressRegion
    AddressRegion <- ProcessRegions
    AddressRegion <- AddressSpace                AddressMap
                   PriorityQueue                 PriorityBag
    Picoro      <- Coroutines                    ResumeStack
    Coroutines  <- SleepQ                        Fifo

(`<-`: is extended by.) The modules on the left are operators on a record, one
for each function of the file; a module of its own gives each a state and a
client, and larger components use the operators. The module in the middle is
shown to implement the one on the right, which says what remains when arrays,
slots, links and jumps are not seen. `MC` modules give instances for TLC. The
theorems are in these modules:

| Module | About | Lemmas of its own |
|---|---|---|
| `OccupyProofs` | OccupyTable | `OccupyLemmas`: what alloc does to a table |
| `QueueProofs` | DynamicQueue, SleepQ with Coroutines | lists that are sequences |
| `TableProofs` | ContinueRegion, DoubleLinkList, AddressSpace | links, trees of tables |
| `ProcessRegionsProofs` | ProcessRegions | arithmetic modulo `WORD` |
| `PriorityQueueProofs` | PriorityQueue | the order of the heap |
| `VirtualFrameProofs` | VirtualFrame | what each operation does to the page cache |

`TableLemmas` is for the second, third and fourth: numbers and least
elements, runs of cells, slot arrays, walks along links, and parts of sequences.
As a proof module extends several components, those that share one name their
predicates differently: `ListInit`, `ListNext` and `ListSpec` in DoubleLinkList,
and likewise `Sleep...` in SleepQ and `Space...` in AddressSpace.

What a loop of the code computes is a recursive function inside an operator,
never a RECURSIVE operator. `SeqFilter` has the one several modules need,
`Among`, the items of a sequence that are in a set; `SelectSeq` of the library
says the same of an operator, which the provers cannot be given.

**DynamicQ, DynamicQueue, Fifo.** A queue is a record of the fields of
`DynamicQ_s`. `Add` is `DynamicQ__enQueue` with its growth, `Remove` is
`DynamicQ__deQueue` (and each round of foreach), `BeginFilter`, `FilterStep`,
`EndFilter` are the start, one round and the return of `DynamicQ__filter`; no
other call happens in between, as in the code. `Items` reads the cells from head
on; `Fifo` is what remains when only the sequence of items is seen. Items are
model values; cells nobody wrote hold `Blank`.

**DynamicArr, DoubleLinkList, PageLists.** `DynamicArr` has the slots as a
function on `0..length-1`, `Empty` for a NULL pointer; freed and allocated
memory is otherwise the heap's. Nodes are records in slots and name each other
by slot + 1. The actions are the functions of `doubleLinkList.c`; `Link` has the
guard that its second node is on no list, which `VirtualFrame__dupPageMap`
ensures by linking a page it has just added. `PageLists` is the view of
VirtualFrame: a set of disjoint sets of pages with a datum each.

**Occupy, OccupyTable.** `free` and `data` are the sets of positions whose bit
is set in the two arrays. `BitOf` is what `pos / 64` and `1UL << (pos % 64 -
1)` address: at a multiple of the word size the shift count is -1, which C
leaves undefined and the processors of the build (x86-64, and ARM alike) take
modulo the word size. `Occupy__init` does not set `tail`: while the table has
one word its value is never used, and `OccupyTable` starts with either of two.
A bit in a word not yet part of the table is set in memory that
`__Occupy__resize` overwrites, and read as either value. A bit beyond the
allocation is written to memory of others; the model lets this have no effect,
which is the best case.

**VirtualFrame.** One variable `vm` holds the static `VirtualFrame_s` and the
driver's `Frame_s`; the frame's record has the bits of `Frame_s`, the page's
those of `VirtualPage_s` without the capability number (a function `cap` from
pages to mappings stands for the driver's capability array) and without
copy_on_write, which nothing reads. `frame_ref` equals the frame's own number:
both arrays grow together and lose nothing. Lists of pages are the sets of
`PageLists`, justified by the refinement `ImplementsLists`. The disk table is
a record of `Occupy`, with words of three bits.

| Action | Code |
|---|---|
| `AllocPage`, `DupPageMap` | `VirtualFrame__allocPage`, `__dupPageMap` (and `__dupPageShare`) |
| `PinPage`, `UnpinPage`, `MarkPageDirty`, `GetVaddrByPageRef` | the functions of these names, with `__requestPage` and all it does |
| `GetMapContext` | `VirtualFrame__getMapContext`, and the caller's `mapCap` |
| `Store`, `AppStore` | a client writes through an address it just got, or an application through its mapping |
| `DelPage` | `VirtualFrame__delPage` |
| `PinPageArr`, `RequestFrameStep`, `SwapInPageStep`, `UnpinPageArr` | `VirtualFrame__pinPageArr`: its call, one round of its first and second loop, and `__unpinPageArr` |

`RequestFrame` is `__requestFrame`: `Sweep` turns the clock hand to the victim,
`Evict` writes it to its block or drops it. An operation is one step because the
driver's swap calls answer before they return: one that answered later would
fail the assertion in `__yieldByContext`, as the yield is commented out there.
`pinPageArr` is taken apart so that invariants also hold between two requests.
The client keeps to what the code can bear: it pins a list once at a time, and
not more pages than `PinLimit`; it unpins a page before deleting it. `written`,
`pinned` and `deletes` are the client's own memory of what it did.

**ContRegion, ContinueRegion, DisjointRuns.** The search of
`ContinueRegion__requestRegion` is a loop over `this_start` and `clean`. What it
does is stated without the loop: the k-th cell it touches is last_index + k,
counted on from 0 again after the last, with a round lost to the "over flow
prevention" in between (`Blocked`); it is done in the first round that has n
cells that end no run behind it (`Rounds`). `LoopStart` is the loop itself, and
`FindsAsTheLoop` compares the two in every state of the run. `Searched` is the
table the search succeeds in: the recursion of the code is unfolded once, and
`SearchEnds` is that this is enough. A holder asks for no more cells than
`MaxRequest`.

**AddressRegion, ProcessRegions.** Sizes and addresses are uint64_t: `Plus`,
`Minus` count modulo `WORD`. Regions lie in the slots of `DynamicArr`, in whose
order the callbacks of foreach see them: `__inRegionCB` keeps the last that
matches, `__foundByTypeCB` the first. In `ProcessRegions` a loader declares a
heap and a stack, page faults and brk grow them, and the process maps and
unmaps; `usable` is what it was told it may use. `LayoutAssumption` says what
loaders and callers do: a heap is declared, as in the test, all regions lie
below MMAP_START, and nothing so large that an address below MMAP_START
plus a size wraps around. A region smaller than a page is left out: the first
growth of such a stack wraps around in `resizeByAddr`, and no loader declares
one.

**AddressSpace, AddressMap.** Page tables are named by their place in
`pageList`, which `AddressSpace__free` walks; `Walk` is the way both
`mapVaddr` and `getPaddrByVaddr` go down, making tables as they go. `Fault`,
`Munmap` and `DelPages` are the rounds of `main`: a page from VirtualFrame is
mapped where there is none, `AddressSpace__unmap` collects the pages of a
region, and `AddressSpace__delPageHelper` deletes them and filters the list of
the process. Other calls come between the last two. `live` is what VirtualFrame
has given out. The loop of `Walk` has three rounds in the code, too; `Emptied`
is the loop of unmap, by rounds. In the code a table and a page are both
numbers in an entry, told apart by the level; here pages are no numbers, so that
the type says which is which. `SpaceAssumption` has that, and that the tables
reach as far as mmap does: 512^4 pages in the code.

**PriorityQueue, PriorityBag.** A call is one step up to its loop and
one for each round, so that the order of the heap is also stated in the middle
of a loop. Items are pointers, and the same may be queued twice.

**Picoro, Coroutines, ResumeStack.** setjmp and longjmp are modelled by where
they were called: `ctx` tells for each coroutine the place its jmp_buf was set
at, and so where it goes on. The k-th frame of coroutine_main lies above the
k-1st; what the stacks hold and how large they are is left out. In `Coroutines`
whoever has the CPU creates others, resumes those it finds resumable, yields or
returns; the program itself does not yield, as it has nobody to yield to.

**SleepQ** puts the sleep queue on top of `Coroutines`, whose steps are among
its own. `TryWake` and `Awoken` are the two parts of `SleepQ__tryWake`, up to
its resume() and from its return on, with everything others do in between. The
queue is the sequence that `DynamicQueue` is shown to implement. As in `main`,
only one call of tryWake is under way at a time, a sleeper is resumed by it
alone, and nobody keeps the handle of a coroutine that has returned.

## 3. Runs

| Run | Result | What it shows |
|---|---|---|
| `occupy` | passes | one holder per position, bits kept (both except at the last bit of a word), alloc answers |
| `vf` | passes | records agree, and data survives under mapping, writing, sharing and eviction |
| `vf_arr` | passes | pinning of arrays: queued frames are free, a victim can be found, single pins hold |
| `vf_delete` | passes | up to two deletions leave survivors, data and blocks intact, and there is a block for each eviction |
| `vf_loss` | violation | after three deletions a block is given to a second page, and the first one's data is lost |
| `dynq` | passes | the queue is a FIFO queue; filter keeps order |
| `dll` | passes | linked slots are disjoint lists |
| `contregion` | passes | runs are apart, the search ends, little is missed |
| `regions` | passes | what was granted stays; munmap finds what mmap took |
| `space` | passes | four levels of tables are a map; pages are deleted once |
| `pq` | passes | the heap is a bag with the most important item first |
| `sleepq` | passes | resume and yield are a stack, resumable is suspended, sleepers wake in order and every one wakes |

The type invariant of a module is the first conjunct of one of its invariants.

Each property's comment names the behaviour it is about, and for each property
of a passing run the module holds a mutant, a small change of one operator
(marked `Mutant of`), under which TLC finds the property violated.

**Bounds.** Every bound is a constant with a comment.

- `occupy`: words of 3 bits (`SLOT_SIZE`, 64 in the code), up to 4 words
  (`MaxSize`), so the table grows twice, 1 to 2 to 4 words, which is where the
  probe over several words and the bit of the next word differ. At most seven
  positions are held (`MaxOccupied`), which fill the table of two words. Three lost
  deletions (`MaxLost`) are what it takes for alloc to fail.
- `vf`: 4 pages and 2 frames: two pages on one list (`MaxSharers`) and two
  alone, so that more lists than frames compete. One page is mapped
  (`MaxMapped`): the frame's own or a sharer. One value is written, and a page
  without it reads as zero; the code never looks at contents. Two values are in
  `vf_delete`.
- `vf_arr`: 3 frames, with up to two pages pinned at a time (`PinLimit`), one
  by one or in an array of two (`ArrLengths`; no pins in the other runs): the
  smallest in which one frame is queued while another is requested. Data and
  mappings are left to `vf`.
- `vf_delete`: one frame, so that every call evicts, and three pages, two of
  which may share it; two deletions (`MaxDeletes`), as the third loses data
  (`vf_loss`, with four pages, unshared and not mapped, and three deletions).
- `DISK_START` is 10 and a block number is below it; 2^19 in the code.
- `dynq`: at most 5 items, so each queue grows from 4 to 8 cells, at every
  position of head and tail; larger arrays are covered by the proofs. `dll`: 3 nodes
  reach the growth of the slot array from 4 to 8 and a list with a middle.
- `contregion`: three runs of up to three cells reach tables of 4 to 14 cells:
  both growths, a search that wraps, one that starts at the end of the table,
  and a hole on every side of last_index.
- `regions`: pages of two bytes, an address space of 40, growth by at most two
  pages a call. Heap and stack start apart and can meet; two mapped regions
  suffice for one to be in a slot before, or after, or right above the other.
  Sizes are none, a page, and a page and a half. munmap compares its size with the
  rounded one, so regions of two pages, which come of the last size, stay: with
  the size of two pages added the run does not end in five minutes. That such
  regions are unmapped right is left to the theorems (`PagesAgree`).
- `space`: tables of two entries, so 16 pages need all four levels and two
  addresses part at each of them. mmap has the upper ten pages (`MaxPages`), and
  `WORD`, in whole pages, is above every sum there. Three pages: a region of
  two and one of another. Two regions at a time (`MaxMmaps`).
- `pq`: up to six items are three levels, and the array grows from 4 to 8.
- `sleepq`: five frames of coroutine_main are four coroutines and
  the fresh one behind them. Three that wait on each other below a fourth are
  the longest chain that differs from a shorter one.
- Symmetry over pages, values and holders is used where constants are only
  compared; with refinements to specifications of safety, never with liveness.

**Deadlock** is checked in every run.

**Fairness.** Only `sleepq` has a property that needs it (`FairSleepSpec`). A
coroutine that has the CPU again and again gives it up some time: it yields,
sleeps or returns (strong fairness, since it may also resume others, which
disables the choice for a while). A call of tryWake whose resume() has returned
goes on (weak fairness: nobody else has the CPU). The program calls tryWake
again whenever it comes to have the CPU and somebody sleeps, as the loop of
`main` in `sleepQ.c` does, which stops when nobody sleeps (and after ten calls,
more than its one child needs; strong fairness: others run in between). Nothing is
assumed of those who create or resume coroutines. That the loops of getRoot,
foreach, the clock, the slot search and the search for a run end is stated as
invariants on the state they start from (`ListsWellFormed`, `VictimExists`,
`SlotsCounted`, `SearchEnds`).

## 4. Findings

delPage frees blocks by wrong numbers (`virtualFrame.c:498, 502, 505`).
`frame->disk_id` is zeroed before it is passed to `Occupy__del`, which takes the
0 for the last bit of the first word and marks it free, whoever holds it. For a
page on disk the number passed still includes `DISK_START`, and `Occupy__del`
writes a bit 64 KB behind the start of the bit table (word `2^19 / 64`), outside
the allocation of any small table. What that does to the memory there is not
modelled: the runs take it as having no effect, which is the best case. Each such call
also lowers `occupied`, by which the table grows, while the block stays taken.
After the third deletion two things can happen, here in words of three bits; in
words of 64 they take more pages, and the same steps:

- A block is given to a second page (the run `vf_loss`, `DataKept`, 14 steps). Two
  pages are deleted while they are on disk, in blocks 1 and 2, which stay taken.
  p1, written, is then sent to block 3, the last of the word. p3, dirty and in
  the frame, is deleted: `Occupy__del(0)` frees block 3, in which p1 is. p4 is
  written in the emptied frame, and when p1 is asked for, p4 is evicted and sent
  to block 3 too, over p1's data, before that is read.
- An eviction gets no block. No run is spent on it: `NeverRefused`, which
  `vf_delete` checks up to two deletions, is false on the instance of `vf_loss`
  after 13 steps. Three pages are deleted while they are on disk, in blocks 1, 2
  and 3. No bit is freed, but `occupied` is back at the value it began with, so the
  table does not grow for the next eviction. `Occupy__alloc` finds no free bit and answers 0, and the victim's
  page is recorded at block 0, that is with frame_id `DISK_START`. The next
  `__requestPage` of it comes to the `else` of which line 353 says "there shouldn't
  be a state to get here", and its `assert(1 == 0)`. `DataKept` does not count
  this page, since nothing is read of it.

The following came up while modelling. Each is what a definition says or a
guard excludes, and no run is spent on it:

- `occupy.c:77, 85, 92`: del, get and set address the last bit of each word in
  the next word, so a bit freed or set at a multiple of 64 is another position's
  (`InLastBit` in `HeldByOne` and `BitsKept`). The test at the end of
  `occupy.c` does not show it: at those positions it sets 0 and reads 0.
- `virtualFrame.c:300`: pages of a victim that was never written are not
  unmapped (`Drop`), against the comment at line 288. Such a mapping is
  read-only (`WritableMeansDirty`).
- `virtualFrame.c:300`: a victim that was never written is not pinned
  (`Evict`), against the postcondition of `__requestFrame` (line 241): a page of
  an array pinned by `pinPageArr` can lose its frame. Single pins hold
  (`PinnedStays`).
- `virtualFrame.c:568`: a page new to an array is not cleaned (`SwapInPage`),
  and shows what the frame held. Pages brought in one by one are clean
  (`UnwrittenReadsZero`, in the runs without arrays).
- `virtualFrame.c:398`: `getVaddrByPageRef` does not pin, although the header
  says "unpin required".
- `picoro.c:85`: get_running() hands out `first` while the program itself has
  the CPU; it stays resumable while it is blocked in resume().
- `picoro.c:120`: the handle of a coroutine that has returned is resumable again
  when its structure serves another.
- `picoro.c:116`: such a coroutine keeps its old stack, whatever is asked for.
- `sleepQ.c:25`, `:39`: a coroutine that tryWake has woken cannot call it before
  it gives up the CPU, and nobody else may resume a sleeper: the entry in the
  queue leads the next tryWake to the assertion of resume().
- `dynamicArrOne.c:33`: `DynamicArrOne__free` calls itself. The swap calls of the
  driver are inside `assert` (`frametable.c:80-85`), so a build with NDEBUG
  would not swap.

## 5. Proofs

### Queues and coroutines

`QueueProofs` proves of DynamicQueue, for every set of items and every bound on
the length of the queue:

- `TypeCorrect`: `Spec => []TypeOK`, a part of the next
- `RepresentationKept`: `Spec => []QueuesWellFormed`
- `FilterKeepsOrder`: `Spec => []FilterReturnsPassing`
- `QueueIsFifo`: `Spec => ImplementsFifo`

They use `MaxItemsAssumption` and nothing else. The inductive invariant `IInv`
says that both queues are well formed and typed, and that the second is empty
outside a filter. Well-formedness is needed because `Wraps` (tail < head) tells
how the items lie only while two cells are free: in a full array tail equals
head. `GrowKeepsItems` is the heart: cell by cell, the items that wrapped are
found again behind the old end. From it `EnQueueAppends` and
`DeQueueTakesFirst` say what the operations do to `Items`, and each action maps
to an action of `Fifo` or leaves it unchanged. What a
filter has built and what it has still to give are compared by taking off the
first item (`AmongFront`).

And of SleepQ with its coroutines, for any number of them, from
`CoroAssumption`:

- `SleepQHolds`: `SleepSpec => []SleepInv`
- `ListsTell`: `SleepSpec => []ListsTellStates`
- `SleepersHold`: `SleepSpec => []SleepersQueued`
- `WakesInOrder`: `SleepSpec => WokenInOrder`
- `StackHolds`: `SleepSpec => ImplementsStack`

The lists of picoro.c are links in a function, and what is asked of them is
asked of all their members. So the invariant first says which sequences they
are: `State(p, r, i, n)` has the running list `r`, the idle list `i` and the
number `n` of frames, `Holds` that the links are those sequences, and `Kinds`
that the context of a coroutine tells which one it is on, and whether it is its
head. The frame made last is the last of the idle list, and the only fresh one.
`SleepInv` adds that at most one call of tryWake is under way, and that the
queue behind its entry has those who sleep, once each (`Queued`). What a step
does to the stack of those who run is one of a few moves at its top
(`StackMove`), and what it does to the queue one at its head or its end
(`QueueMove`); both refinements are read off these. The theorems are about
`SleepSpec`, whose steps of coroutines are those of `Coroutines`.

### The bit table

`OccupyProofs` proves, for every word size of at least 3 and every bound on the
table:

- `OneHolder`: `Spec => []HeldByOne`
- `BitsStay`: `Spec => []BitsKept`
- `AllocAnswers`: `Spec => []AllocServes`

They use `SlotSizeAssumption` and `BoundAssumption`. The inductive invariant
`IInv` has the types, both properties, and that a held position is inside the
table (`HeldInside`). The last is needed because growth marks all positions of
the new words free and clears their bits: a holder out there would lose its
position and its bit. Both properties except the last position of a word, where
the code addresses another bit; the argument is that whatever del and set do
there, they touch only last positions (`LastBitMoves`), never a position of
another holder. `OccupyLemmas` has what alloc does to a table, and that `Min`
picks a member.

`AllocAnswers` needs a second invariant on top, `CountInv`: what the table
counts as occupied is what clients hold, counted as pairs of a position and the
how-manyeth holder of it (`Handed`), and the free bits are fewer than the
count leaves by at most the deletions that freed nothing (`Counted`). While
fewer than three are lost, a table that is not grown has a free bit left, and
the probe of `Occupy__alloc` comes to every word, so it finds it.

### Tables: runs, lists, page tables

`TableProofs` proves of ContinueRegion, from `RequestAssumption` alone, so for
every length and number of runs:

- `RunsApart`: `Spec => []OccupiedExactly`
- `SearchTerminates`: `Spec => []SearchEnds`
- `GrowthNeedsWant`: `Spec => []GrowsForWantOfRun`
- `SearchIsTheLoop`: `Spec => []FindsAsTheLoop`
- `GrantsDisjointRuns`: `Spec => ImplementsRuns`

`OccupiedExactly`, with the table typed and its count right (`Regions`), is
inductive by itself: what the search finds is inside the table and free
(`RunIsFree`), since a run never goes on past the last cell. After a growth the
cells behind the old end are a run the loop is sure to reach (`GrownHasRun`), so
the recursion ends. Each call then maps to a step of `DisjointRuns` or changes
nothing of it. `SearchIsTheLoop` justifies stating the search without its loop.
Its loop invariant `Running` says that before round k the loop looks at the k-th
cell, that the last `clean` rounds ended no run, and that the one before them
did; the first round with n of them is then the same for both.

Of DoubleLinkList, for any number of nodes, from `NodesAssumption` and
`EmptyAssumption` (an empty slot is not a node):

- `LinksHold`: `ListSpec => []LinksInv`
- `CountHolds`: `ListSpec => []SlotsCounted`
- `WellFormedHolds`: `ListSpec => []ListsWellFormed`
- `CandidateHolds`: `ListSpec => []CandidateStays`
- `ImplementsLists`: `ListSpec => ImplementsPageLists`

The invariant is `Linked`: slots are typed and counted (`Slotted`), neighbours
name each other (`TwoWay`), and of any set of nodes one has its next outside
(`NoRing`). The last is not a consequence of the second: a ring is linked both
ways everywhere, and getRoot would run for ever in it. getRoot and foreach are
recursive functions from a node on; what they compute is shown by taking the
least round at which it would be false. From `NoRing` they come to an end, from
`TwoWay` they go through the same nodes from either end, so two nodes have the
same root exactly when one is reached from the other, which is what the mapping
to `PageLists` needs.

Of AddressSpace, for page tables of any size, any sizes and addresses, from
`SpaceAssumption` and the assumption of `AddressRegion`:

- `TreeHolds`: `SpaceSpec => []TablesFormTree`
- `PagesAccountedFor`: `SpaceSpec => []PagesAccounted`
- `SpaceImplementsMap`: `SpaceSpec => ImplementsMap`

`SpaceInv` has four parts. `IsTree`: there is a level for each table, the
root's is 0, entries of the last level are pages and others are tables behind
theirs on the next level, no table is two entries. `RegionsInv`: the runs of
cells of regions are apart and make up the cells in use, and a region lies
where its run is. `Listed`: the list of the process has each page given out
once. `PagesHeld`: the pages the tables hold are those given out and not
collected, each at one address, which is in a region. The last is why unmap,
which knows only the region, loses no page: all its region has are at the
addresses it visits, as a region starts at a page and is whole pages long.
Going down only prolongs the tree (`Prolongs`), which changes no answer; two
addresses share an entry of the last level exactly when all digits of their
page numbers agree (`Alike`), and then they are on one page (`AlikeIs`).
`DoneTo` is the invariant of the loop of unmap. `Joined` and `Parted` say what
mmap and unmap do to the regions, and with them each call is a step of
`AddressMap` or a stutter.

### Regions of a process

`ProcessRegionsProofs` proves, for every layout, page size, step of growth and
set of sizes and addresses the process comes with:

- `PagesAgree`: `Spec => []PagesMatchRegions`
- `GrantsHold`: `Spec => []GrantedStays`
- `MunmapTakesIts`: `Spec => []MunmapFinds`

They use `AddressAssumption`, `LayoutAssumption` and `EmptyAssumption` (an empty
slot is not a region). The inductive invariant `IInv` says of the address space
(`SpaceInv`) that the slot array is typed and counts its items (`Slotted`), that
there is one region of each type the loader declares, that each lies where its
type may (`Placed`: a heap up to HeapEnd, a stack below MMAP_START, a mapped
region where its run of pages is), and that the pages agree (`PagesMatch`); and
of the process (`UsableIn`) that what it may use is in some region. Where regions
lie is needed twice: so that no sum of the code wraps around, and so that a
region that grows keeps what it has: `HeapReaches` and `StackReaches` are that
arithmetic, modulo `WORD`. `MunmapFinds` needs that no region of another type has
an address of a mapped one (`MmapAlone`), as the callback keeps the last slot that
matches. It holds only because the heap ends at HeapEnd, which the code does
not see to: the hazard about line 156 of addressRegion.c. The search for a slot
ends in one that is free because growth keeps two free (`FreeSlotIsFree`,
`AddHolds`).

### The heap

`PriorityQueueProofs` proves, from `ItemAssumption`, for all items, priorities
and sizes of the array:

- `HeapStaysOrdered`: `Spec => []HeapOrder`
- `PopsMostImportant`: `Spec => ImplementsBag`

`HeapOrder` speaks of every round of both loops and is inductive with the
types: one item may be out of place, and those above and below it are in order
across it. That the root is a most important item follows by taking the first
place that is not below it, whose parent then is an earlier one (`RootIsMost`);
that no call loses or doubles an item, by a bijection between the places before
and after.

### The page cache

`VirtualFrameProofs` proves, from `FrameAssumption` and `SlotSizeAssumption`, so
for any numbers of pages, frames and blocks, any sharing, arrays of any length:

- `PagesKnowTheirFrames`: `Spec => []FrameHasItsPages`
- `MappingsAgree`: `Spec => []MappedTracksCap`
- `WritesAreNotLost`: `Spec => []WritableMeansDirty`
- `PinsHold`: `Spec => []PinnedStays`
- `VictimsAreFound`: `Spec => []VictimExists`
- `QueuedFramesSuffice`: `Spec => []QueuedFramesFree`

None of these is inductive: an operation on one page may evict another, change
its frame and all pages on its list, unmap capabilities and take a block, before
it does what it was called for. The invariant `Inv` is what all of these parts
agree on: the types; `Sound(vm)`, that lists are apart, every page is on the
frame or block its list is on, a frame's virtual_id names a page that is there,
and the mapped bit tells what the capability is; the state of the array being
pinned (`LoopRuns`, `PinnedApart`, `FramesQueued`); and `PinnedStays` with its
converse `PinnedHeld`, that no frame has a pin nobody asked for. The converse is
what the victim needs: the frames that are pinned or queued are then fewer than
all frames, by counting (`FrameLeft`, `SomeFrame`). `QueuedFramesFree` rests on
the clock coming by all other frames first (`ClockPasses`). Each part was
checked by TLC on the instances of the runs before it was proved.

On this stands what the contents of pages do, with `Accountable` for
`deletes = 0 /\ vm.disk.size < DISK_START`:

- `WritesAreKept`: `Spec => [](Accountable => DataKept)`
- `BlocksAreExclusive`: `Spec => [](Accountable => BlockExclusive)`
- `PagesAreServed`: `Spec => [](Accountable => NeverRefused)`
- `UnwrittenPagesAreClean`: the same for `UnwrittenReadsZero`, when
  `ArrLengths = {}`

The invariant `DataInv` says where the content of a list is: on its frame if it
has one, else in its block; a frame that is not dirty has a block with the same
content, or has never been written; no two lists have the same block, and every
block one has is taken in the disk table (`Stored`), which counts right, so an
eviction that needs a block gets one that nobody has. The conditions are the
code's, not the proof's. A deletion frees the wrong block (section 4), and after
three of them `DataKept` and `NeverRefused` are false. TLC finds them true up to
two, which the theorems leave to it. `DataKept` and `UnwrittenReadsZero` speak
of what a client reads that is answered; that it is answered is `NeverRefused`.
A block number from `DISK_START` on does not fit the bit field it is kept in.
And an array pinned by `pinPageArr` brings in its pages uncleaned, so only a
process without arrays reads zeros.

### Only model-checked

- `EverySleeperWakes`, and liveness altogether: the prover has no ENABLED.
- `DataKept`, `BlockExclusive` and `NeverRefused` once pages are deleted, up to two
  deletions; the third makes `DataKept` and `NeverRefused` false (section 4).
  `UnwrittenReadsZero` is neither proved nor checked then.

All other properties of the runs are theorems. What the proofs take from the
model and not from the code is the same as for TLC: what section 2 says of how
clients behave, and that an operation is one step where it is.

## 6. Not modelled

- `coroutine.c` and `exception.c` try setjmp and longjmp; they keep no state and
  nothing uses them.
- `heap.py`: nothing uses it, and its algorithm is that of `priority_q.c` with
  another numbering of the places.
- Memory: malloc and free, the free functions, and the bytes of stacks. The
  values that resume() and yield() pass on, get_running() and
  get_consumed_stack(), which only read.
- Failures of the file functions of `frametable.c`, which only fail an
  assertion, and drivers that answer a swap call later: `__yieldByContext`
  stops at an assertion with one.
- Uncounted pins: a list with two pins is outside what clients do. So are the
  calls that the points about coroutines in section 4 tell of.
- 64-bit sizes near 2^64; `regionAddSize` of a stack, which nothing calls.

## 7. What could follow

1. Lists of VirtualFrame are the sets of `PageLists`, by the refinement proved
   for DoubleLinkList, and the pages of AddressSpace are the names VirtualFrame
   gives out. A module that composes all three would also show what
   delPageHelper does to the pages of two processes.
2. What remains true of data when pages are deleted: which block a deletion
   frees, and how long no list has it. TLC finds it true up to two deletions.
3. delPage with the numbers it should use: `DataKept` would then hold without
   the condition on deletions, with the invariant of section 5.
