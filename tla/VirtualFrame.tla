---------------------------- MODULE VirtualFrame ----------------------------
(***************************************************************************)
(* The page cache of virtualFrame.c over the driver of frametable.c: pages *)
(* live in one of FRAME_LIMIT frames or in a block of the swap file, and a *)
(* clock hand chooses the frame to reuse.                                  *)
(*                                                                         *)
(* `vm` is the static VirtualFrame_s with the driver's Frame_s:            *)
(*   page    the records of pageTable; `lists` its doubly linked lists,    *)
(*           each the set of the pages that share one frame                *)
(*   frame   the records of frameTable, of which `nframes` are in use      *)
(*   last    lastConsider, the clock hand                                  *)
(*   disk    diskTable, the bit table of swap blocks                       *)
(*   cap     per page, the frame its capability is mapped to and whether   *)
(*           the mapping is writable                                       *)
(*   data    the contents of the frames, `swap` those of the swap blocks   *)
(*                                                                         *)
(* The driver calls back before swapOutFrame and swapInFrame return (with  *)
(* one that does not, __yieldByContext fails), so a call of the interface  *)
(* is one step, and only VirtualFrame__pinPageArr is taken apart, page by  *)
(* page, to see what holds between two requests for frames.                *)
(***************************************************************************)
EXTENDS Occupy, FiniteSets, Sequences

CONSTANTS
  PageId,       \* the slots of the page table
  NULL_SLOT,    \* no page
  FRAME_LIMIT,  \* the frames of the driver
  DISK_START,   \* page.frame_id from here on names a swap block
  Value,        \* what clients write
  Zero, Junk,   \* what a cleaned frame holds; what nobody has written
  Unwritten,    \* of a page no client has written: nothing in particular
  PinLimit,     \* bound: the pages clients keep pinned at a time
  ArrLengths,   \* bound: the lengths of the arrays clients pin
  MaxSharers,   \* bound: the pages on one list
  MaxMapped,    \* bound: the pages applications have mapped at a time
  MaxDeletes    \* bound: how many calls of VirtualFrame__delPage

ASSUME FrameAssumption ==
  /\ NULL_SLOT \notin PageId
  /\ FRAME_LIMIT \in Nat /\ FRAME_LIMIT > 0
  /\ Unwritten \notin Value
  /\ DISK_START \in Nat /\ DISK_START > FRAME_LIMIT
  /\ PinLimit \in Nat /\ PinLimit < FRAME_LIMIT
  /\ ArrLengths \subseteq 1..PinLimit
  /\ MaxSharers \in Nat /\ MaxMapped \in Nat /\ MaxDeletes \in Nat

VARIABLES
  vm,       \* the page cache and its driver
  loop,     \* VirtualFrame__pinPageArr and the array it last pinned
  pinned,   \* the pages clients have pinned one by one
  written,  \* what clients last wrote to each page or a sharer of it
  deletes   \* how many pages were deleted

vars == <<vm, loop, pinned, written, deletes>>

FrameId == 1..FRAME_LIMIT
Content == Value \cup {Zero, Junk}

PageRecord  == [frame_id : 0..(2 * DISK_START - 1), mapped : BOOLEAN]
FrameRecord == [virtual_id : PageId \cup {NULL_SLOT},
                disk_id : 0..(DISK_START - 1),
                pin : BOOLEAN, dirty : BOOLEAN, considered : BOOLEAN]
Mapping     == [to : 0..FRAME_LIMIT, write : BOOLEAN]

NewPage  == [frame_id |-> 0, mapped |-> FALSE]
NewFrame == [virtual_id |-> NULL_SLOT, disk_id |-> 0, pin |-> TRUE,
             dirty |-> FALSE, considered |-> FALSE]
Unmapped == [to |-> 0, write |-> FALSE]

-----------------------------------------------------------------------------
(* The page table *)

Live(s) == UNION s.lists

\* The pages on the list of v: what DoubleLinkList__foreach visits from
\* DoubleLinkList__getRoot of v on; none for the null slot.
Peers(s, v) == UNION {l \in s.lists : v \in l}

HasFrame(p)  == p.frame_id > 0 /\ p.frame_id < DISK_START
OnDisk(p)    == p.frame_id > DISK_START

\* Sent to a block of number 0: the next __requestPage fails `1 == 0`.
Refused(p)   == p.frame_id = DISK_START

Resident(s, v) == HasFrame(s.page[v])
FrameOf(s, v)  == s.frame[s.page[v].frame_id]

\* Mutant of PointPagesTo: only the page the frame names is redirected.
PointOnlyOwner(s, v, id) ==
  [s EXCEPT !.page = [w \in PageId |-> IF w = v
                                       THEN [s.page[w] EXCEPT !.frame_id = id]
                                       ELSE s.page[w]]]

\* __pointPageToNewFrame
PointPagesTo(s, v, id) ==
  [s EXCEPT !.page = [w \in PageId |-> IF w \in Peers(s, v)
                                       THEN [s.page[w] EXCEPT !.frame_id = id]
                                       ELSE s.page[w]]]

\* Mutants of UnmapPages: the page's bit is left set; only the page the frame
\* names is unmapped.
UnmapOnlyCap(s, v) ==
  [s EXCEPT !.cap = [w \in PageId |-> IF w \in Peers(s, v) THEN Unmapped
                                                           ELSE s.cap[w]]]
UnmapOnlyOwner(s, v) ==
  [s EXCEPT !.page = [w \in PageId |-> IF w = v
                                       THEN [s.page[w] EXCEPT !.mapped = FALSE]
                                       ELSE s.page[w]],
            !.cap  = [w \in PageId |-> IF w = v THEN Unmapped ELSE s.cap[w]]]

\* __unmapCB over the list of v, with FrameTable__unMapCap
UnmapPages(s, v) ==
  LET unmap == {w \in Peers(s, v) : s.page[w].mapped}
  IN  [s EXCEPT
         !.page = [w \in PageId |-> IF w \in unmap
                                    THEN [s.page[w] EXCEPT !.mapped = FALSE]
                                    ELSE s.page[w]],
         !.cap  = [w \in PageId |-> IF w \in unmap THEN Unmapped
                                                   ELSE s.cap[w]]]

-----------------------------------------------------------------------------
(* The clock of __requestFrame *)

\* The frame the hand is on in round k, of at most two turns.
Rounds(s)   == 1..(2 * s.nframes)
Hand(s, k)  == ((s.last + k) % s.nframes) + 1

\* Mutant of Takes: the pin is not looked at.
TakesPinned(s, k) ==
  s.frame[Hand(s, k)].considered \/ k > s.nframes

\* A frame is taken when it is not pinned and its considered bit is set: it
\* was before, or the hand set it a turn ago.
Takes(s, k) ==
  LET f == s.frame[Hand(s, k)]
  IN  ~ f.pin /\ (f.considered \/ k > s.nframes)

\* FrameTable__allocFrame will not answer 0.
HasFresh(s) == s.nframes < FRAME_LIMIT

\* The assertion `victim != 0` of __requestFrame will not fail.
CanServe(s) ==
  HasFresh(s) \/ \E f \in 1..s.nframes : ~ s.frame[f].pin

\* Move the hand to the victim; the frames it passes become considered.
Sweep(s) ==
  LET stop == Min({k \in Rounds(s) : Takes(s, k)})
      passed == {Hand(s, k) : k \in 1..(stop - 1)}
  IN  [s EXCEPT
         !.last  = (@ + stop) % s.nframes,
         !.frame = [f \in FrameId |->
                      IF f \in passed /\ ~ s.frame[f].pin
                      THEN [s.frame[f] EXCEPT !.considered = TRUE]
                      ELSE s.frame[f]]]

Victim(s) == s.last + 1

\* The victim's contents, if they were ever written, go to its swap block,
\* after its pages are unmapped; then its pages point to the block.
SwapOut(s, f, block) ==
  LET owner == s.frame[f].virtual_id
      t     == UnmapPages(s, owner)
  IN  [PointPagesTo(t, owner, block + DISK_START)
         EXCEPT !.swap[block] = s.data[f]]

\* A victim that was never written is dropped: its pages have no frame.
Drop(s, f) == PointPagesTo(s, s.frame[f].virtual_id, 0)

\* Mutant of ResetFrame: the frame stays considered.
ResetLeavesConsidered(s, f, pin) ==
  [s EXCEPT !.frame[f] = [NewFrame EXCEPT !.pin = pin, !.considered = TRUE]]

\* The victim's record afterwards: pinned only if it was swapped out.
ResetFrame(s, f, pin) == [s EXCEPT !.frame[f] = [NewFrame EXCEPT !.pin = pin]]

Evict(s, f) ==
  LET fr    == s.frame[f]
      r     == Alloc(s.disk)
      block == r.pos % DISK_START           \* disk_id is a bit field
  IN  IF fr.dirty /\ fr.disk_id = 0
      THEN ResetFrame(SwapOut([s EXCEPT !.disk = r.oct], f, block), f, TRUE)
      ELSE IF fr.disk_id # 0
      THEN ResetFrame(SwapOut(s, f, fr.disk_id), f, TRUE)
      ELSE ResetFrame(Drop(s, f), f, FALSE)

\* __requestFrame: a frame the driver has left, or the victim of the clock.
RequestFrame(s) ==
  IF HasFresh(s)
  THEN LET f == s.nframes + 1
       IN  [vm |-> [s EXCEPT !.nframes = f, !.frame[f] = NewFrame],
            frame |-> f]
  ELSE LET t == Sweep(s)
       IN  [vm |-> Evict(t, Victim(t)), frame |-> Victim(t)]

-----------------------------------------------------------------------------
(* Bringing a page into a frame *)

\* A call that needs page v can be served: the page is there, a frame can be
\* had, and the assertion `1 == 0` of __requestPage is not met.
Servable(s, v) ==
  /\ v \in Live(s)
  /\ \/ Resident(s, v)
     \/ CanServe(s) /\ ~ Refused(s.page[v])

\* Mutant of FillFrame: the frame forgets which block it was filled from.
FillForgetsBlock(s, f, v, id, fresh) ==
  [s EXCEPT !.frame[f].virtual_id = v, !.frame[f].disk_id = 0,
            !.data[f] = IF id > DISK_START THEN s.swap[id - DISK_START]
                                           ELSE fresh]

\* Frame f becomes that of v: filled from v's block, or with `fresh`.
FillFrame(s, f, v, id, fresh) ==
  LET block == id - DISK_START
  IN  [s EXCEPT !.frame[f].virtual_id = v,
                !.frame[f].disk_id = IF id > DISK_START THEN block ELSE 0,
                !.data[f] = IF id > DISK_START THEN s.swap[block] ELSE fresh]

\* Mutant of RequestPage: the frame is not cleaned.
RequestUncleaned(s, v) ==
  IF Resident(s, v) THEN s
  ELSE LET r == RequestFrame(s)
           t == FillFrame(r.vm, r.frame, v, s.page[v].frame_id,
                          r.vm.data[r.frame])
           u == [t EXCEPT !.page[v] = [s.page[v] EXCEPT !.frame_id = r.frame],
                          !.frame[r.frame].pin = FALSE]
       IN  PointPagesTo(u, v, r.frame)

\* __requestPage.  v's record is read before a frame is requested and
\* written back, with its new frame, after.
RequestPage(s, v) ==
  IF Resident(s, v) THEN s
  ELSE LET r == RequestFrame(s)
           t == FillFrame(r.vm, r.frame, v, s.page[v].frame_id, Zero)
           u == [t EXCEPT !.page[v] = [s.page[v] EXCEPT !.frame_id = r.frame],
                          !.frame[r.frame].pin = FALSE]
       IN  PointPagesTo(u, v, r.frame)

SetFrame(s, v, field, val) ==
  [s EXCEPT !.frame[s.page[v].frame_id][field] = val]

\* __swapInPageCB: the frame is one requested earlier, not cleaned and not
\* unpinned.
SwapInPage(s, v, f) ==
  PointPagesTo(FillFrame(s, f, v, s.page[v].frame_id, s.data[f]), v, f)

-----------------------------------------------------------------------------
(* The interface *)

Idle == [phase |-> "idle", arr |-> <<>>, todo |-> <<>>, frames |-> <<>>]

TypeOK ==
  /\ vm \in [page : [PageId -> PageRecord], lists : SUBSET (SUBSET PageId),
            frame : [FrameId -> FrameRecord], nframes : 0..FRAME_LIMIT,
            last : 0..(FRAME_LIMIT - 1),
            disk : [free : SUBSET Nat, data : SUBSET Nat, occupied : Int,
                    size : Nat, tail : Nat],
            cap : [PageId -> Mapping], data : [FrameId -> Content],
            swap : [0..(DISK_START - 1) -> Content]]
  /\ loop \in [phase : {"idle", "request", "swapin", "held"},
              arr : Seq(PageId), todo : Seq(PageId), frames : Seq(FrameId)]
  /\ pinned \subseteq PageId
  /\ written \in [PageId -> Value \cup {Unwritten}]
  /\ deletes \in 0..MaxDeletes

Init ==
  /\ vm = [page |-> [v \in PageId |-> NewPage], lists |-> {},
           frame |-> [f \in FrameId |-> NewFrame], nframes |-> 0, last |-> 0,
           disk |-> EmptyTable(0), cap |-> [v \in PageId |-> Unmapped],
           data |-> [f \in FrameId |-> Junk],
           swap |-> [b \in 0..(DISK_START - 1) |-> Junk]]
  /\ loop = Idle
  /\ pinned = {}
  /\ written = [v \in PageId |-> Unwritten]
  /\ deletes = 0

\* Between two calls of the interface.
Callable == loop.phase \in {"idle", "held"}

SeqSet(s) == {s[i] : i \in DOMAIN s}
Arr == SeqSet(loop.arr)

\* The pages clients keep pinned, one by one or as an array.
PinnedPages == pinned \cup Arr

AllocPage(v) ==
  /\ Callable /\ v \notin Live(vm)
  /\ vm' = [vm EXCEPT !.page[v] = NewPage, !.lists = @ \cup {{v}},
                      !.cap[v] = Unmapped]
  /\ UNCHANGED <<loop, pinned, written, deletes>>

\* Clients pin a list of sharers once, and leave a frame to the others.
PinPage(v) ==
  /\ Callable /\ Servable(vm, v)
  /\ Peers(vm, v) \cap PinnedPages = {}
  /\ Cardinality(PinnedPages) < PinLimit
  /\ vm' = SetFrame(RequestPage(vm, v), v, "pin", TRUE)
  /\ pinned' = pinned \cup {v}
  /\ UNCHANGED <<loop, written, deletes>>

UnpinPage(v) ==
  /\ Callable /\ v \in pinned
  /\ vm' = IF Resident(vm, v) THEN SetFrame(vm, v, "pin", FALSE) ELSE vm
  /\ pinned' = pinned \ {v}
  /\ UNCHANGED <<loop, written, deletes>>

MarkPageDirty(v) ==
  /\ Callable /\ Servable(vm, v)
  /\ vm' = SetFrame(RequestPage(vm, v), v, "dirty", TRUE)
  /\ UNCHANGED <<loop, pinned, written, deletes>>

\* VirtualFrame__getFrameCapByPage, which pins and unpins a page that has no
\* frame, changes the same.
GetVaddrByPageRef(v) ==
  /\ Callable /\ Servable(vm, v)
  /\ vm' = RequestPage(vm, v)
  /\ UNCHANGED <<loop, pinned, written, deletes>>

Wrote(v, x) ==
  [w \in PageId |-> IF w \in Peers(vm, v) THEN x ELSE written[w]]

\* How clients write, as in main: get the address, mark the page dirty, write
\* before any other call.
Store(v, x) ==
  /\ Callable /\ Servable(vm, v)
  /\ LET s == SetFrame(RequestPage(vm, v), v, "dirty", TRUE)
     IN  vm' = [s EXCEPT !.data[s.page[v].frame_id] = x]
  /\ written' = Wrote(v, x)
  /\ UNCHANGED <<loop, pinned, deletes>>

\* An application writes through its mapping of the page.
AppStore(v, x) ==
  /\ Callable /\ vm.cap[v].write
  /\ vm' = [vm EXCEPT !.data[vm.cap[v].to] = x]
  /\ written' = Wrote(v, x)
  /\ UNCHANGED <<loop, pinned, deletes>>

\* The list of w and v after VirtualFrame__dupPageMap(v) gave w.
Link(s, v, w) ==
  [s EXCEPT !.page[w] = [s.page[v] EXCEPT !.mapped = FALSE],
            !.cap[w] = Unmapped,
            !.lists = (@ \ {Peers(s, v)}) \cup {Peers(s, v) \cup {w}}]

\* VirtualFrame__dupPageShare does the same and sets copy_on_write on the
\* list, a bit that no code reads.
DupPageMap(v, w) ==
  /\ Callable /\ v \in Live(vm) /\ w \notin Live(vm)
  /\ Cardinality(Peers(vm, v)) < MaxSharers
  /\ vm' = Link(vm, v, w)
  /\ written' = [written EXCEPT ![w] = written[v]]
  /\ UNCHANGED <<loop, pinned, deletes>>

\* The caller maps the capability it is given, as main does, writable if
\* the context says so.
GetMapContext(v) ==
  /\ Callable /\ Servable(vm, v)
  /\ Cardinality({w \in PageId : vm.cap[w].to # 0} \ {v}) < MaxMapped
  /\ LET s == SetFrame(RequestPage(vm, v), v, "considered", FALSE)
     IN  vm' = [s EXCEPT !.page[v].mapped = TRUE,
                         !.cap[v] = [to |-> s.page[v].frame_id,
                                     write |-> FrameOf(s, v).dirty]]
  /\ UNCHANGED <<loop, pinned, written, deletes>>

-----------------------------------------------------------------------------
(* Deletion *)

\* v leaves its list and the page table; its capability is deleted.
Unlink(s, v) ==
  [s EXCEPT !.lists = (@ \ {Peers(s, v)}) \cup ({Peers(s, v) \ {v}} \ {{}}),
            !.page[v] = NewPage, !.cap[v] = Unmapped]

\* The last page of a list.  The frame's disk_id is zeroed before it is given
\* to Occupy__del; a block is given to it with DISK_START still added.
FreeStorage(s, v) ==
  LET id == s.page[v].frame_id
  IN  CASE id = 0 -> s
        [] id >= DISK_START -> [s EXCEPT !.disk = Del(@, id)]
        [] OTHER -> [s EXCEPT !.frame[id] = [NewFrame EXCEPT !.pin = FALSE,
                                                             !.considered = TRUE],
                              !.disk = Del(@, 0)]

\* Mutant of HandOver: the frame keeps naming the deleted page.
HandOverNot(s, v, candidate) == s

\* A page whose list goes on: a neighbour on it becomes the frame's page.
HandOver(s, v, candidate) ==
  IF Resident(s, v) /\ FrameOf(s, v).virtual_id = v
  THEN SetFrame(s, v, "virtual_id", candidate)
  ELSE s

\* Clients unpin a page before they delete it.
DelPage(v) ==
  /\ Callable /\ v \in Live(vm) \ PinnedPages
  /\ deletes < MaxDeletes
  /\ \/ /\ Peers(vm, v) = {v}
        /\ vm' = Unlink(FreeStorage(vm, v), v)
     \/ \E candidate \in Peers(vm, v) \ {v} :
          vm' = Unlink(HandOver(vm, v, candidate), v)
  /\ written' = [written EXCEPT ![v] = Unwritten]
  /\ deletes' = deletes + 1
  /\ UNCHANGED <<loop, pinned>>

-----------------------------------------------------------------------------
(* VirtualFrame__pinPageArr, one page of the array at a time *)

Distinct(arr) == \A i, j \in DOMAIN arr : i # j => arr[i] # arr[j]

PinPageArr(arr) ==
  /\ loop.phase = "idle"
  /\ Distinct(arr) /\ Cardinality(pinned) + Len(arr) <= PinLimit
  /\ \A i \in DOMAIN arr :
       /\ arr[i] \in Live(vm)
       /\ Peers(vm, arr[i]) \cap pinned = {}
       /\ \A j \in DOMAIN arr : arr[j] \in Peers(vm, arr[i]) => i = j
  /\ loop' = [phase |-> "request", arr |-> arr, todo |-> arr, frames |-> <<>>]
  /\ UNCHANGED <<vm, pinned, written, deletes>>

\* On to the next page of the array, and after the last one to `next`.
Advance(l, next) ==
  IF Tail(l.todo) # <<>> THEN [l EXCEPT !.todo = Tail(@)] ELSE next

\* __requestFrmaeCB: keep the frame the page has, or queue one for it.
RequestFrameStep ==
  LET v == Head(loop.todo)
      r == RequestFrame(vm)
      SwapIn(l) == [l EXCEPT !.phase = "swapin", !.todo = l.arr]
  IN  /\ loop.phase = "request"
      /\ \/ /\ Resident(vm, v)
            /\ vm' = SetFrame(SetFrame(vm, v, "pin", TRUE), v, "considered", FALSE)
            /\ loop' = Advance(loop, SwapIn(loop))
         \/ /\ ~ Resident(vm, v) /\ CanServe(vm)
            /\ vm' = r.vm
            /\ LET l == [loop EXCEPT !.frames = Append(@, r.frame)]
               IN  loop' = Advance(l, SwapIn(l))
      /\ UNCHANGED <<pinned, written, deletes>>

\* __swapInPageCB on the next page.
SwapInPageStep ==
  LET v == Head(loop.todo)
      Held(l) == [l EXCEPT !.phase = "held", !.todo = <<>>, !.frames = <<>>]
  IN  /\ loop.phase = "swapin"
      /\ \/ /\ Resident(vm, v)
            /\ vm' = vm
            /\ loop' = Advance(loop, Held(loop))
         \/ /\ ~ Resident(vm, v) /\ loop.frames # <<>>
            /\ vm' = SwapInPage(vm, v, Head(loop.frames))
            /\ LET l == [loop EXCEPT !.frames = Tail(@)]
               IN  loop' = Advance(l, Held(l))
      /\ UNCHANGED <<pinned, written, deletes>>

\* Mutant of Unpinned: the loop ends after the first page.
UnpinnedFirst(s, arr) == SetFrame(s, arr[1], "pin", FALSE)

\* __unpinCB on every page of the array.
Unpinned(s, arr) ==
  LET unpin == {s.page[v].frame_id : v \in {w \in SeqSet(arr) : Resident(s, w)}}
  IN  [s EXCEPT !.frame = [f \in FrameId |->
                             IF f \in unpin
                             THEN [s.frame[f] EXCEPT !.pin = FALSE]
                             ELSE s.frame[f]]]

UnpinPageArr ==
  /\ loop.phase = "held"
  /\ vm' = Unpinned(vm, loop.arr)
  /\ loop' = Idle
  /\ UNCHANGED <<pinned, written, deletes>>

-----------------------------------------------------------------------------

PageCall(v) ==
  \/ AllocPage(v) \/ PinPage(v) \/ UnpinPage(v) \/ MarkPageDirty(v)
  \/ GetVaddrByPageRef(v) \/ GetMapContext(v) \/ DelPage(v)

Next ==
  \/ \E v \in PageId : PageCall(v)
  \/ \E v \in PageId, x \in Value : Store(v, x) \/ AppStore(v, x)
  \/ \E v, w \in PageId : DupPageMap(v, w)
  \/ \E n \in ArrLengths : \E arr \in [1..n -> PageId] : PinPageArr(arr)
  \/ RequestFrameStep \/ SwapInPageStep \/ UnpinPageArr

Spec == Init /\ [][Next]_vars

-----------------------------------------------------------------------------
(* Properties *)

(***************************************************************************)
(* A frame and the pages on it point to each other: the frame's virtual_id *)
(* is one of the pages whose frame_id names it, and all of these are on    *)
(* one list.  Eviction finds the pages to redirect through virtual_id, and *)
(* delPage must hand it to a page that stays.                              *)
(***************************************************************************)
FrameHasItsPages ==
  /\ TypeOK
  /\ \A v \in Live(vm) : \A w \in Peers(vm, v) :
       vm.page[w].frame_id = vm.page[v].frame_id
  /\ \A v \in Live(vm) :
       Resident(vm, v) => FrameOf(vm, v).virtual_id \in Peers(vm, v)
  /\ \A f \in FrameId :
       LET owner == vm.frame[f].virtual_id
       IN  owner # NULL_SLOT => /\ owner \in Live(vm)
                                /\ vm.page[owner].frame_id = f

(***************************************************************************)
(* page.mapped says whether the driver's capability is mapped, so that     *)
(* neither the assertion of FrameTable__unMapCap that it is, nor that of   *)
(* FrameTable__mapCap that it is not, can fail.                            *)
(***************************************************************************)
MappedTracksCap ==
  \A v \in PageId : vm.page[v].mapped <=> vm.cap[v].to # 0

(***************************************************************************)
(* A writable mapping leads to the frame its page is on now, and that      *)
(* frame is dirty: what an application writes is never lost by a clean     *)
(* eviction and never lands in the frame of another page.                  *)
(***************************************************************************)
WritableMeansDirty ==
  \A v \in PageId :
    vm.cap[v].write => /\ Resident(vm, v)
                       /\ vm.cap[v].to = vm.page[v].frame_id
                       /\ FrameOf(vm, v).dirty

(***************************************************************************)
(* A page pinned by VirtualFrame__pinPage keeps a pinned frame until it is *)
(* unpinned, whatever is requested, shared, deleted or pinned meanwhile.   *)
(***************************************************************************)
PinnedStays ==
  \A v \in pinned : Resident(vm, v) /\ FrameOf(vm, v).pin

(***************************************************************************)
(* While clients pin at most PinLimit pages, some frame can always be had: *)
(* `assert(victim != 0)` of __requestFrame does not fail, nor does a frame *)
(* stay pinned that nobody uses.                                           *)
(***************************************************************************)
VictimExists == CanServe(vm)

(***************************************************************************)
(* VirtualFrame__pinPageArr queues frames that are distinct and hold no    *)
(* page, though those the clock took clean are not pinned, and queues one  *)
(* for each page still to be brought in.                                   *)
(***************************************************************************)
QueuedFramesFree ==
  /\ Distinct(loop.frames)
  /\ \A i \in DOMAIN loop.frames :
       vm.frame[loop.frames[i]].virtual_id = NULL_SLOT
  /\ loop.phase = "swapin" =>
       Len(loop.frames)
         = Cardinality({i \in DOMAIN loop.todo : ~ Resident(vm, loop.todo[i])})

\* The swap block of a list, resident or not; 0 if it has none.
BlockOf(v) ==
  IF Resident(vm, v) THEN FrameOf(vm, v).disk_id
  ELSE IF OnDisk(vm.page[v]) THEN vm.page[v].frame_id - DISK_START ELSE 0

(***************************************************************************)
(* No two lists of pages share a swap block.  Up to two deletions cannot   *)
(* break this, although delPage gives Occupy__del wrong numbers: the last  *)
(* block of the table's first word is freed while in use, but the table    *)
(* grows before the search comes back to it.                               *)
(***************************************************************************)
BlockExclusive ==
  \A v \in Live(vm) :
    BlockOf(v) # 0 =>
      \A w \in Live(vm) \ Peers(vm, v) : BlockOf(w) # BlockOf(v)

(***************************************************************************)
(* "there shouldn't be a state to get here" (__requestPage, before its     *)
(* assertion `1 == 0`): Occupy__alloc has a block for every eviction that  *)
(* needs one, so no page is sent to block 0, from which it could not be    *)
(* had again.  It fails after the third deletion.                          *)
(***************************************************************************)
NeverRefused == \A v \in Live(vm) : ~ Refused(vm.page[v])

\* What a client that asked for the page now would read, if it is answered.
Contents(v) ==
  IF Resident(vm, v) THEN vm.data[vm.page[v].frame_id]
  ELSE IF OnDisk(vm.page[v]) THEN vm.swap[vm.page[v].frame_id - DISK_START]
  ELSE Zero

Reads(v, x) == Refused(vm.page[v]) \/ Contents(v) = x

(***************************************************************************)
(* A client that asks for a page and is answered reads what was last       *)
(* written to it or to a sharer of it, through an address or a mapping,    *)
(* however often it was swapped since: "no matter how much time it swap,   *)
(* the data still in the disk" (virtualFrame.c, main).  It fails after the *)
(* third deletion, when a block is given to a second list of pages.        *)
(***************************************************************************)
DataKept ==
  \A v \in Live(vm) : written[v] # Unwritten => Reads(v, written[v])

(***************************************************************************)
(* "clean frame is needed", "clean the page data" (virtualFrame.c,         *)
(* __requestPage): a page nobody has written reads as zero, whatever page  *)
(* the frame held before and however often the page lost its frame.  Of    *)
(* the pages of an array it is not so.                                     *)
(***************************************************************************)
UnwrittenReadsZero ==
  \A v \in Live(vm) : written[v] = Unwritten => Reads(v, Zero)
=============================================================================
