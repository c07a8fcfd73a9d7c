------------------------- MODULE VirtualFrameProofs -------------------------
(***************************************************************************)
(* The page cache keeps its records in agreement and its pinned pages in   *)
(* their frames, for any number of pages, frames and blocks and for arrays *)
(* pinned in any length: theorems about every behaviour of VirtualFrame.   *)
(***************************************************************************)
EXTENDS VirtualFrame, OccupyLemmas, FiniteSetTheorems

-----------------------------------------------------------------------------
(* What the operations of virtualFrame.c do to the records of pages, frames *)
(* and capabilities, and that they leave them in agreement.                *)

(* The state of the page cache, vm, as the operators see it. *)

VmRecord ==
  [page : [PageId -> PageRecord], lists : SUBSET (SUBSET PageId),
   frame : [FrameId -> FrameRecord], nframes : 0..FRAME_LIMIT,
   last : 0..(FRAME_LIMIT - 1), disk : Table, cap : [PageId -> Mapping],
   data : [FrameId -> Content], swap : [0..(DISK_START - 1) -> Content]]

\* No page is on two lists.
ListsApart(s) ==
  /\ {} \notin s.lists
  /\ \A l, m \in s.lists : l # m => l \cap m = {}

\* A page's frame_id is 0, a frame, or a block; one not in use has none.
PagesPlaced(s) ==
  /\ \A v \in PageId : HasFrame(s.page[v]) => s.page[v].frame_id \in FrameId
  /\ \A v \in PageId \ Live(s) : s.page[v] = NewPage /\ s.cap[v] = Unmapped
  /\ \A v \in Live(s) : \A w \in Peers(s, v) :
       s.page[w].frame_id = s.page[v].frame_id

\* A frame with a page is in use, and its page is one of those that name it.
FramesPlaced(s) ==
  /\ \A v \in Live(s) :
       Resident(s, v) => FrameOf(s, v).virtual_id \in Peers(s, v)
  /\ \A f \in FrameId :
       LET owner == s.frame[f].virtual_id
       IN  owner # NULL_SLOT => /\ owner \in Live(s) /\ f <= s.nframes
                                /\ s.page[owner].frame_id = f

\* Capabilities are mapped where the pages say so, and where one is writable
\* the frame is dirty.
CapsTracked(s) ==
  \A v \in PageId :
    /\ s.page[v].mapped <=> s.cap[v].to # 0
    /\ s.cap[v].write => /\ Resident(s, v)
                         /\ s.cap[v].to = s.page[v].frame_id
                         /\ FrameOf(s, v).dirty

Sound(s) ==
  /\ s \in VmRecord /\ s.disk.free \subseteq 1..s.disk.size
  /\ ListsApart(s) /\ PagesPlaced(s) /\ FramesPlaced(s) /\ CapsTracked(s)

-----------------------------------------------------------------------------
(* Lists *)

LEMMA PeersIsList ==
  ASSUME NEW s, ListsApart(s), NEW l \in s.lists, NEW v \in l
  PROVE  Peers(s, v) = l
BY DEF ListsApart, Peers

LEMMA PeersSymmetric ==
  ASSUME NEW s, ListsApart(s), NEW v, NEW w \in Peers(s, v)
  PROVE  /\ v \in Live(s) /\ w \in Live(s)
         /\ v \in Peers(s, v) /\ v \in Peers(s, w)
         /\ Peers(s, w) = Peers(s, v)
BY DEF ListsApart, Peers, Live

LEMMA PeersOfNone ==
  ASSUME NEW s, NEW v, v \notin Live(s)
  PROVE  Peers(s, v) = {}
BY DEF Peers, Live

LEMMA LivePages ==
  ASSUME NEW s \in VmRecord
  PROVE  /\ Live(s) \subseteq PageId /\ NULL_SLOT \notin Live(s)
         /\ \A v : Peers(s, v) \subseteq Live(s)
         /\ \A v \in Live(s) : v \in Peers(s, v)
BY FrameAssumption DEF VmRecord, Live, Peers

LEMMA FrameIds == FrameId \subseteq 1..(DISK_START - 1) /\ FrameId \subseteq Nat
BY FrameAssumption DEF FrameId

-----------------------------------------------------------------------------
(* What the callbacks over a list change *)

LEMMA PointPagesToFields ==
  ASSUME NEW s \in VmRecord, NEW v, NEW id \in 0..(2 * DISK_START - 1)
  PROVE  LET t == PointPagesTo(s, v, id)
         IN  /\ t \in VmRecord
             /\ t.lists = s.lists /\ t.frame = s.frame
             /\ t.nframes = s.nframes /\ t.last = s.last /\ t.disk = s.disk
             /\ t.cap = s.cap /\ t.data = s.data /\ t.swap = s.swap
             /\ \A w \in PageId :
                  /\ t.page[w].mapped = s.page[w].mapped
                  /\ t.page[w].frame_id = IF w \in Peers(s, v) THEN id
                                          ELSE s.page[w].frame_id
                  /\ w \notin Peers(s, v) => t.page[w] = s.page[w]
<1> DEFINE P == [w \in PageId |-> IF w \in Peers(s, v)
                                  THEN [s.page[w] EXCEPT !.frame_id = id]
                                  ELSE s.page[w]]
<1>1. s.page \in [PageId -> PageRecord]
  BY DEF VmRecord
<1>2. P \in [PageId -> PageRecord]
  <2> SUFFICES ASSUME NEW w \in PageId
               PROVE  [s.page[w] EXCEPT !.frame_id = id] \in PageRecord
    BY <1>1
  <2>1. s.page[w] \in PageRecord
    BY <1>1
  <2> QED BY <2>1 DEF PageRecord
<1>3. \A w \in PageId : /\ P[w].mapped = s.page[w].mapped
                        /\ P[w].frame_id = IF w \in Peers(s, v) THEN id
                                           ELSE s.page[w].frame_id
                        /\ w \notin Peers(s, v) => P[w] = s.page[w]
  BY <1>1 DEF PageRecord
<1>4. PointPagesTo(s, v, id) = [s EXCEPT !.page = P]
  BY DEF PointPagesTo
<1> HIDE DEF P
<1>5. PointPagesTo(s, v, id) =
        [page |-> P, lists |-> s.lists, frame |-> s.frame,
         nframes |-> s.nframes, last |-> s.last, disk |-> s.disk,
         cap |-> s.cap, data |-> s.data, swap |-> s.swap]
  BY <1>4 DEF VmRecord
<1> QED BY <1>2, <1>3, <1>5 DEF VmRecord

LEMMA UnmapPagesFields ==
  ASSUME NEW s \in VmRecord, NEW v
  PROVE  LET t == UnmapPages(s, v)
         IN  /\ t \in VmRecord
             /\ t.lists = s.lists /\ t.frame = s.frame
             /\ t.nframes = s.nframes /\ t.last = s.last /\ t.disk = s.disk
             /\ t.data = s.data /\ t.swap = s.swap
             /\ \A w \in PageId :
                  /\ t.page[w].frame_id = s.page[w].frame_id
                  /\ w \notin Peers(s, v) => /\ t.page[w] = s.page[w]
                                             /\ t.cap[w] = s.cap[w]
                  /\ w \in Peers(s, v) =>
                       /\ ~ t.page[w].mapped
                       /\ t.cap[w] = IF s.page[w].mapped THEN Unmapped
                                                         ELSE s.cap[w]
<1> DEFINE U == {w \in Peers(s, v) : s.page[w].mapped}
           P == [w \in PageId |-> IF w \in U
                                  THEN [s.page[w] EXCEPT !.mapped = FALSE]
                                  ELSE s.page[w]]
           C == [w \in PageId |-> IF w \in U THEN Unmapped ELSE s.cap[w]]
<1>1. s.page \in [PageId -> PageRecord] /\ s.cap \in [PageId -> Mapping]
  BY DEF VmRecord
<1>2. P \in [PageId -> PageRecord]
  <2> SUFFICES ASSUME NEW w \in PageId
               PROVE  [s.page[w] EXCEPT !.mapped = FALSE] \in PageRecord
    BY <1>1
  <2>1. s.page[w] \in PageRecord
    BY <1>1
  <2> QED BY <2>1 DEF PageRecord
<1>3. C \in [PageId -> Mapping]
  <2>1. Unmapped \in Mapping
    BY FrameAssumption DEF Unmapped, Mapping
  <2> QED BY <1>1, <2>1
<1>4. ASSUME NEW w \in PageId
      PROVE  /\ P[w].frame_id = s.page[w].frame_id
             /\ w \notin Peers(s, v) => P[w] = s.page[w] /\ C[w] = s.cap[w]
             /\ w \in Peers(s, v) =>
                  /\ ~ P[w].mapped
                  /\ C[w] = IF s.page[w].mapped THEN Unmapped ELSE s.cap[w]
  <2>1. s.page[w] \in PageRecord
    BY <1>1
  <2> QED BY <2>1 DEF PageRecord
<1>5. UnmapPages(s, v) = [s EXCEPT !.page = P, !.cap = C]
  BY DEF UnmapPages
<1> HIDE DEF P, C, U
<1>6. UnmapPages(s, v) =
        [page |-> P, lists |-> s.lists, frame |-> s.frame,
         nframes |-> s.nframes, last |-> s.last, disk |-> s.disk,
         cap |-> C, data |-> s.data, swap |-> s.swap]
  BY <1>5 DEF VmRecord
<1> QED BY <1>2, <1>3, <1>4, <1>6 DEF VmRecord

-----------------------------------------------------------------------------
(* One field of vm at a time *)

LEMMA ChangeFrame ==
  ASSUME NEW s \in VmRecord, NEW F \in [FrameId -> FrameRecord]
  PROVE  LET t == [s EXCEPT !.frame = F]
         IN  /\ t \in VmRecord /\ t.frame = F
             /\ t.page = s.page /\ t.lists = s.lists
             /\ t.nframes = s.nframes /\ t.last = s.last /\ t.disk = s.disk
             /\ t.cap = s.cap /\ t.data = s.data /\ t.swap = s.swap
BY DEF VmRecord

LEMMA ChangeInUse ==
  ASSUME NEW s \in VmRecord, NEW F, NEW n, NEW t,
         t = [s EXCEPT !.nframes = n, !.frame = F]
  PROVE  t = [page |-> s.page, lists |-> s.lists, frame |-> F,
              nframes |-> n, last |-> s.last, disk |-> s.disk,
              cap |-> s.cap, data |-> s.data, swap |-> s.swap]
BY DEF VmRecord

\* A frame's record replaced.
LEMMA ChangeRecord ==
  ASSUME NEW s \in VmRecord, NEW f \in FrameId, NEW r \in FrameRecord
  PROVE  LET t == [s EXCEPT !.frame[f] = r]
         IN  /\ t \in VmRecord
             /\ \A g \in FrameId : t.frame[g] = IF g = f THEN r ELSE s.frame[g]
             /\ t.page = s.page /\ t.lists = s.lists
             /\ t.nframes = s.nframes /\ t.last = s.last /\ t.disk = s.disk
             /\ t.cap = s.cap /\ t.data = s.data /\ t.swap = s.swap
<1> DEFINE F == [s.frame EXCEPT ![f] = r]
<1>1. s.frame \in [FrameId -> FrameRecord]
  BY DEF VmRecord
<1>2. /\ F \in [FrameId -> FrameRecord]
      /\ \A g \in FrameId : F[g] = IF g = f THEN r ELSE s.frame[g]
  BY <1>1
<1>3. [s EXCEPT !.frame[f] = r] = [s EXCEPT !.frame = F]
  OBVIOUS
<1> HIDE DEF F
<1> DEFINE t == [s EXCEPT !.frame = F]
<1>4. /\ t \in VmRecord /\ t.frame = F
      /\ t.page = s.page /\ t.lists = s.lists
      /\ t.nframes = s.nframes /\ t.last = s.last /\ t.disk = s.disk
      /\ t.cap = s.cap /\ t.data = s.data /\ t.swap = s.swap
  BY <1>2, ChangeFrame
<1>5. [s EXCEPT !.frame[f] = r] = t
  BY <1>3
<1> HIDE DEF t
<1> QED BY <1>2, <1>4, <1>5

LEMMA ChangeSwap ==
  ASSUME NEW s \in VmRecord, NEW b \in 0..(DISK_START - 1), NEW x \in Content
  PROVE  LET t == [s EXCEPT !.swap[b] = x]
         IN  /\ t \in VmRecord
             /\ t.page = s.page /\ t.lists = s.lists /\ t.frame = s.frame
             /\ t.nframes = s.nframes /\ t.last = s.last /\ t.disk = s.disk
             /\ t.cap = s.cap /\ t.data = s.data
             /\ t.swap = [s.swap EXCEPT ![b] = x]
<1> DEFINE W == [s.swap EXCEPT ![b] = x]
<1>1. s.swap \in [0..(DISK_START - 1) -> Content]
  BY DEF VmRecord
<1>2. W \in [0..(DISK_START - 1) -> Content]
  BY <1>1
<1>3. [s EXCEPT !.swap[b] = x] = [s EXCEPT !.swap = W]
  OBVIOUS
<1> HIDE DEF W
<1>4. [s EXCEPT !.swap = W] =
        [page |-> s.page, lists |-> s.lists, frame |-> s.frame,
         nframes |-> s.nframes, last |-> s.last, disk |-> s.disk,
         cap |-> s.cap, data |-> s.data, swap |-> W]
  BY DEF VmRecord
<1>5. [s EXCEPT !.swap = W] \in VmRecord
  BY <1>2, <1>4 DEF VmRecord
<1> QED BY <1>3, <1>4, <1>5 DEF W

LEMMA ChangeDisk ==
  ASSUME NEW s \in VmRecord, NEW d \in Table
  PROVE  LET t == [s EXCEPT !.disk = d]
         IN  /\ t \in VmRecord /\ t.disk = d
             /\ t.page = s.page /\ t.lists = s.lists /\ t.frame = s.frame
             /\ t.nframes = s.nframes /\ t.last = s.last
             /\ t.cap = s.cap /\ t.data = s.data /\ t.swap = s.swap
BY DEF VmRecord

-----------------------------------------------------------------------------
(* The clock *)

LEMMA RestOf ==
  ASSUME NEW b \in Nat, b > 0, NEW q \in Nat, NEW r \in 0..(b - 1)
  PROVE  (b * q + r) % b = r
<1> DEFINE a == b * q + r
<1>1. b * q \in Nat
  OBVIOUS
<1>2. a \in Nat
  BY <1>1
<1> HIDE DEF a
<1>3. /\ a \div b \in Nat /\ a % b \in 0..(b - 1)
      /\ a = b * (a \div b) + (a % b)
  BY <1>2, QuotientAndRest
<1> DEFINE d == a \div b
           x == a % b
<1>4. b * q + r = b * d + x
  BY <1>3 DEF a
<1>5. d \in Int /\ x \in 0..(b - 1) /\ q \in Int
  BY <1>3
<1> HIDE DEF d, x
<1>6. r = x
  BY <1>4, <1>5, RestIsUnique
<1> QED BY <1>6 DEF x, a

\* In its second turn the hand comes by every frame in use.
LEMMA HandComesBy ==
  ASSUME NEW s \in VmRecord, ~ HasFresh(s), NEW f \in FrameId
  PROVE  /\ s.nframes = FRAME_LIMIT
         /\ \E k \in (s.nframes + 1)..(2 * s.nframes) : Hand(s, k) = f
<1> DEFINE n == s.nframes
           h == s.last
<1>1. /\ n = FRAME_LIMIT /\ n \in Nat /\ n > 0
      /\ h \in 0..(n - 1) /\ f \in 1..n
  BY FrameAssumption DEF VmRecord, HasFresh, FrameId
<1>2. \A k : Hand(s, k) = ((h + k) % n) + 1
  BY DEF Hand
<1> HIDE DEF n, h
<1>3. CASE f - 1 > h
  <2>1. n * 1 + (f - 1) = h + (n + (f - 1 - h))
    BY <1>1
  <2>2. (n * 1 + (f - 1)) % n = f - 1
    BY <1>1, RestOf
  <2>3. Hand(s, n + (f - 1 - h)) = f
    BY <1>1, <1>2, <2>1, <2>2
  <2>4. n + (f - 1 - h) \in (n + 1)..(2 * n)
    BY <1>1, <1>3
  <2> QED BY <1>1, <2>3, <2>4 DEF n
<1>4. CASE f - 1 <= h
  <2>1. n * 2 + (f - 1) = h + (2 * n + (f - 1 - h))
    BY <1>1
  <2>2. ((h + (2 * n + (f - 1 - h))) % n) + 1 = f
    <3>1. (h + (2 * n + (f - 1 - h))) % n = f - 1
      BY <2>1, <1>1, RestOf
    <3> QED BY <1>1, <3>1
  <2>3. Hand(s, 2 * n + (f - 1 - h)) = f
    BY <1>2, <2>2
  <2>4. 2 * n + (f - 1 - h) \in (n + 1)..(2 * n)
    BY <1>1, <1>4
  <2> QED BY <1>1, <2>3, <2>4 DEF n
<1> QED BY <1>1, <1>3, <1>4

\* The round in which __requestFrame stops.
Stop(s) == Min({k \in Rounds(s) : Takes(s, k)})

\* The search for a victim ends with one that is not pinned.
LEMMA SweepStops ==
  ASSUME NEW s \in VmRecord, ~ HasFresh(s), CanServe(s)
  PROVE  /\ Stop(s) \in Rounds(s) /\ Takes(s, Stop(s))
         /\ \A k \in Rounds(s) : Takes(s, k) => Stop(s) <= k
         /\ Stop(s) \in Nat /\ Stop(s) > 0
         /\ Hand(s, Stop(s)) \in FrameId
         /\ Hand(s, Stop(s)) = ((s.last + Stop(s)) % s.nframes) + 1
<1> DEFINE S == {k \in Rounds(s) : Takes(s, k)}
<1>1. PICK f \in 1..s.nframes : ~ s.frame[f].pin
  BY DEF CanServe
<1>2. /\ s.nframes = FRAME_LIMIT /\ s.nframes \in Nat /\ s.nframes > 0
      /\ s.last \in Nat /\ f \in FrameId
  BY <1>1, FrameAssumption DEF VmRecord, HasFresh, FrameId
<1>3. PICK k \in (s.nframes + 1)..(2 * s.nframes) : Hand(s, k) = f
  BY <1>2, HandComesBy
<1>4. k \in S
  BY <1>1, <1>2, <1>3 DEF Rounds, Takes
<1>5. S \subseteq Nat /\ S # {}
  BY <1>2, <1>4 DEF Rounds
<1>6. Stop(s) \in S /\ \A i \in S : Stop(s) <= i
  <2>1. Min(S) \in S /\ \A i \in S : Min(S) <= i
    <3> HIDE DEF S
    <3> QED BY <1>5, MinOfNats
  <2> QED BY <2>1 DEF Stop
<1>7. /\ Stop(s) \in Rounds(s) /\ Takes(s, Stop(s))
      /\ \A i \in Rounds(s) : Takes(s, i) => Stop(s) <= i
  BY <1>6
<1>8. Stop(s) \in Nat /\ Stop(s) > 0
  BY <1>2, <1>7 DEF Rounds
<1>9. s.last + Stop(s) \in Nat
  BY <1>2, <1>8
<1>10. (s.last + Stop(s)) % s.nframes \in 0..(s.nframes - 1)
  BY <1>2, <1>9, QuotientAndRest
<1> QED BY <1>2, <1>7, <1>8, <1>10 DEF Hand, FrameId

\* The frames the hand passes, and what becomes of their records.
Passed(s) == {Hand(s, k) : k \in 1..(Stop(s) - 1)}
SweptRecord(s, f) == IF f \in Passed(s) /\ ~ s.frame[f].pin
                     THEN [s.frame[f] EXCEPT !.considered = TRUE]
                     ELSE s.frame[f]

\* The hand moves to the victim; of the frames only `considered` changes.
LEMMA SweepFields ==
  ASSUME NEW s \in VmRecord, ~ HasFresh(s), CanServe(s)
  PROVE  LET t == Sweep(s)
         IN  /\ t \in VmRecord
             /\ t.page = s.page /\ t.lists = s.lists
             /\ t.nframes = s.nframes /\ t.disk = s.disk
             /\ t.cap = s.cap /\ t.data = s.data /\ t.swap = s.swap
             /\ Victim(t) = Hand(s, Stop(s)) /\ t.last = Hand(s, Stop(s)) - 1
             /\ \A f \in FrameId :
                  /\ t.frame[f].virtual_id = s.frame[f].virtual_id
                  /\ t.frame[f].disk_id = s.frame[f].disk_id
                  /\ t.frame[f].pin = s.frame[f].pin
                  /\ t.frame[f].dirty = s.frame[f].dirty
                  /\ s.frame[f].considered => t.frame[f].considered
                  /\ f \in Passed(s) /\ ~ s.frame[f].pin => t.frame[f].considered
                  /\ t.frame[f].considered /\ ~ s.frame[f].considered => f \in Passed(s)
<1> DEFINE stop == Stop(s)
           L == (s.last + stop) % s.nframes
           F == [f \in FrameId |-> SweptRecord(s, f)]
<1>1. s.frame \in [FrameId -> FrameRecord]
  BY DEF VmRecord
<1>2. ASSUME NEW f \in FrameId
      PROVE  /\ SweptRecord(s, f) \in FrameRecord
             /\ SweptRecord(s, f).virtual_id = s.frame[f].virtual_id
             /\ SweptRecord(s, f).disk_id = s.frame[f].disk_id
             /\ SweptRecord(s, f).pin = s.frame[f].pin
             /\ SweptRecord(s, f).dirty = s.frame[f].dirty
  <2> DEFINE o == s.frame[f]
             r == SweptRecord(s, f)
  <2>1. o \in FrameRecord /\ (r = o \/ r = [o EXCEPT !.considered = TRUE])
    BY <1>1 DEF SweptRecord
  <2> HIDE DEF o, r
  <2>2. /\ r \in FrameRecord /\ r.virtual_id = o.virtual_id
        /\ r.disk_id = o.disk_id /\ r.pin = o.pin /\ r.dirty = o.dirty
    BY <2>1 DEF FrameRecord
  <2> QED BY <2>2 DEF o, r
<1>3. \A f \in FrameId : SweptRecord(s, f) \in FrameRecord
  BY <1>2
<1>4. L + 1 = Hand(s, stop) /\ L \in 0..(FRAME_LIMIT - 1)
  <2>1. s.nframes = FRAME_LIMIT /\ s.nframes \in Nat /\ s.nframes > 0
    BY FrameAssumption DEF VmRecord, HasFresh
  <2>2. s.last + stop \in Nat
    BY SweepStops, FrameAssumption DEF VmRecord
  <2>3. L \in 0..(s.nframes - 1)
    BY <2>1, <2>2, QuotientAndRest
  <2> QED BY <2>1, <2>3, SweepStops
<1>5. Sweep(s) = [s EXCEPT !.last = L, !.frame = F]
  BY DEF Sweep, Stop, SweptRecord, Passed
<1> HIDE DEF stop, L, F
<1>6. Sweep(s) =
        [page |-> s.page, lists |-> s.lists, frame |-> F,
         nframes |-> s.nframes, last |-> L, disk |-> s.disk,
         cap |-> s.cap, data |-> s.data, swap |-> s.swap]
  BY <1>5 DEF VmRecord
<1>7. Sweep(s) \in VmRecord
  <2>1. F \in [FrameId -> FrameRecord]
    BY <1>3 DEF F
  <2> QED BY <1>4, <1>6, <2>1 DEF VmRecord
<1>8. Victim(Sweep(s)) = Hand(s, Stop(s)) /\ Sweep(s).last = Hand(s, Stop(s)) - 1
  BY <1>4, <1>6 DEF Victim, stop
<1>9. ASSUME NEW f \in FrameId
       PROVE  Sweep(s).frame[f] = SweptRecord(s, f)
  BY <1>6 DEF F
<1>10. ASSUME NEW f \in FrameId
       PROVE  /\ s.frame[f].considered => SweptRecord(s, f).considered
              /\ f \in Passed(s) /\ ~ s.frame[f].pin
                   => SweptRecord(s, f).considered
              /\ SweptRecord(s, f).considered /\ ~ s.frame[f].considered
                   => f \in Passed(s)
  BY <1>1 DEF SweptRecord, FrameRecord
<1> HIDE DEF Passed
<1> QED BY <1>2, <1>6, <1>7, <1>8, <1>9, <1>10

\* Occupy__alloc keeps the disk table one.
LEMMA AllocTypes ==
  ASSUME NEW d \in Table, d.free \subseteq 1..d.size
  PROVE  /\ Alloc(d).oct \in Table
         /\ Alloc(d).oct.free \subseteq 1..Alloc(d).oct.size
         /\ Alloc(d).pos % DISK_START \in 0..(DISK_START - 1)
         /\ Alloc(d).oct.size = Searched(d).size
<1>1. CASE Alloc(d).pos # 0
  <2>1. Searched(d) \in Table /\ Searched(d).free \subseteq 1..Searched(d).size
    BY SearchedFields
  <2>2. Alloc(d).pos \in Nat
    BY <1>1, <2>1, AllocTakesFree DEF Table
  <2>3. Alloc(d).pos % DISK_START \in 0..(DISK_START - 1)
    BY <2>2, FrameAssumption, QuotientAndRest
  <2> DEFINE p == Alloc(d).pos
             u == Searched(d)
  <2>4. Alloc(d).oct = [free |-> u.free \ {p}, data |-> u.data,
                        occupied |-> u.occupied + 1, size |-> u.size,
                        tail |-> p]
    BY <1>1, AllocTakesFree
  <2> HIDE DEF p, u
  <2>5. u \in Table /\ u.free \subseteq 1..u.size /\ p \in Nat
    BY <2>1, <2>2 DEF p, u
  <2>6. /\ Alloc(d).oct \in Table /\ Alloc(d).oct.size = u.size
        /\ Alloc(d).oct.free \subseteq 1..Alloc(d).oct.size
    BY <2>4, <2>5 DEF Table
  <2> QED BY <2>3, <2>6 DEF u
<1>2. CASE Alloc(d).pos = 0
  <2> DEFINE rounds == {i \in 0..(Searched(d).size \div SLOT_SIZE - 1) :
                          FreeInWord(Searched(d), Probe(Searched(d), i)) # {}}
             pos == Min(FreeInWord(Searched(d), Probe(Searched(d), Min(rounds))))
  <2>1. Alloc(d) = IF rounds = {}
                   THEN [oct |-> Searched(d), pos |-> 0]
                   ELSE [oct |-> [Searched(d) EXCEPT !.free = @ \ {pos},
                                                     !.occupied = @ + 1,
                                                     !.tail = pos],
                         pos |-> pos]
    BY DEF Alloc, Searched
  <2>2. CASE rounds = {}
    <3>1. Alloc(d).oct = Searched(d)
      BY <2>1, <2>2
    <3>2. 0 % DISK_START \in 0..(DISK_START - 1)
      BY FrameAssumption, QuotientAndRest
    <3> QED BY <1>2, <3>1, <3>2, SearchedFields
  <2>3. CASE rounds # {}
    <3>1. Alloc(d).pos = pos
      BY <2>1, <2>3
    <3>2. rounds \subseteq Nat
      OBVIOUS
    <3>3. Min(rounds) \in rounds
      BY <2>3, <3>2, MinOfNats
    <3> DEFINE found == FreeInWord(Searched(d), Probe(Searched(d), Min(rounds)))
    <3>4. found # {} /\ found \subseteq Searched(d).free
      BY <3>3 DEF FreeInWord
    <3>5. /\ Searched(d).free \subseteq 1..Searched(d).size
          /\ Searched(d) \in Table
      BY SearchedFields
    <3>6. found \subseteq Nat /\ 0 \notin found
      <4> DEFINE u == Searched(d)
      <4> HIDE DEF found, u
      <4>1. found \subseteq u.free /\ u.free \subseteq 1..u.size
        BY <3>4, <3>5 DEF u
      <4>2. u.size \in Nat
        BY <3>5 DEF Table, u
      <4> QED BY <4>1, <4>2
    <3>7. pos \in found
      BY <3>4, <3>6, MinOfNats
    <3> HIDE DEF found, pos, rounds
    <3> QED BY <1>2, <3>1, <3>6, <3>7
  <2> QED BY <2>2, <2>3
<1> QED BY <1>1, <1>2

-----------------------------------------------------------------------------
(* Taking a frame from its pages *)

\* The pages that name a frame are those on the list of its owner.
LEMMA PagesOnFrame ==
  ASSUME NEW s, Sound(s), NEW f \in FrameId, NEW v \in PageId
  PROVE  LET owner == s.frame[f].virtual_id
         IN  /\ s.page[v].frame_id = f <=> v \in Peers(s, owner)
             /\ owner = NULL_SLOT => Peers(s, owner) = {}
<1> DEFINE owner == s.frame[f].virtual_id
<1>1. s \in VmRecord /\ ListsApart(s) /\ PagesPlaced(s) /\ FramesPlaced(s)
  BY DEF Sound
<1>2. ASSUME s.page[v].frame_id = f
      PROVE  v \in Peers(s, owner)
  <2>1. HasFrame(s.page[v])
    BY <1>2, FrameIds, FrameAssumption DEF HasFrame
  <2>2. v \in Live(s)
    <3>1. f # 0
      BY FrameIds
    <3> QED BY <1>1, <1>2, <3>1 DEF PagesPlaced, NewPage
  <2>3. owner \in Peers(s, v)
    BY <1>1, <1>2, <2>1, <2>2 DEF FramesPlaced, Resident, FrameOf
  <2> QED BY <1>1, <2>3, PeersSymmetric
<1>3. ASSUME v \in Peers(s, owner)
      PROVE  s.page[v].frame_id = f
  <2>1. owner \in Live(s) /\ owner # NULL_SLOT
    BY <1>1, <1>3, LivePages, PeersSymmetric
  <2>2. s.page[owner].frame_id = f
    BY <1>1, <2>1 DEF FramesPlaced
  <2> QED BY <1>1, <1>3, <2>1, <2>2 DEF PagesPlaced
<1>4. owner = NULL_SLOT => Peers(s, owner) = {}
  BY <1>1, LivePages, PeersOfNone
<1> QED BY <1>2, <1>3, <1>4

\* Where the pages of a frame go when it is taken from them: to a block, or
\* nowhere.
Elsewhere == {0} \cup (DISK_START..(2 * DISK_START - 1))

\* The records stay in agreement when a frame's pages get another place and
\* no writable mapping.
LEMMA VacatedIsSound ==
  ASSUME NEW s, Sound(s), NEW f \in FrameId, NEW id \in Elsewhere,
         NEW t \in VmRecord,
         t.disk.free \subseteq 1..t.disk.size,
         t.lists = s.lists, t.nframes = s.nframes,
         t.frame[f].virtual_id = NULL_SLOT,
         \A g \in FrameId \ {f} :
           /\ t.frame[g].virtual_id = s.frame[g].virtual_id
           /\ t.frame[g].dirty = s.frame[g].dirty,
         \A w \in PageId :
           IF s.page[w].frame_id = f
           THEN /\ t.page[w].frame_id = id
                /\ t.page[w].mapped <=> t.cap[w].to # 0
                /\ ~ t.cap[w].write
           ELSE t.page[w] = s.page[w] /\ t.cap[w] = s.cap[w]
  PROVE  Sound(t)
<1>1. s \in VmRecord /\ ListsApart(s) /\ PagesPlaced(s) /\ FramesPlaced(s)
      /\ CapsTracked(s)
  BY DEF Sound
<1>2. ListsApart(t) /\ Live(t) = Live(s) /\ \A v : Peers(t, v) = Peers(s, v)
  BY <1>1 DEF ListsApart, Live, Peers
<1>3. ~ (id > 0 /\ id < DISK_START) /\ id \notin FrameId
  BY FrameAssumption, FrameIds DEF Elsewhere
<1>4. /\ \A w \in PageId : Resident(t, w) =>
           /\ Resident(s, w) /\ s.page[w].frame_id # f
           /\ t.page[w] = s.page[w] /\ t.cap[w] = s.cap[w]
      /\ \A w \in PageId : Resident(s, w) /\ s.page[w].frame_id # f =>
           Resident(t, w)
  BY <1>3 DEF Resident, HasFrame
<1>5. PagesPlaced(t)
  <2>1. ASSUME NEW v \in PageId, HasFrame(t.page[v])
        PROVE  t.page[v].frame_id \in FrameId
    BY <1>1, <1>4, <2>1 DEF PagesPlaced, Resident
  <2>2. ASSUME NEW v \in PageId \ Live(s)
        PROVE  t.page[v] = NewPage /\ t.cap[v] = Unmapped
    <3>1. s.page[v] = NewPage /\ s.cap[v] = Unmapped
      BY <1>1 DEF PagesPlaced
    <3>2. s.page[v].frame_id # f
      BY <3>1, FrameIds DEF NewPage
    <3> QED BY <3>1, <3>2
  <2>3. ASSUME NEW v \in Live(s), NEW w \in Peers(s, v)
        PROVE  t.page[w].frame_id = t.page[v].frame_id
    <3>1. v \in PageId /\ w \in PageId
      BY <1>1, LivePages
    <3>2. s.page[w].frame_id = s.page[v].frame_id
      BY <1>1 DEF PagesPlaced
    <3> QED BY <3>1, <3>2
  <2> QED BY <1>2, <2>1, <2>2, <2>3 DEF PagesPlaced
<1>6. FramesPlaced(t)
  <2>1. ASSUME NEW v \in Live(s), Resident(t, v)
        PROVE  FrameOf(t, v).virtual_id \in Peers(s, v)
    <3>1. v \in PageId
      BY <1>1, LivePages
    <3>2. /\ Resident(s, v) /\ t.page[v] = s.page[v]
          /\ s.page[v].frame_id \in FrameId \ {f}
      BY <1>1, <1>4, <2>1, <3>1 DEF PagesPlaced, Resident
    <3> QED BY <1>1, <3>2 DEF FramesPlaced, FrameOf
  <2>2. ASSUME NEW g \in FrameId, NEW owner, owner = t.frame[g].virtual_id,
               owner # NULL_SLOT
        PROVE  /\ owner \in Live(s) /\ g <= s.nframes
               /\ t.page[owner].frame_id = g
    <3>1. g # f /\ owner = s.frame[g].virtual_id
      BY <2>2
    <3>2. owner \in Live(s) /\ g <= s.nframes /\ s.page[owner].frame_id = g
      BY <1>1, <2>2, <3>1 DEF FramesPlaced
    <3>3. owner \in PageId
      BY <1>1, <3>2, LivePages
    <3> QED BY <3>1, <3>2, <3>3
  <2> QED BY <1>2, <2>1, <2>2 DEF FramesPlaced
<1>7. CapsTracked(t)
  <2> SUFFICES ASSUME NEW v \in PageId
               PROVE  /\ t.page[v].mapped <=> t.cap[v].to # 0
                      /\ t.cap[v].write => /\ Resident(t, v)
                                           /\ t.cap[v].to = t.page[v].frame_id
                                           /\ FrameOf(t, v).dirty
    BY DEF CapsTracked
  <2>1. CASE s.page[v].frame_id = f
    BY <2>1
  <2>2. CASE s.page[v].frame_id # f
    <3>1. t.page[v] = s.page[v] /\ t.cap[v] = s.cap[v]
      BY <2>2
    <3>2. /\ s.page[v].mapped <=> s.cap[v].to # 0
          /\ s.cap[v].write => /\ Resident(s, v)
                               /\ s.cap[v].to = s.page[v].frame_id
                               /\ FrameOf(s, v).dirty
      BY <1>1 DEF CapsTracked
    <3>3. Resident(s, v) => /\ Resident(t, v) /\ s.page[v].frame_id \in FrameId
                            /\ FrameOf(t, v).dirty = FrameOf(s, v).dirty
      BY <1>1, <1>4, <2>2, <3>1 DEF PagesPlaced, Resident, FrameOf
    <3> QED BY <3>1, <3>2, <3>3
  <2> QED BY <2>1, <2>2
<1> QED BY <1>2, <1>5, <1>6, <1>7 DEF Sound

\* Swapping out: the pages of the frame are unmapped and point to the block.
LEMMA SwapOutFields ==
  ASSUME NEW s \in VmRecord, NEW f \in FrameId,
         NEW block \in 0..(DISK_START - 1)
  PROVE  LET t == SwapOut(s, f, block)
             owner == s.frame[f].virtual_id
         IN  /\ t \in VmRecord
             /\ t.lists = s.lists /\ t.frame = s.frame
             /\ t.nframes = s.nframes /\ t.last = s.last /\ t.disk = s.disk
             /\ t.data = s.data
             /\ t.swap = [s.swap EXCEPT ![block] = s.data[f]]
             /\ \A w \in PageId :
                  /\ w \notin Peers(s, owner) => /\ t.page[w] = s.page[w]
                                                 /\ t.cap[w] = s.cap[w]
                  /\ w \in Peers(s, owner) =>
                       /\ t.page[w].frame_id = block + DISK_START
                       /\ ~ t.page[w].mapped
                       /\ t.cap[w] = IF s.page[w].mapped THEN Unmapped
                                                         ELSE s.cap[w]
<1> DEFINE owner == s.frame[f].virtual_id
           u == UnmapPages(s, owner)
           p == PointPagesTo(u, owner, block + DISK_START)
<1>1. block + DISK_START \in 0..(2 * DISK_START - 1)
  BY FrameAssumption
<1>2. /\ u \in VmRecord
      /\ u.lists = s.lists /\ u.frame = s.frame
      /\ u.nframes = s.nframes /\ u.last = s.last /\ u.disk = s.disk
      /\ u.data = s.data /\ u.swap = s.swap
      /\ \A w \in PageId :
           /\ u.page[w].frame_id = s.page[w].frame_id
           /\ w \notin Peers(s, owner) => /\ u.page[w] = s.page[w]
                                          /\ u.cap[w] = s.cap[w]
           /\ w \in Peers(s, owner) =>
                /\ ~ u.page[w].mapped
                /\ u.cap[w] = IF s.page[w].mapped THEN Unmapped ELSE s.cap[w]
  BY UnmapPagesFields
<1> HIDE DEF owner, u
<1>3. /\ p \in VmRecord
      /\ p.lists = u.lists /\ p.frame = u.frame
      /\ p.nframes = u.nframes /\ p.last = u.last /\ p.disk = u.disk
      /\ p.cap = u.cap /\ p.data = u.data /\ p.swap = u.swap
      /\ \A w \in PageId :
           /\ p.page[w].mapped = u.page[w].mapped
           /\ p.page[w].frame_id = IF w \in Peers(u, owner)
                                   THEN block + DISK_START
                                   ELSE u.page[w].frame_id
           /\ w \notin Peers(u, owner) => p.page[w] = u.page[w]
  BY <1>1, <1>2, PointPagesToFields
<1>4. Peers(u, owner) = Peers(s, owner)
  BY <1>2 DEF Peers
<1>5. s.data[f] \in Content
  BY DEF VmRecord
<1>6. SwapOut(s, f, block) = [p EXCEPT !.swap[block] = s.data[f]]
  BY DEF SwapOut, owner, u
<1> HIDE DEF p
<1> DEFINE t == [p EXCEPT !.swap[block] = s.data[f]]
<1>7. /\ t \in VmRecord
      /\ t.page = p.page /\ t.lists = p.lists /\ t.frame = p.frame
      /\ t.nframes = p.nframes /\ t.last = p.last /\ t.disk = p.disk
      /\ t.cap = p.cap /\ t.data = p.data
      /\ t.swap = [p.swap EXCEPT ![block] = s.data[f]]
  BY <1>3, <1>5, ChangeSwap
<1>8. SwapOut(s, f, block) = t
  BY <1>6
<1> HIDE DEF t
<1>9. \A w \in PageId :
           /\ w \notin Peers(s, owner) => /\ t.page[w] = s.page[w]
                                          /\ t.cap[w] = s.cap[w]
           /\ w \in Peers(s, owner) =>
                /\ t.page[w].frame_id = block + DISK_START
                /\ ~ t.page[w].mapped
                /\ t.cap[w] = IF s.page[w].mapped THEN Unmapped ELSE s.cap[w]
  BY <1>2, <1>3, <1>4, <1>7
<1>10. /\ t.lists = s.lists /\ t.frame = s.frame
       /\ t.nframes = s.nframes /\ t.last = s.last /\ t.disk = s.disk
       /\ t.data = s.data
       /\ t.swap = [s.swap EXCEPT ![block] = s.data[f]]
  BY <1>2, <1>3, <1>7
<1> QED BY <1>7, <1>8, <1>9, <1>10 DEF owner

\* The page cache t after the frame f of s was taken from its pages.
Vacated(s, t, f) ==
  /\ Sound(t)
  /\ t.lists = s.lists /\ t.nframes = s.nframes /\ t.last = s.last
  /\ t.data = s.data
  /\ t.frame[f].virtual_id = NULL_SLOT /\ ~ t.frame[f].considered
  /\ t.frame[f].disk_id = 0
  /\ \A g \in FrameId \ {f} : t.frame[g] = s.frame[g]
  /\ \A w \in PageId : IF s.page[w].frame_id = f
                       THEN t.page[w].frame_id \in Elsewhere
                       ELSE t.page[w] = s.page[w] /\ t.cap[w] = s.cap[w]

LEMMA NewFrameIsRecord ==
  /\ [NewFrame EXCEPT !.pin = TRUE] \in FrameRecord
  /\ [NewFrame EXCEPT !.pin = FALSE] \in FrameRecord
  /\ NewFrame \in FrameRecord
  /\ [NewFrame EXCEPT !.pin = TRUE].virtual_id = NULL_SLOT
  /\ [NewFrame EXCEPT !.pin = FALSE].virtual_id = NULL_SLOT
  /\ [NewFrame EXCEPT !.pin = TRUE].disk_id = 0
  /\ [NewFrame EXCEPT !.pin = FALSE].disk_id = 0
  /\ ~ [NewFrame EXCEPT !.pin = TRUE].considered
  /\ ~ [NewFrame EXCEPT !.pin = FALSE].considered
<1>1. 0 \in 0..(DISK_START - 1)
  BY FrameAssumption
<1> QED BY <1>1 DEF NewFrame, FrameRecord

\* The frame f of s was written to a swap block, to which its pages point in t.
SwappedTo(s, t, f, block) ==
  /\ Vacated(s, t, f) /\ t.swap = [s.swap EXCEPT ![block] = s.data[f]]
  /\ \A w \in PageId : s.page[w].frame_id = f
       => t.page[w].frame_id = block + DISK_START

\* A frame that was written is swapped out; `d` is the table in which the
\* block was allocated.
LEMMA SwappedOut ==
  ASSUME NEW s, Sound(s), NEW f \in FrameId, NEW block \in 0..(DISK_START - 1),
         NEW d \in Table, d.free \subseteq 1..d.size
  PROVE  LET t == ResetFrame(SwapOut([s EXCEPT !.disk = d], f, block), f, TRUE)
         IN  SwappedTo(s, t, f, block) /\ t.disk = d
<1> DEFINE u == [s EXCEPT !.disk = d]
           p == SwapOut(u, f, block)
           t == ResetFrame(p, f, TRUE)
           owner == s.frame[f].virtual_id
<1>1. s \in VmRecord /\ CapsTracked(s)
  BY DEF Sound
<1>2. /\ u \in VmRecord /\ u.disk = d
      /\ u.page = s.page /\ u.lists = s.lists /\ u.frame = s.frame
      /\ u.nframes = s.nframes /\ u.last = s.last
      /\ u.cap = s.cap /\ u.data = s.data /\ u.swap = s.swap
  BY <1>1, ChangeDisk
<1> HIDE DEF u
<1>3. u.frame[f].virtual_id = owner /\ Peers(u, owner) = Peers(s, owner)
  BY <1>2 DEF Peers
<1> HIDE DEF owner
<1>4. /\ p \in VmRecord
      /\ p.lists = u.lists /\ p.frame = u.frame
      /\ p.nframes = u.nframes /\ p.last = u.last /\ p.disk = u.disk
      /\ p.data = u.data /\ p.swap = [u.swap EXCEPT ![block] = u.data[f]]
      /\ \A w \in PageId :
           /\ w \notin Peers(s, owner) => /\ p.page[w] = u.page[w]
                                          /\ p.cap[w] = u.cap[w]
           /\ w \in Peers(s, owner) =>
                /\ p.page[w].frame_id = block + DISK_START
                /\ ~ p.page[w].mapped
                /\ p.cap[w] = IF u.page[w].mapped THEN Unmapped ELSE u.cap[w]
  <2> DEFINE o == u.frame[f].virtual_id
  <2>1. /\ p \in VmRecord
        /\ p.lists = u.lists /\ p.frame = u.frame
        /\ p.nframes = u.nframes /\ p.last = u.last /\ p.disk = u.disk
        /\ p.data = u.data /\ p.swap = [u.swap EXCEPT ![block] = u.data[f]]
        /\ \A w \in PageId :
             /\ w \notin Peers(u, o) => /\ p.page[w] = u.page[w]
                                        /\ p.cap[w] = u.cap[w]
             /\ w \in Peers(u, o) =>
                  /\ p.page[w].frame_id = block + DISK_START
                  /\ ~ p.page[w].mapped
                  /\ p.cap[w] = IF u.page[w].mapped THEN Unmapped ELSE u.cap[w]
    BY <1>2, SwapOutFields
  <2>2. Peers(u, o) = Peers(s, owner)
    BY <1>3
  <2> HIDE DEF o, p
  <2> QED BY <2>1, <2>2
<1> HIDE DEF p
<1> DEFINE fr == [NewFrame EXCEPT !.pin = TRUE]
<1>5. /\ fr \in FrameRecord /\ fr.virtual_id = NULL_SLOT /\ ~ fr.considered
      /\ fr.disk_id = 0
  BY NewFrameIsRecord
<1>6. t = [p EXCEPT !.frame[f] = fr]
  BY DEF ResetFrame
<1> HIDE DEF fr, t
<1>7. /\ t \in VmRecord
      /\ \A g \in FrameId : t.frame[g] = IF g = f THEN fr ELSE p.frame[g]
      /\ t.page = p.page /\ t.lists = p.lists
      /\ t.nframes = p.nframes /\ t.last = p.last /\ t.disk = p.disk
      /\ t.cap = p.cap /\ t.data = p.data /\ t.swap = p.swap
  BY <1>4, <1>5, <1>6, ChangeRecord
<1>8. ASSUME NEW w \in PageId
      PROVE  IF s.page[w].frame_id = f
             THEN /\ t.page[w].frame_id = block + DISK_START
                  /\ t.page[w].mapped <=> t.cap[w].to # 0
                  /\ ~ t.cap[w].write
             ELSE t.page[w] = s.page[w] /\ t.cap[w] = s.cap[w]
  <2>1. s.page[w].frame_id = f <=> w \in Peers(s, owner)
    BY PagesOnFrame DEF owner
  <2>2. CASE s.page[w].frame_id # f
    BY <1>2, <1>4, <1>7, <2>1, <2>2
  <2>3. CASE s.page[w].frame_id = f
    <3>1. /\ t.page[w].frame_id = block + DISK_START
          /\ ~ t.page[w].mapped
          /\ t.cap[w] = IF s.page[w].mapped THEN Unmapped ELSE s.cap[w]
      BY <1>2, <1>4, <1>7, <2>1, <2>3
    <3>2. /\ s.page[w].mapped <=> s.cap[w].to # 0
          /\ s.cap[w].write => s.cap[w].to = f
      BY <1>1, <2>3 DEF CapsTracked
    <3>3. f # 0
      BY FrameIds
    <3> QED BY <2>3, <3>1, <3>2, <3>3 DEF Unmapped
  <2> QED BY <2>2, <2>3
<1>9. block + DISK_START \in Elsewhere
  BY FrameAssumption DEF Elsewhere
<1>10. Sound(t)
  <2>1. t.lists = s.lists /\ t.nframes = s.nframes /\ t.disk = d
    BY <1>2, <1>4, <1>7
  <2>2. t.frame[f].virtual_id = NULL_SLOT
    BY <1>5, <1>7
  <2>3. \A g \in FrameId \ {f} :
           /\ t.frame[g].virtual_id = s.frame[g].virtual_id
           /\ t.frame[g].dirty = s.frame[g].dirty
    BY <1>2, <1>4, <1>7
  <2> HIDE DEF Elsewhere
  <2> QED BY <1>7, <1>8, <1>9, <2>1, <2>2, <2>3, VacatedIsSound
<1>11. Vacated(s, t, f)
  BY <1>2, <1>4, <1>5, <1>7, <1>8, <1>9, <1>10 DEF Vacated
<1>12. /\ t.disk = d /\ t.swap = [s.swap EXCEPT ![block] = s.data[f]]
       /\ \A w \in PageId : s.page[w].frame_id = f
            => t.page[w].frame_id = block + DISK_START
  BY <1>2, <1>4, <1>7, <1>8
<1>13. SwappedTo(s, t, f, block) /\ t.disk = d
  BY <1>11, <1>12 DEF SwappedTo
<1> QED BY <1>13 DEF t, p, u

\* A frame that was never written is dropped; nobody can write through a
\* mapping of it.
LEMMA Dropped ==
  ASSUME NEW s, Sound(s), NEW f \in FrameId, ~ s.frame[f].dirty
  PROVE  LET t == ResetFrame(Drop(s, f), f, FALSE)
         IN  /\ Vacated(s, t, f)
             /\ t.disk = s.disk /\ t.swap = s.swap
             /\ \A w \in PageId : s.page[w].frame_id = f
                  => t.page[w].frame_id = 0
<1> DEFINE owner == s.frame[f].virtual_id
           p == PointPagesTo(s, owner, 0)
           t == ResetFrame(p, f, FALSE)
           fr == [NewFrame EXCEPT !.pin = FALSE]
<1>1. s \in VmRecord /\ CapsTracked(s) /\ s.disk.free \subseteq 1..s.disk.size
  BY DEF Sound
<1>2. 0 \in 0..(2 * DISK_START - 1) /\ 0 \in Elsewhere
  BY FrameAssumption DEF Elsewhere
<1>3. /\ p \in VmRecord
      /\ p.lists = s.lists /\ p.frame = s.frame
      /\ p.nframes = s.nframes /\ p.last = s.last /\ p.disk = s.disk
      /\ p.cap = s.cap /\ p.data = s.data /\ p.swap = s.swap
      /\ \A w \in PageId :
           /\ p.page[w].mapped = s.page[w].mapped
           /\ p.page[w].frame_id = IF w \in Peers(s, owner) THEN 0
                                   ELSE s.page[w].frame_id
           /\ w \notin Peers(s, owner) => p.page[w] = s.page[w]
  BY <1>1, <1>2, PointPagesToFields
<1>4. \A w \in PageId : s.page[w].frame_id = f <=> w \in Peers(s, owner)
  BY PagesOnFrame
<1> HIDE DEF p, owner
<1>5. /\ fr \in FrameRecord /\ fr.virtual_id = NULL_SLOT /\ ~ fr.considered
      /\ fr.disk_id = 0
  BY NewFrameIsRecord
<1>6. t = [p EXCEPT !.frame[f] = fr]
  BY DEF ResetFrame
<1> HIDE DEF fr, t
<1>7. /\ t \in VmRecord
      /\ \A g \in FrameId : t.frame[g] = IF g = f THEN fr ELSE p.frame[g]
      /\ t.page = p.page /\ t.lists = p.lists
      /\ t.nframes = p.nframes /\ t.last = p.last /\ t.disk = p.disk
      /\ t.cap = p.cap /\ t.data = p.data /\ t.swap = p.swap
  BY <1>3, <1>5, <1>6, ChangeRecord
<1>8. ASSUME NEW w \in PageId
      PROVE  IF s.page[w].frame_id = f
             THEN /\ t.page[w].frame_id = 0
                  /\ t.page[w].mapped <=> t.cap[w].to # 0
                  /\ ~ t.cap[w].write
             ELSE t.page[w] = s.page[w] /\ t.cap[w] = s.cap[w]
  <2>1. CASE s.page[w].frame_id # f
    BY <1>3, <1>4, <1>7, <2>1
  <2>2. CASE s.page[w].frame_id = f
    <3>1. ~ s.cap[w].write
      BY <1>1, <2>2 DEF CapsTracked, FrameOf
    <3>2. s.page[w].mapped <=> s.cap[w].to # 0
      BY <1>1 DEF CapsTracked
    <3>3. /\ t.page[w].frame_id = 0 /\ t.page[w].mapped = s.page[w].mapped
          /\ t.cap[w] = s.cap[w]
      BY <1>3, <1>4, <1>7, <2>2
    <3> QED BY <2>2, <3>1, <3>2, <3>3
  <2> QED BY <2>1, <2>2
<1>9. /\ t.lists = s.lists /\ t.nframes = s.nframes /\ t.disk = s.disk
      /\ t.data = s.data /\ t.last = s.last /\ t.swap = s.swap
      /\ t.frame[f].virtual_id = NULL_SLOT /\ ~ t.frame[f].considered
      /\ t.frame[f].disk_id = 0
      /\ \A g \in FrameId \ {f} : t.frame[g] = s.frame[g]
  BY <1>3, <1>5, <1>7
<1>10. Sound(t)
  <2>1. \A g \in FrameId \ {f} :
           /\ t.frame[g].virtual_id = s.frame[g].virtual_id
           /\ t.frame[g].dirty = s.frame[g].dirty
    BY <1>9
  <2>2. t.disk.free \subseteq 1..t.disk.size
    BY <1>1, <1>9
  <2> QED BY <1>2, <1>7, <1>8, <1>9, <2>1, <2>2, VacatedIsSound
<1>11. Vacated(s, t, f)
  BY <1>2, <1>8, <1>9, <1>10 DEF Vacated
<1>12. \A w \in PageId : s.page[w].frame_id = f => t.page[w].frame_id = 0
  BY <1>8
<1> QED BY <1>9, <1>11, <1>12 DEF t, p, owner, Drop

\* Evict, by the record of the victim: one that was written and has no block
\* gets one, one that has is written there, and another is dropped.
LEMMA EvictVacates ==
  ASSUME NEW s, Sound(s), NEW f \in FrameId
  PROVE  LET t  == Evict(s, f)
             fr == s.frame[f]
             r  == Alloc(s.disk)
             block == IF fr.disk_id # 0 THEN fr.disk_id
                      ELSE IF fr.dirty THEN r.pos % DISK_START ELSE 0
         IN  /\ Vacated(s, t, f)
             /\ t.disk = IF fr.dirty /\ fr.disk_id = 0 THEN r.oct ELSE s.disk
             /\ fr.dirty \/ fr.disk_id # 0 => SwappedTo(s, t, f, block)
             /\ ~ fr.dirty /\ fr.disk_id = 0 =>
                  /\ t.swap = s.swap
                  /\ \A w \in PageId : s.page[w].frame_id = f
                       => t.page[w].frame_id = 0
<1> DEFINE fr == s.frame[f]
           r == Alloc(s.disk)
           block == r.pos % DISK_START
<1>1. /\ s \in VmRecord /\ s.disk \in Table
      /\ s.disk.free \subseteq 1..s.disk.size /\ fr \in FrameRecord
  BY DEF Sound, VmRecord
<1>2. /\ r.oct \in Table /\ r.oct.free \subseteq 1..r.oct.size
      /\ block \in 0..(DISK_START - 1)
  BY <1>1, AllocTypes
<1>3. CASE fr.dirty /\ fr.disk_id = 0
  <2> DEFINE t == ResetFrame(SwapOut([s EXCEPT !.disk = r.oct], f, block), f, TRUE)
  <2>1. Evict(s, f) = t
    BY <1>3 DEF Evict
  <2> HIDE DEF r, block
  <2>2. SwappedTo(s, t, f, block) /\ t.disk = r.oct
    BY <1>2, SwappedOut
  <2> HIDE DEF t
  <2> QED BY <1>3, <2>1, <2>2 DEF r, block, SwappedTo
<1>4. CASE fr.disk_id # 0
  <2>1. Evict(s, f) = ResetFrame(SwapOut(s, f, fr.disk_id), f, TRUE)
    BY <1>4 DEF Evict
  <2>2. s = [s EXCEPT !.disk = s.disk]
    BY <1>1 DEF VmRecord
  <2>3. fr.disk_id \in 0..(DISK_START - 1)
    BY <1>1 DEF FrameRecord
  <2> DEFINE u == ResetFrame(SwapOut([s EXCEPT !.disk = s.disk], f, fr.disk_id),
                             f, TRUE)
  <2>4. SwappedTo(s, u, f, fr.disk_id) /\ u.disk = s.disk
    <3> DEFINE d == s.disk
               b == fr.disk_id
    <3>1. d \in Table /\ d.free \subseteq 1..d.size /\ b \in 0..(DISK_START - 1)
      BY <1>1, <2>3
    <3>2. u = ResetFrame(SwapOut([s EXCEPT !.disk = d], f, b), f, TRUE)
      OBVIOUS
    <3> HIDE DEF d, b, u
    <3>3. SwappedTo(s, u, f, b) /\ u.disk = d
      BY <3>1, <3>2, SwappedOut
    <3> QED BY <3>3 DEF d, b
  <2>5. Evict(s, f) = u
    BY <2>1, <2>2
  <2> HIDE DEF u
  <2> QED BY <1>4, <2>4, <2>5 DEF SwappedTo
<1>5. CASE ~ fr.dirty /\ fr.disk_id = 0
  <2> DEFINE t == ResetFrame(Drop(s, f), f, FALSE)
  <2>1. Evict(s, f) = t
    BY <1>5 DEF Evict
  <2>2. /\ Vacated(s, t, f) /\ t.disk = s.disk /\ t.swap = s.swap
        /\ \A w \in PageId : s.page[w].frame_id = f => t.page[w].frame_id = 0
    BY <1>5, Dropped
  <2> HIDE DEF t
  <2> QED BY <1>5, <2>1, <2>2
<1> QED BY <1>3, <1>4, <1>5

-----------------------------------------------------------------------------
(* Requesting a frame *)

\* Pins, the marks of the clock, and frames newly in use disturb nothing.
LEMMA StaysSound ==
  ASSUME NEW s, Sound(s), NEW t \in VmRecord,
         t.disk.free \subseteq 1..t.disk.size,
         t.page = s.page, t.lists = s.lists, t.cap = s.cap,
         s.nframes <= t.nframes,
         \A g \in FrameId :
           /\ t.frame[g].virtual_id = s.frame[g].virtual_id
           /\ s.frame[g].virtual_id # NULL_SLOT /\ s.frame[g].dirty
                => t.frame[g].dirty
  PROVE  Sound(t)
<1>1. s \in VmRecord /\ ListsApart(s) /\ PagesPlaced(s) /\ FramesPlaced(s)
      /\ CapsTracked(s)
  BY DEF Sound
<1>2. /\ ListsApart(t) /\ Live(t) = Live(s) /\ \A v : Peers(t, v) = Peers(s, v)
      /\ \A v : Resident(t, v) <=> Resident(s, v)
  BY <1>1 DEF ListsApart, Live, Peers, Resident
<1>3. PagesPlaced(t)
  BY <1>1, <1>2 DEF PagesPlaced
<1>4. ASSUME NEW v \in PageId, Resident(s, v)
      PROVE  /\ s.page[v].frame_id \in FrameId
             /\ FrameOf(t, v).virtual_id = FrameOf(s, v).virtual_id
             /\ FrameOf(s, v).dirty => FrameOf(t, v).dirty
  <2>1. s.page[v].frame_id \in FrameId
    BY <1>1, <1>4 DEF PagesPlaced, Resident
  <2> DEFINE f == s.page[v].frame_id
  <2>2. v \in Peers(s, s.frame[f].virtual_id)
    BY <2>1, PagesOnFrame
  <2>3. s.frame[f].virtual_id # NULL_SLOT
    BY <1>1, <2>2, LivePages, PeersOfNone
  <2> QED BY <2>1, <2>3 DEF FrameOf
<1>5. FramesPlaced(t)
  <2>1. ASSUME NEW v \in Live(s), Resident(s, v)
        PROVE  FrameOf(t, v).virtual_id \in Peers(s, v)
    BY <1>1, <1>4, <2>1, LivePages DEF FramesPlaced
  <2>2. ASSUME NEW g \in FrameId, NEW owner, owner = t.frame[g].virtual_id,
               owner # NULL_SLOT
        PROVE  /\ owner \in Live(s) /\ g <= t.nframes
               /\ t.page[owner].frame_id = g
    <3>1. /\ owner \in Live(s) /\ g <= s.nframes /\ s.page[owner].frame_id = g
      BY <1>1, <2>2 DEF FramesPlaced
    <3>2. g <= t.nframes
      BY <1>1, <3>1, FrameIds, FrameAssumption DEF VmRecord
    <3> QED BY <3>1, <3>2
  <2> QED BY <1>2, <2>1, <2>2 DEF FramesPlaced
<1>6. CapsTracked(t)
  BY <1>1, <1>2, <1>4 DEF CapsTracked
<1> QED BY <1>2, <1>3, <1>5, <1>6 DEF Sound

\* The page cache t after frame f was requested from s: nothing is on f, and
\* if a page was, f was not pinned.
Freed(s, t, f) ==
  /\ Sound(t) /\ f \in FrameId /\ f <= t.nframes
  /\ t.lists = s.lists /\ t.data = s.data
  /\ t.frame[f].virtual_id = NULL_SLOT
  /\ s.frame[f].virtual_id # NULL_SLOT => ~ s.frame[f].pin
  /\ s.nframes <= t.nframes
  /\ \A g \in FrameId \ {f} :
       /\ t.frame[g].virtual_id = s.frame[g].virtual_id
       /\ t.frame[g].pin = s.frame[g].pin /\ t.frame[g].dirty = s.frame[g].dirty
       /\ g <= t.nframes => g <= s.nframes
  /\ \A w \in PageId : IF s.page[w].frame_id = f
                       THEN t.page[w].frame_id \in Elsewhere
                       ELSE t.page[w] = s.page[w] /\ t.cap[w] = s.cap[w]

LEMMA RequestFrameFrees ==
  ASSUME NEW s, Sound(s), CanServe(s)
  PROVE  Freed(s, RequestFrame(s).vm, RequestFrame(s).frame)
<1> DEFINE r == RequestFrame(s)
<1>1. s \in VmRecord /\ s.disk.free \subseteq 1..s.disk.size /\ FramesPlaced(s)
  BY DEF Sound
<1>2. CASE HasFresh(s)
  <2> DEFINE f == s.nframes + 1
             F == [s.frame EXCEPT ![f] = NewFrame]
             t == [s EXCEPT !.nframes = f, !.frame = F]
  <2>1. r.vm = t /\ r.frame = f
    BY <1>2 DEF RequestFrame
  <2>2. s.nframes \in Nat /\ f \in FrameId
    BY <1>1, <1>2, FrameAssumption DEF VmRecord, FrameId, HasFresh
  <2>3. s.frame \in [FrameId -> FrameRecord] /\ NewFrame \in FrameRecord
    BY <1>1, NewFrameIsRecord DEF VmRecord
  <2>4. /\ F \in [FrameId -> FrameRecord] /\ F[f] = NewFrame
        /\ \A g \in FrameId \ {f} : F[g] = s.frame[g]
    BY <2>2, <2>3
  <2>5. f \in 0..FRAME_LIMIT /\ ~ (f <= s.nframes)
    BY <2>2 DEF FrameId
  <2>6. s.frame[f].virtual_id = NULL_SLOT
    BY <1>1, <2>2, <2>5 DEF FramesPlaced
  <2> HIDE DEF F, f
  <2>8. /\ t \in VmRecord
        /\ t.page = s.page /\ t.lists = s.lists /\ t.frame = F /\ t.nframes = f
        /\ t.disk = s.disk /\ t.cap = s.cap /\ t.data = s.data
    <3>1. t = [page |-> s.page, lists |-> s.lists, frame |-> F,
               nframes |-> f, last |-> s.last, disk |-> s.disk,
               cap |-> s.cap, data |-> s.data, swap |-> s.swap]
      BY <1>1, ChangeInUse, Zenon
    <3> HIDE DEF t
    <3> QED BY <1>1, <2>4, <2>5, <3>1 DEF VmRecord
  <2> HIDE DEF t
  <2>10. NewFrame.virtual_id = NULL_SLOT
    BY DEF NewFrame
  <2>11. s.nframes <= t.nframes
    BY <2>2, <2>8 DEF f
  <2>12. \A g \in FrameId :
            /\ t.frame[g].virtual_id = s.frame[g].virtual_id
            /\ s.frame[g].virtual_id # NULL_SLOT /\ s.frame[g].dirty
                 => t.frame[g].dirty
    BY <2>4, <2>6, <2>8, <2>10
  <2>13. t.disk.free \subseteq 1..t.disk.size
    BY <1>1, <2>8
  <2>14. Sound(t)
    BY <2>8, <2>11, <2>12, <2>13, StaysSound
  <2>15. \A w \in PageId : s.page[w].frame_id # f
    BY <2>2, <2>6, PagesOnFrame DEF f
  <2>16. /\ f \in FrameId /\ f <= t.nframes
         /\ \A g \in FrameId \ {f} : g <= t.nframes => g <= s.nframes
    BY <2>2, <2>8, FrameIds DEF f
  <2>17. Freed(s, t, f)
    BY <2>4, <2>6, <2>8, <2>10, <2>11, <2>14, <2>15, <2>16 DEF Freed
  <2> QED BY <2>1, <2>17
<1>3. CASE ~ HasFresh(s)
  <2> DEFINE u == Sweep(s)
             f == Hand(s, Stop(s))
             t == Evict(u, f)
  <2>1. /\ u \in VmRecord
        /\ u.page = s.page /\ u.lists = s.lists
        /\ u.nframes = s.nframes /\ u.disk = s.disk
        /\ u.cap = s.cap /\ u.data = s.data
        /\ Victim(u) = f
        /\ \A g \in FrameId :
             /\ u.frame[g].virtual_id = s.frame[g].virtual_id
             /\ u.frame[g].pin = s.frame[g].pin
             /\ u.frame[g].dirty = s.frame[g].dirty
    BY <1>1, <1>3, SweepFields
  <2>2. f \in FrameId /\ ~ s.frame[f].pin
    BY <1>1, <1>3, SweepStops DEF Takes
  <2>3. r = [vm |-> Evict(u, Victim(u)), frame |-> Victim(u)]
    BY <1>3 DEF RequestFrame
  <2>4. r.vm = t /\ r.frame = f
    BY <2>1, <2>3
  <2> HIDE DEF u, f
  <2>5. Sound(u)
    <3>1. s.nframes <= u.nframes
      BY <1>1, <2>1, FrameAssumption DEF VmRecord
    <3>2. u.disk.free \subseteq 1..u.disk.size
      BY <1>1, <2>1
    <3> QED BY <2>1, <3>1, <3>2, StaysSound
  <2>6. Vacated(u, t, f)
    BY <2>2, <2>5, EvictVacates
  <2>7. f <= t.nframes /\ t.nframes = s.nframes /\ s.nframes \in Nat
    <3>1. t.nframes = FRAME_LIMIT /\ t.nframes = s.nframes
      BY <1>1, <1>3, <2>1, <2>6, FrameAssumption DEF Vacated, VmRecord, HasFresh
    <3> QED BY <2>2, <3>1, FrameAssumption DEF FrameId
  <2> HIDE DEF t
  <2>8. Freed(s, t, f)
    BY <2>1, <2>2, <2>6, <2>7 DEF Vacated, Freed
  <2> QED BY <2>4, <2>8
<1> QED BY <1>2, <1>3

-----------------------------------------------------------------------------
(* Bringing a page into a frame *)

LEMMA FillFrameFields ==
  ASSUME NEW s \in VmRecord, NEW f \in FrameId, NEW v \in PageId,
         NEW id \in 0..(2 * DISK_START - 1), NEW fresh \in Content
  PROVE  LET t == FillFrame(s, f, v, id, fresh)
         IN  /\ t \in VmRecord
             /\ t.page = s.page /\ t.lists = s.lists
             /\ t.nframes = s.nframes /\ t.last = s.last /\ t.disk = s.disk
             /\ t.cap = s.cap /\ t.swap = s.swap
             /\ t.frame[f].virtual_id = v
             /\ t.frame[f].pin = s.frame[f].pin
             /\ t.frame[f].dirty = s.frame[f].dirty
             /\ t.frame[f].considered = s.frame[f].considered
             /\ t.frame[f].disk_id = IF id > DISK_START THEN id - DISK_START
                                                        ELSE 0
             /\ t.data[f] = IF id > DISK_START THEN s.swap[id - DISK_START]
                                               ELSE fresh
             /\ \A g \in FrameId \ {f} : /\ t.frame[g] = s.frame[g]
                                         /\ t.data[g] = s.data[g]
<1> DEFINE block == IF id > DISK_START THEN id - DISK_START ELSE 0
           X == IF id > DISK_START THEN s.swap[id - DISK_START] ELSE fresh
           fr == [s.frame[f] EXCEPT !.virtual_id = v, !.disk_id = block]
           F == [s.frame EXCEPT ![f] = fr]
           D == [s.data EXCEPT ![f] = X]
           t == FillFrame(s, f, v, id, fresh)
<1>1. /\ s.frame \in [FrameId -> FrameRecord] /\ s.frame[f] \in FrameRecord
      /\ s.data \in [FrameId -> Content]
      /\ s.swap \in [0..(DISK_START - 1) -> Content]
  BY DEF VmRecord
<1>2. block \in 0..(DISK_START - 1)
  BY FrameAssumption
<1>3. X \in Content
  <2>1. CASE id > DISK_START
    <3>1. id - DISK_START \in 0..(DISK_START - 1)
      BY <2>1, FrameAssumption
    <3> QED BY <1>1, <2>1, <3>1
  <2>2. CASE ~ (id > DISK_START)
    BY <2>2
  <2> QED BY <2>1, <2>2
<1> HIDE DEF block, X
<1>4. /\ fr \in FrameRecord /\ fr.virtual_id = v
      /\ fr.pin = s.frame[f].pin /\ fr.dirty = s.frame[f].dirty
      /\ fr.considered = s.frame[f].considered /\ fr.disk_id = block
  <2> DEFINE o == s.frame[f]
  <2>1. o \in FrameRecord
    BY <1>1
  <2>2. fr = [o EXCEPT !.virtual_id = v, !.disk_id = block]
    OBVIOUS
  <2> HIDE DEF o, fr
  <2>3. fr = [virtual_id |-> v, disk_id |-> block, pin |-> o.pin,
              dirty |-> o.dirty, considered |-> o.considered]
    BY <2>1, <2>2 DEF FrameRecord
  <2>4. fr \in FrameRecord
    BY <1>2, <2>1, <2>3 DEF FrameRecord
  <2>5. /\ fr.virtual_id = v /\ fr.pin = o.pin /\ fr.dirty = o.dirty
        /\ fr.considered = o.considered /\ fr.disk_id = block
    BY <2>3
  <2> QED BY <2>4, <2>5 DEF o
<1>5. t = [s EXCEPT !.frame = F, !.data = D]
  BY DEF FillFrame, block, X
<1> HIDE DEF t, fr
<1>6. F \in [FrameId -> FrameRecord] /\ D \in [FrameId -> Content]
  BY <1>1, <1>3, <1>4
<1>7. /\ F[f] = fr /\ D[f] = X
      /\ \A g \in FrameId \ {f} : F[g] = s.frame[g] /\ D[g] = s.data[g]
  BY <1>1
<1> HIDE DEF F, D
<1>8. t = [page |-> s.page, lists |-> s.lists, frame |-> F,
           nframes |-> s.nframes, last |-> s.last, disk |-> s.disk,
           cap |-> s.cap, data |-> D, swap |-> s.swap]
  BY <1>5 DEF VmRecord
<1>9. t \in VmRecord
  BY <1>6, <1>8 DEF VmRecord
<1> QED BY <1>4, <1>7, <1>8, <1>9 DEF t, block, X

\* The records stay in agreement when the pages of a list that has no frame
\* are put on a frame that has no pages.
LEMMA SettledIsSound ==
  ASSUME NEW s, Sound(s), NEW f \in FrameId, f <= s.nframes,
         s.frame[f].virtual_id = NULL_SLOT,
         NEW v \in Live(s), ~ Resident(s, v),
         NEW t \in VmRecord,
         t.disk.free \subseteq 1..t.disk.size,
         t.lists = s.lists, t.nframes = s.nframes, t.cap = s.cap,
         \A w \in PageId :
           IF w \in Peers(s, v)
           THEN /\ t.page[w].frame_id = f
                /\ t.page[w].mapped = s.page[w].mapped
           ELSE t.page[w] = s.page[w],
         t.frame[f].virtual_id = v,
         \A g \in FrameId \ {f} : t.frame[g] = s.frame[g]
  PROVE  Sound(t) /\ Resident(t, v)
<1>1. s \in VmRecord /\ ListsApart(s) /\ PagesPlaced(s) /\ FramesPlaced(s)
      /\ CapsTracked(s)
  BY DEF Sound
<1>2. ListsApart(t) /\ Live(t) = Live(s) /\ \A w : Peers(t, w) = Peers(s, w)
  BY <1>1 DEF ListsApart, Live, Peers
<1>3. f > 0 /\ f < DISK_START
  BY FrameIds, FrameAssumption
<1>4. v \in PageId /\ v \in Peers(s, v) /\ v # NULL_SLOT
  BY <1>1, LivePages
<1>5. ASSUME NEW w \in PageId, Resident(s, w)
      PROVE  /\ w \notin Peers(s, v) /\ t.page[w] = s.page[w]
             /\ s.page[w].frame_id \in FrameId \ {f}
             /\ Resident(t, w) /\ FrameOf(t, w) = FrameOf(s, w)
  <2>1. w \notin Peers(s, v)
    BY <1>1, <1>5 DEF PagesPlaced, Resident, HasFrame
  <2>2. s.page[w].frame_id # f
    BY PagesOnFrame
  <2>3. s.page[w].frame_id \in FrameId
    BY <1>1, <1>5 DEF PagesPlaced, Resident
  <2> QED BY <1>5, <2>1, <2>2, <2>3 DEF Resident, FrameOf
<1>6. ASSUME NEW w \in PageId, w \in Peers(s, v)
      PROVE  Resident(t, w) /\ t.page[w].frame_id = f
  BY <1>3, <1>6 DEF Resident, HasFrame
<1>7. ASSUME NEW w \in PageId, w \notin Peers(s, v)
      PROVE  Resident(t, w) <=> Resident(s, w)
  BY <1>7 DEF Resident
<1>8. PagesPlaced(t)
  <2>1. ASSUME NEW w \in PageId, HasFrame(t.page[w])
        PROVE  t.page[w].frame_id \in FrameId
    BY <1>5, <1>6, <1>7, <2>1 DEF Resident
  <2>2. ASSUME NEW w \in PageId \ Live(s)
        PROVE  t.page[w] = NewPage /\ t.cap[w] = Unmapped
    BY <1>1, LivePages DEF PagesPlaced
  <2>3. ASSUME NEW u \in Live(s), NEW w \in Peers(s, u)
        PROVE  t.page[w].frame_id = t.page[u].frame_id
    <3>1. u \in PageId /\ w \in PageId
      BY <1>1, LivePages
    <3>2. s.page[w].frame_id = s.page[u].frame_id
      BY <1>1 DEF PagesPlaced
    <3>3. u \in Peers(s, v) <=> w \in Peers(s, v)
      BY <1>1, PeersSymmetric
    <3> QED BY <3>1, <3>2, <3>3
  <2> QED BY <1>2, <2>1, <2>2, <2>3 DEF PagesPlaced
<1>9. FramesPlaced(t)
  <2>1. ASSUME NEW w \in Live(s), Resident(t, w)
        PROVE  FrameOf(t, w).virtual_id \in Peers(s, w)
    <3>1. w \in PageId
      BY <1>1, LivePages
    <3>2. CASE w \in Peers(s, v)
      BY <1>1, <1>6, <3>1, <3>2, PeersSymmetric DEF FrameOf
    <3>3. CASE w \notin Peers(s, v)
      BY <1>1, <1>5, <1>7, <2>1, <3>1, <3>3 DEF FramesPlaced
    <3> QED BY <3>2, <3>3
  <2>2. ASSUME NEW g \in FrameId, NEW owner, owner = t.frame[g].virtual_id,
               owner # NULL_SLOT
        PROVE  /\ owner \in Live(s) /\ g <= s.nframes
               /\ t.page[owner].frame_id = g
    <3>1. CASE g = f
      BY <1>4, <1>6, <2>2, <3>1
    <3>2. CASE g # f
      <4>1. /\ owner \in Live(s) /\ g <= s.nframes
            /\ s.page[owner].frame_id = g
        BY <1>1, <2>2, <3>2 DEF FramesPlaced
      <4>2. owner \in PageId /\ Resident(s, owner)
        BY <1>1, <4>1, LivePages, FrameIds, FrameAssumption
           DEF Resident, HasFrame
      <4> QED BY <1>5, <4>1, <4>2
    <3> QED BY <3>1, <3>2
  <2> QED BY <1>2, <2>1, <2>2 DEF FramesPlaced
<1>10. CapsTracked(t)
  <2> SUFFICES ASSUME NEW w \in PageId
               PROVE  /\ t.page[w].mapped <=> t.cap[w].to # 0
                      /\ t.cap[w].write => /\ Resident(t, w)
                                           /\ t.cap[w].to = t.page[w].frame_id
                                           /\ FrameOf(t, w).dirty
    BY DEF CapsTracked
  <2>1. /\ s.page[w].mapped <=> s.cap[w].to # 0
        /\ s.cap[w].write => /\ Resident(s, w)
                             /\ s.cap[w].to = s.page[w].frame_id
                             /\ FrameOf(s, w).dirty
    BY <1>1 DEF CapsTracked
  <2>2. t.page[w].mapped = s.page[w].mapped
    OBVIOUS
  <2> QED BY <1>5, <2>1, <2>2
<1> QED BY <1>2, <1>4, <1>6, <1>8, <1>9, <1>10 DEF Sound

\* __requestPage writes back the record of v and unpins the frame.
WriteBack(s, v, p, f) == [s EXCEPT !.page[v] = p, !.frame[f].pin = FALSE]

LEMMA WriteBackFields ==
  ASSUME NEW s \in VmRecord, NEW v \in PageId, NEW p \in PageRecord,
         NEW f \in FrameId
  PROVE  LET t == WriteBack(s, v, p, f)
         IN  /\ t \in VmRecord
             /\ t.page[v] = p
             /\ \A w \in PageId \ {v} : t.page[w] = s.page[w]
             /\ t.frame[f].virtual_id = s.frame[f].virtual_id
             /\ t.frame[f].disk_id = s.frame[f].disk_id
             /\ ~ t.frame[f].pin
             /\ \A g \in FrameId \ {f} : t.frame[g] = s.frame[g]
             /\ t.lists = s.lists
             /\ t.nframes = s.nframes /\ t.last = s.last /\ t.disk = s.disk
             /\ t.cap = s.cap /\ t.data = s.data /\ t.swap = s.swap
<1> DEFINE fr == [s.frame[f] EXCEPT !.pin = FALSE]
           P == [s.page EXCEPT ![v] = p]
           F == [s.frame EXCEPT ![f] = fr]
           t == WriteBack(s, v, p, f)
<1>1. /\ s.page \in [PageId -> PageRecord] /\ s.frame \in [FrameId -> FrameRecord]
      /\ s.frame[f] \in FrameRecord
  BY DEF VmRecord
<1>2. /\ fr \in FrameRecord /\ fr.virtual_id = s.frame[f].virtual_id
      /\ fr.disk_id = s.frame[f].disk_id /\ ~ fr.pin
  <2> DEFINE o == s.frame[f]
  <2>1. o \in FrameRecord /\ fr = [o EXCEPT !.pin = FALSE]
    BY <1>1
  <2> HIDE DEF o, fr
  <2>2. /\ fr \in FrameRecord /\ fr.virtual_id = o.virtual_id /\ fr.pin = FALSE
        /\ fr.disk_id = o.disk_id
    BY <2>1 DEF FrameRecord
  <2> QED BY <2>2 DEF o
<1>3. t = [s EXCEPT !.page = P, !.frame = F]
  BY DEF WriteBack
<1> HIDE DEF t, fr
<1>4. /\ P \in [PageId -> PageRecord] /\ F \in [FrameId -> FrameRecord]
      /\ P[v] = p /\ \A w \in PageId \ {v} : P[w] = s.page[w]
      /\ F[f] = fr /\ \A g \in FrameId \ {f} : F[g] = s.frame[g]
  BY <1>1, <1>2
<1> HIDE DEF P, F
<1>5. t = [page |-> P, lists |-> s.lists, frame |-> F,
           nframes |-> s.nframes, last |-> s.last, disk |-> s.disk,
           cap |-> s.cap, data |-> s.data, swap |-> s.swap]
  BY <1>3 DEF VmRecord
<1>6. t \in VmRecord
  BY <1>4, <1>5 DEF VmRecord
<1> QED BY <1>2, <1>4, <1>5, <1>6 DEF t

\* The page cache t after the pages on v's list of s were put on frame f, which
\* was filled from their block, or with `fresh`.
Settled(s, t, f, v, fresh) ==
  LET id == s.page[v].frame_id
  IN  /\ t \in VmRecord /\ t.lists = s.lists /\ t.nframes = s.nframes
      /\ t.cap = s.cap /\ t.disk = s.disk /\ t.swap = s.swap
      /\ \A w \in PageId :
           IF w \in Peers(s, v)
           THEN /\ t.page[w].frame_id = f
                /\ t.page[w].mapped = s.page[w].mapped
           ELSE t.page[w] = s.page[w]
      /\ t.frame[f].virtual_id = v
      /\ t.frame[f].disk_id = IF id > DISK_START THEN id - DISK_START ELSE 0
      /\ t.data[f] = IF id > DISK_START THEN s.swap[id - DISK_START] ELSE fresh
      /\ \A g \in FrameId \ {f} : /\ t.frame[g] = s.frame[g]
                                  /\ t.data[g] = s.data[g]

\* The record of v that __requestPage read before it requested a frame is
\* still that of v after: v had no frame to lose.
LEMMA RequestPageSettles ==
  ASSUME NEW s, Sound(s), NEW v \in PageId, Servable(s, v), ~ Resident(s, v)
  PROVE  LET a == RequestFrame(s).vm
             f == RequestFrame(s).frame
             t == RequestPage(s, v)
         IN  /\ Freed(s, a, f)
             /\ v \in Live(a) /\ ~ Resident(a, v) /\ v \in Peers(a, v)
             /\ Settled(a, t, f, v, Zero) /\ ~ t.frame[f].pin
<1> DEFINE r == RequestFrame(s)
           a == r.vm
           f == r.frame
           id == s.page[v].frame_id
           b == FillFrame(a, f, v, id, Zero)
           p == [s.page[v] EXCEPT !.frame_id = f]
           c == WriteBack(b, v, p, f)
           t == PointPagesTo(c, v, f)
<1>1. /\ s \in VmRecord /\ v \in Live(s) /\ s.page[v] \in PageRecord
  BY DEF Sound, VmRecord, Servable
<1>2. RequestPage(s, v) = t
  BY DEF RequestPage, WriteBack
<1>3. Freed(s, a, f)
  BY RequestFrameFrees DEF Servable
<1>4. id \notin FrameId /\ id \in 0..(2 * DISK_START - 1)
  BY <1>1, FrameIds, FrameAssumption DEF Resident, HasFrame, PageRecord
<1> HIDE DEF a, f, r
<1>5. /\ Sound(a) /\ f \in FrameId /\ a.lists = s.lists
      /\ \A w \in PageId : s.page[w].frame_id # f => a.page[w] = s.page[w]
  BY <1>3 DEF Freed
<1>6. a \in VmRecord
  BY <1>5 DEF Sound
<1>7. a.page[v] = s.page[v] /\ ~ Resident(a, v) /\ v \in Live(a)
  BY <1>1, <1>4, <1>5 DEF Resident, Live
<1>8. Zero \in Content /\ id = a.page[v].frame_id
  BY <1>7 DEF Content
<1> HIDE DEF id
<1>9. /\ b \in VmRecord
      /\ b.page = a.page /\ b.lists = a.lists /\ b.nframes = a.nframes
      /\ b.disk = a.disk /\ b.cap = a.cap /\ b.swap = a.swap
      /\ b.frame[f].virtual_id = v
      /\ b.frame[f].disk_id = IF id > DISK_START THEN id - DISK_START ELSE 0
      /\ b.data[f] = IF id > DISK_START THEN a.swap[id - DISK_START] ELSE Zero
      /\ \A g \in FrameId \ {f} : /\ b.frame[g] = a.frame[g]
                                  /\ b.data[g] = a.data[g]
  BY <1>4, <1>5, <1>6, <1>8, FillFrameFields
<1> HIDE DEF b
<1>10. f \in 0..(2 * DISK_START - 1)
  BY <1>5, FrameIds, FrameAssumption
<1>11. p \in PageRecord /\ p.frame_id = f /\ p.mapped = s.page[v].mapped
  <2> DEFINE o == s.page[v]
  <2>1. o \in PageRecord /\ p = [o EXCEPT !.frame_id = f]
    BY <1>1
  <2> HIDE DEF o, p
  <2>2. p \in PageRecord /\ p.frame_id = f /\ p.mapped = o.mapped
    BY <1>10, <2>1 DEF PageRecord
  <2> QED BY <2>2 DEF o
<1> HIDE DEF p
<1>12. /\ c \in VmRecord /\ c.page[v] = p
       /\ \A w \in PageId \ {v} : c.page[w] = b.page[w]
       /\ c.frame[f].virtual_id = b.frame[f].virtual_id /\ ~ c.frame[f].pin
       /\ c.frame[f].disk_id = b.frame[f].disk_id
       /\ \A g \in FrameId \ {f} : c.frame[g] = b.frame[g]
       /\ c.lists = b.lists /\ c.nframes = b.nframes /\ c.disk = b.disk
       /\ c.cap = b.cap /\ c.data = b.data /\ c.swap = b.swap
  BY <1>5, <1>9, <1>11, WriteBackFields
<1> HIDE DEF c
<1>13. /\ t \in VmRecord
       /\ t.lists = c.lists /\ t.frame = c.frame
       /\ t.nframes = c.nframes /\ t.disk = c.disk /\ t.cap = c.cap
       /\ t.data = c.data /\ t.swap = c.swap
       /\ \A w \in PageId :
            /\ t.page[w].mapped = c.page[w].mapped
            /\ t.page[w].frame_id = IF w \in Peers(c, v) THEN f
                                    ELSE c.page[w].frame_id
            /\ w \notin Peers(c, v) => t.page[w] = c.page[w]
  BY <1>10, <1>12, PointPagesToFields
<1> HIDE DEF t
<1>14. Peers(c, v) = Peers(a, v) /\ v \in Peers(a, v)
  BY <1>6, <1>7, <1>9, <1>12, LivePages DEF Peers
<1>15. ASSUME NEW w \in PageId
       PROVE  IF w \in Peers(a, v)
              THEN /\ t.page[w].frame_id = f
                   /\ t.page[w].mapped = a.page[w].mapped
              ELSE t.page[w] = a.page[w]
  <2>1. CASE w = v
    BY <1>7, <1>11, <1>12, <1>13, <1>14, <2>1
  <2>2. CASE w # v
    BY <1>9, <1>12, <1>13, <1>14, <2>2
  <2> QED BY <2>1, <2>2
<1>16. /\ t.lists = a.lists /\ t.nframes = a.nframes /\ t.cap = a.cap
       /\ t.disk = a.disk /\ t.swap = a.swap
       /\ t.frame[f].virtual_id = v /\ ~ t.frame[f].pin
       /\ t.frame[f].disk_id = IF id > DISK_START THEN id - DISK_START ELSE 0
       /\ t.data[f] = IF id > DISK_START THEN a.swap[id - DISK_START] ELSE Zero
       /\ \A g \in FrameId \ {f} : /\ t.frame[g] = a.frame[g]
                                   /\ t.data[g] = a.data[g]
  BY <1>9, <1>12, <1>13
<1>17. Settled(a, t, f, v, Zero)
  BY <1>8, <1>13, <1>15, <1>16 DEF Settled
<1> QED BY <1>2, <1>3, <1>7, <1>14, <1>16, <1>17 DEF a, f, r

\* What the calls that need page v in a frame make of s: v is in one, pages in
\* pinned frames stay there, and no further frame is pinned.
Brought(s, t, v) ==
  /\ Sound(t) /\ t.lists = s.lists
  /\ Resident(t, v) /\ t.page[v].frame_id \in FrameId
  /\ \A w \in PageId : Resident(s, w) /\ FrameOf(s, w).pin =>
       t.page[w].frame_id = s.page[w].frame_id /\ FrameOf(t, w).pin
  /\ \A g \in FrameId : g <= t.nframes /\ t.frame[g].pin =>
       g <= s.nframes /\ s.frame[g].pin

\* __requestPage
LEMMA RequestPageBrings ==
  ASSUME NEW s, Sound(s), NEW v \in PageId, Servable(s, v)
  PROVE  Brought(s, RequestPage(s, v), v)
<1> DEFINE a == RequestFrame(s).vm
           f == RequestFrame(s).frame
           t == RequestPage(s, v)
<1>1. /\ s \in VmRecord /\ PagesPlaced(s) /\ v \in Live(s)
  BY DEF Sound, Servable
<1>2. CASE Resident(s, v)
  <2>1. t = s
    BY <1>2 DEF RequestPage
  <2>2. s.page[v].frame_id \in FrameId
    BY <1>1, <1>2 DEF PagesPlaced, Resident
  <2> QED BY <1>2, <2>1, <2>2 DEF Brought
<1>3. CASE ~ Resident(s, v)
  <2>1. /\ Freed(s, a, f)
        /\ v \in Live(a) /\ ~ Resident(a, v) /\ v \in Peers(a, v)
        /\ Settled(a, t, f, v, Zero) /\ ~ t.frame[f].pin
    BY <1>3, RequestPageSettles
  <2> HIDE DEF a, f, t
  <2>2. /\ Sound(a) /\ f \in FrameId /\ f <= a.nframes /\ a.lists = s.lists
        /\ a.frame[f].virtual_id = NULL_SLOT
        /\ s.frame[f].virtual_id # NULL_SLOT => ~ s.frame[f].pin
        /\ \A g \in FrameId \ {f} : g <= a.nframes => g <= s.nframes
        /\ \A w \in PageId : s.page[w].frame_id # f => a.page[w] = s.page[w]
    BY <2>1 DEF Freed
  <2>3. \A g \in FrameId \ {f} : a.frame[g].pin = s.frame[g].pin
    BY <2>1 DEF Freed
  <2>4. a.disk.free \subseteq 1..a.disk.size
    BY <2>2 DEF Sound
  <2>5. /\ t \in VmRecord /\ t.lists = a.lists /\ t.nframes = a.nframes
        /\ t.cap = a.cap /\ t.disk = a.disk
        /\ \A w \in PageId :
             IF w \in Peers(a, v)
             THEN /\ t.page[w].frame_id = f
                  /\ t.page[w].mapped = a.page[w].mapped
             ELSE t.page[w] = a.page[w]
        /\ t.frame[f].virtual_id = v
        /\ \A g \in FrameId \ {f} : t.frame[g] = a.frame[g]
    BY <2>1 DEF Settled
  <2>6. Sound(t) /\ Resident(t, v)
    <3>1. t.disk.free \subseteq 1..t.disk.size
      BY <2>4, <2>5
    <3> QED BY <2>1, <2>2, <2>5, <3>1, SettledIsSound
  <2>7. t.page[v].frame_id \in FrameId /\ t.lists = s.lists
    BY <2>1, <2>2, <2>5
  <2>8. ASSUME NEW w \in PageId, Resident(s, w), FrameOf(s, w).pin
         PROVE  t.page[w].frame_id = s.page[w].frame_id /\ FrameOf(t, w).pin
    <3> DEFINE g == s.page[w].frame_id
    <3>1. g \in FrameId
      BY <1>1, <2>8 DEF PagesPlaced, Resident
    <3>2. s.frame[g].virtual_id # NULL_SLOT
      BY <3>1, PagesOnFrame
    <3>3. g # f
      BY <2>2, <2>8, <3>2 DEF FrameOf
    <3>4. a.page[w] = s.page[w]
      BY <2>2, <3>3
    <3>5. Resident(a, w)
      BY <2>8, <3>4 DEF Resident
    <3>6. w \notin Peers(a, v)
      BY <2>1, <2>2, <3>5 DEF Sound, PagesPlaced, Resident, HasFrame
    <3>7. t.page[w] = s.page[w]
      BY <2>5, <3>4, <3>6
    <3>8. t.frame[g].pin = s.frame[g].pin
      BY <2>3, <2>5, <3>1, <3>3
    <3> QED BY <2>8, <3>7, <3>8 DEF FrameOf
  <2>9. ASSUME NEW g \in FrameId, g <= t.nframes, t.frame[g].pin
         PROVE  g <= s.nframes /\ s.frame[g].pin
    <3>1. g # f
      BY <2>1, <2>9
    <3>2. t.frame[g].pin = s.frame[g].pin
      BY <2>3, <2>5, <3>1
    <3>3. g <= s.nframes
      BY <2>2, <2>5, <2>9, <3>1
    <3> QED BY <2>9, <3>2, <3>3
  <2>10. Brought(s, t, v)
    BY <2>6, <2>7, <2>8, <2>9 DEF Brought
  <2> QED BY <2>10 DEF t
<1> QED BY <1>2, <1>3

-----------------------------------------------------------------------------
(* The clock and the frames that VirtualFrame__pinPageArr has queued *)

\* The round in which the hand first comes by frame g.
Dist(s, g) ==
  IF g - 1 > s.last THEN g - 1 - s.last ELSE s.nframes + (g - 1 - s.last)

\* Of the queued frames Q, the clock may take one that is not pinned; but it
\* would come by every other frame that is not pinned before: by one that was
\* not considered in the same turn, and by all if the queued one was.
ClockPasses(s, Q) ==
  \A f \in Q : ~ s.frame[f].pin =>
    /\ ~ HasFresh(s)
    /\ \A g \in FrameId \ Q : ~ s.frame[g].pin =>
         /\ s.frame[f].considered => /\ s.frame[g].considered
                                     /\ Dist(s, g) < Dist(s, f)
         /\ ~ s.frame[g].considered => Dist(s, g) < Dist(s, f)

LEMMA DistIsRound ==
  ASSUME NEW s \in VmRecord, ~ HasFresh(s), NEW g \in FrameId
  PROVE  /\ s.nframes = FRAME_LIMIT /\ s.nframes \in Nat
         /\ Dist(s, g) \in 1..s.nframes
         /\ Hand(s, Dist(s, g)) = g /\ Hand(s, s.nframes + Dist(s, g)) = g
         /\ \A k \in Rounds(s) : Hand(s, k) = g =>
              k = Dist(s, g) \/ k = s.nframes + Dist(s, g)
<1> DEFINE n == s.nframes
           h == s.last
           d == Dist(s, g)
<1>1. /\ n = FRAME_LIMIT /\ n \in Nat /\ n > 0
      /\ h \in 0..(n - 1) /\ g \in 1..n
  BY FrameAssumption DEF VmRecord, HasFresh, FrameId
<1>2. \A k : Hand(s, k) = ((h + k) % n) + 1
  BY DEF Hand
<1>3. d = IF g - 1 > h THEN g - 1 - h ELSE n + (g - 1 - h)
  BY DEF Dist
<1>4. \A k : k \in Rounds(s) <=> k \in 1..(2 * n)
  BY DEF Rounds
<1> HIDE DEF n, h, d
<1>5. d \in 1..n /\ d \in Nat
  BY <1>1, <1>3
<1>6. \E q \in {0, 1} : h + d = n * q + (g - 1)
  <2>1. CASE g - 1 > h
    BY <1>1, <1>3, <2>1
  <2>2. CASE ~ (g - 1 > h)
    BY <1>1, <1>3, <2>2
  <2> QED BY <2>1, <2>2
<1>7. Hand(s, d) = g /\ Hand(s, n + d) = g
  <2>1. PICK q \in {0, 1} : h + d = n * q + (g - 1)
    BY <1>6
  <2>2. (n * q + (g - 1)) % n = g - 1
    BY <1>1, RestOf
  <2>3. (n * (q + 1) + (g - 1)) % n = g - 1
    BY <1>1, RestOf
  <2>4. h + (n + d) = n * (q + 1) + (g - 1)
    <3>1. q = 0 \/ q = 1
      OBVIOUS
    <3> QED BY <1>1, <1>5, <2>1, <3>1
  <2> QED BY <1>1, <1>2, <2>1, <2>2, <2>3, <2>4
<1>8. ASSUME NEW k \in 1..(2 * n), Hand(s, k) = g
      PROVE  k = d \/ k = n + d
  <2> DEFINE a == h + k
             q == a \div n
  <2>1. a \in Nat /\ k \in Nat
    BY <1>1
  <2>2. a = n * q + (a % n) /\ q \in Nat
    <3> HIDE DEF a
    <3> QED BY <1>1, <2>1, QuotientAndRest
  <2>3. a % n = g - 1
    <3>1. a % n \in 0..(n - 1)
      <4> HIDE DEF a
      <4> QED BY <1>1, <2>1, QuotientAndRest
    <3>2. (a % n) + 1 = g
      BY <1>2, <1>8
    <3> QED BY <1>1, <3>1, <3>2
  <2> HIDE DEF q
  <2>4. h + k = n * q + (g - 1)
    BY <2>2, <2>3
  <2>5. q = 0 \/ q = 1 \/ q = 2
    <3>1. ASSUME q >= 3 PROVE FALSE
      <4>1. PICK e \in Nat : q = 3 + e
        <5>1. q - 3 \in Nat
          BY <2>2, <3>1
        <5> QED BY <2>2, <5>1
      <4>2. n * q = n * 3 + n * e /\ n * e >= 0
        BY <1>1, <4>1
      <4>3. n * q >= n + n + n /\ n * q \in Nat
        BY <1>1, <2>2, <4>1, <4>2
      <4> QED BY <1>1, <2>1, <2>4, <4>3
    <3> QED BY <2>2, <3>1
  <2>6. h + k = g - 1 \/ h + k = n + (g - 1) \/ h + k = n + n + (g - 1)
    BY <1>1, <2>4, <2>5
  <2> QED BY <1>1, <1>3, <2>1, <2>6
<1> QED BY <1>1, <1>4, <1>5, <1>7, <1>8 DEF n, d

\* How the clock stops, in distances.
LEMMA StopInRounds ==
  ASSUME NEW s \in VmRecord, ~ HasFresh(s), CanServe(s),
         NEW v, v = Hand(s, Stop(s))
  PROVE  /\ v \in FrameId /\ ~ s.frame[v].pin
         /\ \/ Stop(s) = Dist(s, v) /\ s.frame[v].considered
            \/ Stop(s) = s.nframes + Dist(s, v)
         /\ \A g \in FrameId : ~ s.frame[g].pin =>
              /\ s.frame[g].considered => Stop(s) <= Dist(s, g)
              /\ Stop(s) <= s.nframes + Dist(s, g)
         /\ \A g \in FrameId : g \in Passed(s) <=> Dist(s, g) < Stop(s)
<1> DEFINE n == s.nframes
<1>1. /\ Stop(s) \in Rounds(s) /\ Takes(s, Stop(s)) /\ Stop(s) \in Nat
      /\ \A k \in Rounds(s) : Takes(s, k) => Stop(s) <= k
      /\ v \in FrameId
  BY SweepStops
<1>2. \A g \in FrameId :
        /\ n \in Nat /\ Dist(s, g) \in 1..n
        /\ Hand(s, Dist(s, g)) = g /\ Hand(s, n + Dist(s, g)) = g
        /\ \A k \in Rounds(s) : Hand(s, k) = g =>
             k = Dist(s, g) \/ k = n + Dist(s, g)
  BY DistIsRound
<1>3. \A k : k \in Rounds(s) <=> k \in 1..(2 * n)
  BY DEF Rounds
<1>4. n \in Nat
  BY <1>1, <1>2
<1> HIDE DEF n
<1>5. ~ s.frame[v].pin /\ (s.frame[v].considered \/ Stop(s) > n)
  BY <1>1 DEF Takes, n
<1>6. Stop(s) = Dist(s, v) \/ Stop(s) = n + Dist(s, v)
  BY <1>1, <1>2
<1>7. Stop(s) = Dist(s, v) => s.frame[v].considered
  BY <1>1, <1>2, <1>4, <1>5
<1>8. ASSUME NEW g \in FrameId, ~ s.frame[g].pin
      PROVE  /\ s.frame[g].considered => Stop(s) <= Dist(s, g)
             /\ Stop(s) <= n + Dist(s, g)
  <2>1. Dist(s, g) \in 1..n /\ Dist(s, g) \in Rounds(s)
        /\ n + Dist(s, g) \in Rounds(s) /\ n + Dist(s, g) > n
    BY <1>2, <1>3, <1>4
  <2>2. Takes(s, n + Dist(s, g))
    BY <1>2, <1>8, <2>1 DEF Takes, n
  <2>3. s.frame[g].considered => Takes(s, Dist(s, g))
    BY <1>2, <1>8 DEF Takes
  <2> QED BY <1>1, <2>1, <2>2, <2>3
<1>9. ASSUME NEW g \in FrameId
      PROVE  g \in Passed(s) <=> Dist(s, g) < Stop(s)
  <2>1. Dist(s, g) \in 1..n
    BY <1>2
  <2>2. ASSUME Dist(s, g) < Stop(s)
        PROVE  g \in Passed(s)
    <3>1. Dist(s, g) \in 1..(Stop(s) - 1)
      BY <1>1, <1>4, <2>1, <2>2
    <3> QED BY <1>2, <3>1 DEF Passed
  <2>3. ASSUME g \in Passed(s)
        PROVE  Dist(s, g) < Stop(s)
    <3>1. PICK k \in 1..(Stop(s) - 1) : Hand(s, k) = g
      BY <2>3 DEF Passed
    <3>2. k \in Rounds(s)
      BY <1>1, <1>3, <1>4
    <3>3. k = Dist(s, g) \/ k = n + Dist(s, g)
      BY <1>2, <3>1, <3>2
    <3> QED BY <1>1, <1>4, <2>1, <3>3
  <2> QED BY <2>2, <2>3
<1> QED BY <1>1, <1>5, <1>6, <1>7, <1>8, <1>9 DEF n

\* A frame the driver still had is pinned; the rest stays.
LEMMA FreshFrame ==
  ASSUME NEW s \in VmRecord, HasFresh(s)
  PROVE  LET r == RequestFrame(s)
         IN  /\ r.frame = s.nframes + 1 /\ r.frame \in FrameId
             /\ r.vm.nframes = s.nframes + 1
             /\ r.vm.frame[r.frame] = NewFrame
             /\ \A g \in FrameId \ {r.frame} : r.vm.frame[g] = s.frame[g]
             /\ r.vm.page = s.page /\ r.vm.lists = s.lists
             /\ r.vm.disk = s.disk /\ r.vm.data = s.data
             /\ r.vm.swap = s.swap
<1> DEFINE f == s.nframes + 1
           F == [s.frame EXCEPT ![f] = NewFrame]
<1>1. /\ s.nframes \in Nat /\ f \in FrameId
      /\ s.frame \in [FrameId -> FrameRecord]
  BY FrameAssumption DEF VmRecord, FrameId, HasFresh
<1>2. RequestFrame(s) = [vm |-> [s EXCEPT !.nframes = f, !.frame = F], frame |-> f]
  BY DEF RequestFrame
<1>3. F[f] = NewFrame /\ \A g \in FrameId \ {f} : F[g] = s.frame[g]
  BY <1>1
<1> DEFINE t == [s EXCEPT !.nframes = f, !.frame = F]
<1> HIDE DEF F, f
<1>4. t = [page |-> s.page, lists |-> s.lists, frame |-> F,
           nframes |-> f, last |-> s.last, disk |-> s.disk,
           cap |-> s.cap, data |-> s.data, swap |-> s.swap]
  BY ChangeInUse, Zenon
<1>5. RequestFrame(s).vm = t /\ RequestFrame(s).frame = f
  BY <1>2
<1> HIDE DEF t
<1>6. /\ t.nframes = f /\ t.frame = F /\ t.page = s.page /\ t.lists = s.lists
      /\ t.disk = s.disk /\ t.data = s.data /\ t.swap = s.swap
  BY <1>4
<1> QED BY <1>1, <1>3, <1>5, <1>6 DEF f

\* A victim of the clock is where the hand is now; the other frames are as
\* the sweep left them.
LEMMA SweptFrame ==
  ASSUME NEW s, Sound(s), ~ HasFresh(s), CanServe(s)
  PROVE  LET t == RequestFrame(s).vm
             v == Hand(s, Stop(s))
         IN  /\ RequestFrame(s).frame = v
             /\ t.nframes = s.nframes /\ t.last = v - 1
             /\ ~ t.frame[v].considered
             /\ \A g \in FrameId \ {v} : t.frame[g] = Sweep(s).frame[g]
<1> DEFINE u == Sweep(s)
           v == Hand(s, Stop(s))
           t == Evict(u, v)
<1>1. s \in VmRecord /\ s.disk.free \subseteq 1..s.disk.size
  BY DEF Sound
<1>2. /\ u \in VmRecord
      /\ u.page = s.page /\ u.lists = s.lists
      /\ u.nframes = s.nframes /\ u.disk = s.disk /\ u.cap = s.cap
      /\ Victim(u) = v /\ u.last = v - 1
      /\ \A g \in FrameId :
           /\ u.frame[g].virtual_id = s.frame[g].virtual_id
           /\ u.frame[g].dirty = s.frame[g].dirty
  BY <1>1, SweepFields
<1>3. v \in FrameId
  BY <1>1, SweepStops
<1>4. RequestFrame(s) = [vm |-> Evict(u, Victim(u)), frame |-> Victim(u)]
  BY DEF RequestFrame
<1>5. RequestFrame(s).vm = t /\ RequestFrame(s).frame = v
  BY <1>2, <1>4
<1> HIDE DEF u, v
<1>6. Sound(u)
  <2>1. s.nframes <= u.nframes /\ u.disk.free \subseteq 1..u.disk.size
    BY <1>1, <1>2, FrameAssumption DEF VmRecord
  <2> QED BY <1>2, <2>1, StaysSound
<1>7. Vacated(u, t, v)
  BY <1>3, <1>6, EvictVacates
<1> HIDE DEF t
<1>8. /\ t.nframes = s.nframes /\ t.last = v - 1 /\ ~ t.frame[v].considered
      /\ \A g \in FrameId \ {v} : t.frame[g] = u.frame[g]
  BY <1>2, <1>7 DEF Vacated
<1> QED BY <1>5, <1>8 DEF u, v

\* While some frame is neither pinned nor queued, the clock takes no queued
\* one, and will not when the frame it took is queued too.
LEMMA RequestKeepsClock ==
  ASSUME NEW s, Sound(s), CanServe(s), NEW Q \in SUBSET FrameId,
         ClockPasses(s, Q), \A f \in Q : f <= s.nframes,
         HasFresh(s) \/ \E g \in FrameId \ Q : ~ s.frame[g].pin
  PROVE  LET r == RequestFrame(s)
         IN  r.frame \notin Q /\ ClockPasses(r.vm, Q \cup {r.frame})
<1> DEFINE r == RequestFrame(s)
           t == r.vm
           v == r.frame
<1>1. s \in VmRecord /\ s.nframes \in Nat /\ FrameId \subseteq Nat
  BY FrameAssumption, FrameIds DEF Sound, VmRecord
<1>2. CASE HasFresh(s)
  <2>1. /\ v = s.nframes + 1 /\ v \in FrameId /\ t.frame[v] = NewFrame
        /\ \A g \in FrameId \ {v} : t.frame[g] = s.frame[g]
    BY <1>1, <1>2, FreshFrame
  <2> HIDE DEF t, v
  <2>2. v \notin Q
    BY <1>1, <2>1
  <2>3. \A f \in Q \cup {v} : t.frame[f].pin
    <3>1. t.frame[v].pin
      BY <2>1 DEF NewFrame
    <3>2. ASSUME NEW f \in Q
          PROVE  t.frame[f].pin
      BY <1>2, <2>1, <2>2 DEF ClockPasses
    <3> QED BY <3>1, <3>2
  <2>4. ClockPasses(t, Q \cup {v})
    BY <2>3 DEF ClockPasses
  <2> QED BY <2>2, <2>4 DEF t, v
<1>3. CASE ~ HasFresh(s)
  <2> DEFINE n == s.nframes
  <2>1. /\ v = Hand(s, Stop(s)) /\ t.nframes = n /\ t.last = v - 1
        /\ ~ t.frame[v].considered
        /\ \A g \in FrameId \ {v} : t.frame[g] = Sweep(s).frame[g]
    BY <1>3, SweptFrame
  <2> HIDE DEF t, v
  <2>2. /\ v \in FrameId /\ ~ s.frame[v].pin
        /\ \/ Stop(s) = Dist(s, v) /\ s.frame[v].considered
           \/ Stop(s) = n + Dist(s, v)
        /\ \A g \in FrameId : ~ s.frame[g].pin =>
             /\ s.frame[g].considered => Stop(s) <= Dist(s, g)
             /\ Stop(s) <= n + Dist(s, g)
        /\ \A g \in FrameId : g \in Passed(s) <=> Dist(s, g) < Stop(s)
    BY <1>1, <1>3, <2>1, StopInRounds
  <2>3. /\ n \in Nat /\ n = FRAME_LIMIT
        /\ \A g \in FrameId : Dist(s, g) \in 1..n
    BY <1>1, <1>3, DistIsRound
  <2>4. Stop(s) \in Nat
    BY <1>1, <1>3, SweepStops
  <2> HIDE DEF n
  <2>5. v \notin Q
    <3> SUFFICES ASSUME v \in Q PROVE FALSE
      OBVIOUS
    <3>1. PICK g \in FrameId \ Q : ~ s.frame[g].pin
      BY <1>3
    <3>2. /\ s.frame[v].considered => /\ s.frame[g].considered
                                      /\ Dist(s, g) < Dist(s, v)
          /\ ~ s.frame[g].considered => Dist(s, g) < Dist(s, v)
      BY <2>2, <3>1 DEF ClockPasses
    <3>3. /\ s.frame[g].considered => Stop(s) <= Dist(s, g)
          /\ Stop(s) <= n + Dist(s, g)
      BY <2>2, <3>1
    <3>4. Dist(s, g) \in 1..n /\ Dist(s, v) \in 1..n
      BY <2>2, <2>3
    <3> QED BY <2>2, <2>3, <2>4, <3>2, <3>3, <3>4
  <2>6. \A g \in FrameId \ {v} : t.frame[g].pin = s.frame[g].pin
    BY <1>1, <1>3, <2>1, SweepFields
  <2>7. \A g \in FrameId \ {v} :
          /\ s.frame[g].considered => t.frame[g].considered
          /\ g \in Passed(s) /\ ~ s.frame[g].pin => t.frame[g].considered
          /\ t.frame[g].considered /\ ~ s.frame[g].considered => g \in Passed(s)
    BY <1>1, <1>3, <2>1, SweepFields
  <2>8. ~ HasFresh(t)
    BY <1>3, <2>1 DEF HasFresh, n
  <2>9. /\ Dist(t, v) = n
        /\ \A g \in FrameId \ {v} :
             /\ Dist(t, g) \in 1..(n - 1)
             /\ Dist(t, g) = IF Dist(s, g) > Dist(s, v)
                             THEN Dist(s, g) - Dist(s, v)
                             ELSE n + (Dist(s, g) - Dist(s, v))
    <3>1. s.last \in 0..(n - 1)
      BY <1>1, <2>3 DEF VmRecord
    <3>2. v \in 1..n /\ FrameId = 1..n
      BY <2>2, <2>3 DEF FrameId
    <3>3. \A g : /\ Dist(t, g) = IF g - 1 > v - 1 THEN g - 1 - (v - 1)
                                 ELSE n + (g - 1 - (v - 1))
                 /\ Dist(s, g) = IF g - 1 > s.last THEN g - 1 - s.last
                                 ELSE n + (g - 1 - s.last)
      BY <2>1 DEF Dist, n
    <3>4. Dist(t, v) = n
      BY <2>3, <3>2, <3>3
    <3>5. ASSUME NEW g \in 1..n, g # v
          PROVE  /\ Dist(t, g) \in 1..(n - 1)
                 /\ Dist(t, g) = IF Dist(s, g) > Dist(s, v)
                                 THEN Dist(s, g) - Dist(s, v)
                                 ELSE n + (Dist(s, g) - Dist(s, v))
      <4>1. /\ Dist(t, g) = IF g - 1 > v - 1 THEN g - 1 - (v - 1)
                            ELSE n + (g - 1 - (v - 1))
            /\ Dist(s, g) = IF g - 1 > s.last THEN g - 1 - s.last
                            ELSE n + (g - 1 - s.last)
            /\ Dist(s, v) = IF v - 1 > s.last THEN v - 1 - s.last
                            ELSE n + (v - 1 - s.last)
        BY <3>3
      <4> DEFINE a == Dist(t, g)
                 b == Dist(s, g)
                 c == Dist(s, v)
                 h == s.last
      <4>2. /\ n \in Nat /\ h \in 0..(n - 1) /\ g \in 1..n /\ v \in 1..n /\ g # v
            /\ a = IF g - 1 > v - 1 THEN g - 1 - (v - 1)
                   ELSE n + (g - 1 - (v - 1))
            /\ b = IF g - 1 > h THEN g - 1 - h ELSE n + (g - 1 - h)
            /\ c = IF v - 1 > h THEN v - 1 - h ELSE n + (v - 1 - h)
        BY <2>3, <3>1, <3>2, <3>5, <4>1
      <4> HIDE DEF a, b, c, h
      <4>3. a \in Int /\ b \in Int /\ c \in Int
        BY <4>2
      <4>4. a \in 1..(n - 1) /\ a = IF b > c THEN b - c ELSE n + (b - c)
        BY <4>2, <4>3
      <4> QED BY <4>4 DEF a, b, c
    <3> QED BY <3>2, <3>4, <3>5
  <2>10. ASSUME NEW f \in Q \cup {v}, ~ t.frame[f].pin,
                NEW g \in FrameId \ (Q \cup {v}), ~ t.frame[g].pin
         PROVE  /\ t.frame[f].considered => /\ t.frame[g].considered
                                            /\ Dist(t, g) < Dist(t, f)
                /\ ~ t.frame[g].considered => Dist(t, g) < Dist(t, f)
    <3>1. CASE f = v
      BY <2>1, <2>3, <2>9, <3>1
    <3>2. CASE f # v
      <4>1. f \in Q /\ f \in FrameId /\ ~ s.frame[f].pin /\ ~ s.frame[g].pin
        BY <2>6, <2>10, <3>2
      <4>2. /\ s.frame[f].considered => /\ s.frame[g].considered
                                        /\ Dist(s, g) < Dist(s, f)
            /\ ~ s.frame[g].considered => Dist(s, g) < Dist(s, f)
            /\ s.frame[f].considered => /\ s.frame[v].considered
                                        /\ Dist(s, v) < Dist(s, f)
            /\ ~ s.frame[v].considered => Dist(s, v) < Dist(s, f)
        BY <2>2, <2>5, <4>1 DEF ClockPasses
      <4>3. /\ s.frame[g].considered => Stop(s) <= Dist(s, g)
            /\ Stop(s) <= n + Dist(s, g)
            /\ s.frame[v].considered => Stop(s) <= Dist(s, v)
        BY <2>2, <4>1
      <4>4. /\ Dist(s, g) < Stop(s) => t.frame[g].considered
            /\ s.frame[g].considered => t.frame[g].considered
            /\ t.frame[f].considered /\ ~ s.frame[f].considered
                 => Dist(s, f) < Stop(s)
        BY <2>2, <2>7, <3>2, <4>1
      <4>5. /\ Dist(s, g) \in 1..n /\ Dist(s, v) \in 1..n
            /\ Dist(s, f) \in 1..n
        BY <2>2, <2>3, <4>1
      <4>6. Dist(s, g) # Dist(s, v)
        <5>1. Hand(s, Dist(s, g)) = g /\ Hand(s, Dist(s, v)) = v
          BY <1>1, <1>3, <2>2, DistIsRound
        <5> QED BY <5>1
      <4>7. /\ Dist(t, g) = IF Dist(s, g) > Dist(s, v)
                            THEN Dist(s, g) - Dist(s, v)
                            ELSE n + (Dist(s, g) - Dist(s, v))
            /\ Dist(t, f) = IF Dist(s, f) > Dist(s, v)
                            THEN Dist(s, f) - Dist(s, v)
                            ELSE n + (Dist(s, f) - Dist(s, v))
        BY <2>9, <3>2, <4>1
      <4>8. CASE Stop(s) = Dist(s, v) /\ s.frame[v].considered
        BY <2>3, <4>2, <4>3, <4>4, <4>5, <4>6, <4>7, <4>8
      <4>9. CASE Stop(s) = n + Dist(s, v)
        BY <2>3, <4>2, <4>3, <4>4, <4>5, <4>6, <4>7, <4>9
      <4> QED BY <2>2, <4>8, <4>9
    <3> QED BY <3>1, <3>2
  <2>11. ClockPasses(t, Q \cup {v})
    BY <2>8, <2>10 DEF ClockPasses
  <2> QED BY <2>5, <2>11 DEF t, v
<1> QED BY <1>2, <1>3

-----------------------------------------------------------------------------
(* Marks on frames *)

\* A mark on a frame leaves the records in agreement: pins and considered
\* bits always, the dirty bit when it is set.
LEMMA MarkIsSound ==
  ASSUME NEW s, Sound(s), NEW f \in FrameId, NEW r \in FrameRecord,
         r.virtual_id = s.frame[f].virtual_id,
         s.frame[f].dirty => r.dirty
  PROVE  LET t == [s EXCEPT !.frame[f] = r]
         IN  /\ Sound(t) /\ t.page = s.page /\ t.lists = s.lists
             /\ t.cap = s.cap /\ t.nframes = s.nframes /\ t.last = s.last
             /\ \A g \in FrameId : t.frame[g] = IF g = f THEN r ELSE s.frame[g]
<1> DEFINE t == [s EXCEPT !.frame[f] = r]
<1>1. s \in VmRecord /\ s.disk.free \subseteq 1..s.disk.size /\ s.nframes \in Nat
  BY FrameAssumption DEF Sound, VmRecord
<1>2. /\ t \in VmRecord
      /\ \A g \in FrameId : t.frame[g] = IF g = f THEN r ELSE s.frame[g]
      /\ t.page = s.page /\ t.lists = s.lists
      /\ t.nframes = s.nframes /\ t.last = s.last /\ t.disk = s.disk
      /\ t.cap = s.cap
  BY <1>1, ChangeRecord
<1> HIDE DEF t
<1>3. \A g \in FrameId :
        /\ t.frame[g].virtual_id = s.frame[g].virtual_id
        /\ s.frame[g].dirty => t.frame[g].dirty
  BY <1>2
<1>4. s.nframes <= t.nframes /\ t.disk.free \subseteq 1..t.disk.size
  BY <1>1, <1>2
<1>5. Sound(t)
  BY <1>2, <1>3, <1>4, StaysSound
<1> QED BY <1>2, <1>5 DEF t

\* The four marks.
Pinned(s, v)   == SetFrame(s, v, "pin", TRUE)
Released(s, v) == SetFrame(s, v, "pin", FALSE)
Dirtied(s, v)  == SetFrame(s, v, "dirty", TRUE)
Renewed(s, v)  == SetFrame(s, v, "considered", FALSE)

\* VirtualFrame__pinPage
LEMMA PinFrame ==
  ASSUME NEW s, Sound(s), NEW v, s.page[v].frame_id \in FrameId
  PROVE  LET t == Pinned(s, v)
             f == s.page[v].frame_id
         IN  /\ Sound(t) /\ t.page = s.page /\ t.lists = s.lists
             /\ t.cap = s.cap /\ t.nframes = s.nframes /\ t.last = s.last
             /\ \A g \in FrameId \ {f} : t.frame[g] = s.frame[g]
             /\ t.frame[f].pin
             /\ t.frame[f].virtual_id = s.frame[f].virtual_id
             /\ t.frame[f].considered => s.frame[f].considered
             /\ s.frame[f].considered => t.frame[f].considered
<1> DEFINE f == s.page[v].frame_id
           o == s.frame[f]
           r == [o EXCEPT !.pin = TRUE]
<1>1. o \in FrameRecord
  BY DEF Sound, VmRecord
<1>2. Pinned(s, v) = [s EXCEPT !.frame[f] = r]
  BY DEF SetFrame, Pinned
<1> HIDE DEF o
<1>3. /\ r \in FrameRecord /\ r.virtual_id = o.virtual_id
      /\ r.pin = TRUE
      /\ r.dirty = o.dirty \/ r.dirty = TRUE
      /\ r.considered = o.considered
  BY <1>1 DEF FrameRecord
<1> HIDE DEF r
<1>4. o.dirty => r.dirty
  BY <1>3
<1>7. /\ r.pin
      /\ (r.considered => o.considered) /\ (o.considered => r.considered)
  BY <1>3
<1> DEFINE t == [s EXCEPT !.frame[f] = r]
<1>5. /\ Sound(t) /\ t.page = s.page /\ t.lists = s.lists
      /\ t.cap = s.cap /\ t.nframes = s.nframes /\ t.last = s.last
      /\ \A g \in FrameId : t.frame[g] = IF g = f THEN r ELSE s.frame[g]
  BY <1>3, <1>4, MarkIsSound DEF o
<1> HIDE DEF t
<1>6. t.frame[f] = r /\ \A g \in FrameId \ {f} : t.frame[g] = s.frame[g]
  BY <1>5
<1>8. r.virtual_id = o.virtual_id
  BY <1>3
<1> QED BY <1>2, <1>5, <1>6, <1>7, <1>8 DEF t, o

\* VirtualFrame__unpinPage
LEMMA UnpinFrame ==
  ASSUME NEW s, Sound(s), NEW v, s.page[v].frame_id \in FrameId
  PROVE  LET t == Released(s, v)
             f == s.page[v].frame_id
         IN  /\ Sound(t) /\ t.page = s.page /\ t.lists = s.lists
             /\ t.cap = s.cap /\ t.nframes = s.nframes /\ t.last = s.last
             /\ \A g \in FrameId \ {f} : t.frame[g] = s.frame[g]
             /\ ~ t.frame[f].pin
             /\ t.frame[f].virtual_id = s.frame[f].virtual_id
             /\ t.frame[f].considered => s.frame[f].considered
             /\ s.frame[f].considered => t.frame[f].considered
<1> DEFINE f == s.page[v].frame_id
           o == s.frame[f]
           r == [o EXCEPT !.pin = FALSE]
<1>1. o \in FrameRecord
  BY DEF Sound, VmRecord
<1>2. Released(s, v) = [s EXCEPT !.frame[f] = r]
  BY DEF SetFrame, Released
<1> HIDE DEF o
<1>3. /\ r \in FrameRecord /\ r.virtual_id = o.virtual_id
      /\ r.pin = FALSE
      /\ r.dirty = o.dirty \/ r.dirty = TRUE
      /\ r.considered = o.considered
  BY <1>1 DEF FrameRecord
<1> HIDE DEF r
<1>4. o.dirty => r.dirty
  BY <1>3
<1>7. /\ ~ r.pin
      /\ (r.considered => o.considered) /\ (o.considered => r.considered)
  BY <1>3
<1> DEFINE t == [s EXCEPT !.frame[f] = r]
<1>5. /\ Sound(t) /\ t.page = s.page /\ t.lists = s.lists
      /\ t.cap = s.cap /\ t.nframes = s.nframes /\ t.last = s.last
      /\ \A g \in FrameId : t.frame[g] = IF g = f THEN r ELSE s.frame[g]
  BY <1>3, <1>4, MarkIsSound DEF o
<1> HIDE DEF t
<1>6. t.frame[f] = r /\ \A g \in FrameId \ {f} : t.frame[g] = s.frame[g]
  BY <1>5
<1>8. r.virtual_id = o.virtual_id
  BY <1>3
<1> QED BY <1>2, <1>5, <1>6, <1>7, <1>8 DEF t, o

\* VirtualFrame__markPageDirty
LEMMA DirtyFrame ==
  ASSUME NEW s, Sound(s), NEW v, s.page[v].frame_id \in FrameId
  PROVE  LET t == Dirtied(s, v)
             f == s.page[v].frame_id
         IN  /\ Sound(t) /\ t.page = s.page /\ t.lists = s.lists
             /\ t.cap = s.cap /\ t.nframes = s.nframes /\ t.last = s.last
             /\ \A g \in FrameId \ {f} : t.frame[g] = s.frame[g]
             /\ t.frame[f].dirty
             /\ t.frame[f].virtual_id = s.frame[f].virtual_id
             /\ t.frame[f].pin => s.frame[f].pin
             /\ s.frame[f].pin => t.frame[f].pin
             /\ t.frame[f].considered => s.frame[f].considered
             /\ s.frame[f].considered => t.frame[f].considered
<1> DEFINE f == s.page[v].frame_id
           o == s.frame[f]
           r == [o EXCEPT !.dirty = TRUE]
<1>1. o \in FrameRecord
  BY DEF Sound, VmRecord
<1>2. Dirtied(s, v) = [s EXCEPT !.frame[f] = r]
  BY DEF SetFrame, Dirtied
<1> HIDE DEF o
<1>3. /\ r \in FrameRecord /\ r.virtual_id = o.virtual_id
      /\ r.dirty = TRUE
      /\ r.dirty = o.dirty \/ r.dirty = TRUE
      /\ r.pin = o.pin
      /\ r.considered = o.considered
  BY <1>1 DEF FrameRecord
<1> HIDE DEF r
<1>4. o.dirty => r.dirty
  BY <1>3
<1>7. /\ r.dirty
      /\ (r.pin => o.pin) /\ (o.pin => r.pin)
      /\ (r.considered => o.considered) /\ (o.considered => r.considered)
  BY <1>3
<1> DEFINE t == [s EXCEPT !.frame[f] = r]
<1>5. /\ Sound(t) /\ t.page = s.page /\ t.lists = s.lists
      /\ t.cap = s.cap /\ t.nframes = s.nframes /\ t.last = s.last
      /\ \A g \in FrameId : t.frame[g] = IF g = f THEN r ELSE s.frame[g]
  BY <1>3, <1>4, MarkIsSound DEF o
<1> HIDE DEF t
<1>6. t.frame[f] = r /\ \A g \in FrameId \ {f} : t.frame[g] = s.frame[g]
  BY <1>5
<1>8. r.virtual_id = o.virtual_id
  BY <1>3
<1> QED BY <1>2, <1>5, <1>6, <1>7, <1>8 DEF t, o

\* The frame is considered no more: the clock passes it once.
LEMMA RenewFrame ==
  ASSUME NEW s, Sound(s), NEW v, s.page[v].frame_id \in FrameId
  PROVE  LET t == Renewed(s, v)
             f == s.page[v].frame_id
         IN  /\ Sound(t) /\ t.page = s.page /\ t.lists = s.lists
             /\ t.cap = s.cap /\ t.nframes = s.nframes /\ t.last = s.last
             /\ \A g \in FrameId \ {f} : t.frame[g] = s.frame[g]
             /\ ~ t.frame[f].considered
             /\ t.frame[f].virtual_id = s.frame[f].virtual_id
             /\ t.frame[f].pin => s.frame[f].pin
             /\ s.frame[f].pin => t.frame[f].pin
<1> DEFINE f == s.page[v].frame_id
           o == s.frame[f]
           r == [o EXCEPT !.considered = FALSE]
<1>1. o \in FrameRecord
  BY DEF Sound, VmRecord
<1>2. Renewed(s, v) = [s EXCEPT !.frame[f] = r]
  BY DEF SetFrame, Renewed
<1> HIDE DEF o
<1>3. /\ r \in FrameRecord /\ r.virtual_id = o.virtual_id
      /\ r.considered = FALSE
      /\ r.dirty = o.dirty \/ r.dirty = TRUE
      /\ r.pin = o.pin
  BY <1>1 DEF FrameRecord
<1> HIDE DEF r
<1>4. o.dirty => r.dirty
  BY <1>3
<1>7. /\ ~ r.considered
      /\ (r.pin => o.pin) /\ (o.pin => r.pin)
  BY <1>3
<1> DEFINE t == [s EXCEPT !.frame[f] = r]
<1>5. /\ Sound(t) /\ t.page = s.page /\ t.lists = s.lists
      /\ t.cap = s.cap /\ t.nframes = s.nframes /\ t.last = s.last
      /\ \A g \in FrameId : t.frame[g] = IF g = f THEN r ELSE s.frame[g]
  BY <1>3, <1>4, MarkIsSound DEF o
<1> HIDE DEF t
<1>6. t.frame[f] = r /\ \A g \in FrameId \ {f} : t.frame[g] = s.frame[g]
  BY <1>5
<1>8. r.virtual_id = o.virtual_id
  BY <1>3
<1> QED BY <1>2, <1>5, <1>6, <1>7, <1>8 DEF t, o

-----------------------------------------------------------------------------
(* Swapping in a page of an array, mapping, and writing *)

LEMMA SwapInSettles ==
  ASSUME NEW s, Sound(s), NEW v \in Live(s), ~ Resident(s, v),
         NEW f \in FrameId, f <= s.nframes, s.frame[f].virtual_id = NULL_SLOT
  PROVE  LET t == SwapInPage(s, v, f)
         IN  /\ Sound(t) /\ Resident(t, v) /\ t.page[v].frame_id = f
             /\ t.lists = s.lists /\ t.nframes = s.nframes
             /\ \A w \in PageId : w \notin Peers(s, v) => t.page[w] = s.page[w]
             /\ \A g \in FrameId \ {f} : t.frame[g] = s.frame[g]
             /\ t.frame[f].pin => s.frame[f].pin
             /\ s.frame[f].pin => t.frame[f].pin
             /\ Settled(s, t, f, v, s.data[f])
<1> DEFINE id == s.page[v].frame_id
           b == FillFrame(s, f, v, id, s.data[f])
           t == PointPagesTo(b, v, f)
<1>1. /\ s \in VmRecord /\ s.disk.free \subseteq 1..s.disk.size
      /\ v \in PageId /\ v \in Peers(s, v)
  BY LivePages DEF Sound
<1>2. /\ id \in 0..(2 * DISK_START - 1) /\ s.data[f] \in Content
      /\ f \in 0..(2 * DISK_START - 1)
  BY <1>1, FrameIds, FrameAssumption DEF VmRecord, PageRecord
<1>3. /\ b \in VmRecord
      /\ b.page = s.page /\ b.lists = s.lists /\ b.nframes = s.nframes
      /\ b.disk = s.disk /\ b.cap = s.cap /\ b.swap = s.swap
      /\ b.frame[f].virtual_id = v /\ b.frame[f].pin = s.frame[f].pin
      /\ b.frame[f].disk_id = IF id > DISK_START THEN id - DISK_START ELSE 0
      /\ b.data[f] = IF id > DISK_START THEN s.swap[id - DISK_START]
                                        ELSE s.data[f]
      /\ \A g \in FrameId \ {f} : /\ b.frame[g] = s.frame[g]
                                  /\ b.data[g] = s.data[g]
  BY <1>1, <1>2, FillFrameFields
<1>4. SwapInPage(s, v, f) = t
  BY DEF SwapInPage
<1> HIDE DEF b
<1>5. /\ t \in VmRecord
      /\ t.lists = b.lists /\ t.frame = b.frame
      /\ t.nframes = b.nframes /\ t.disk = b.disk /\ t.cap = b.cap
      /\ t.data = b.data /\ t.swap = b.swap
      /\ \A w \in PageId :
           /\ t.page[w].mapped = b.page[w].mapped
           /\ t.page[w].frame_id = IF w \in Peers(b, v) THEN f
                                   ELSE b.page[w].frame_id
           /\ w \notin Peers(b, v) => t.page[w] = b.page[w]
  BY <1>2, <1>3, PointPagesToFields
<1> HIDE DEF t
<1>6. Peers(b, v) = Peers(s, v)
  BY <1>3 DEF Peers
<1>7. \A w \in PageId : IF w \in Peers(s, v)
                       THEN /\ t.page[w].frame_id = f
                            /\ t.page[w].mapped = s.page[w].mapped
                       ELSE t.page[w] = s.page[w]
  BY <1>3, <1>5, <1>6
<1>8. /\ t.lists = s.lists /\ t.nframes = s.nframes /\ t.cap = s.cap
      /\ t.disk.free \subseteq 1..t.disk.size
      /\ t.frame[f].virtual_id = v /\ t.frame[f].pin = s.frame[f].pin
      /\ \A g \in FrameId \ {f} : t.frame[g] = s.frame[g]
  BY <1>1, <1>3, <1>5
<1>9. Sound(t) /\ Resident(t, v)
  BY <1>5, <1>7, <1>8, SettledIsSound
<1>10. /\ t.frame[f].pin => s.frame[f].pin
       /\ s.frame[f].pin => t.frame[f].pin
  BY <1>8
<1>11. /\ t.lists = s.lists /\ t.nframes = s.nframes
       /\ \A g \in FrameId \ {f} : t.frame[g] = s.frame[g]
  BY <1>8
<1>12. Settled(s, t, f, v, s.data[f])
  <2>1. /\ t.disk = s.disk /\ t.swap = s.swap
        /\ t.frame[f].disk_id = IF id > DISK_START THEN id - DISK_START ELSE 0
        /\ t.data[f] = IF id > DISK_START THEN s.swap[id - DISK_START]
                                          ELSE s.data[f]
        /\ \A g \in FrameId \ {f} : t.data[g] = s.data[g]
    BY <1>3, <1>5
  <2> QED BY <1>5, <1>7, <1>8, <2>1 DEF Settled
<1> QED BY <1>1, <1>4, <1>7, <1>9, <1>10, <1>11, <1>12

\* What an application or a client writes to a frame.
LEMMA WriteIsSound ==
  ASSUME NEW s, Sound(s), NEW f \in FrameId, NEW x \in Value
  PROVE  LET t == [s EXCEPT !.data[f] = x]
         IN  /\ Sound(t) /\ t.page = s.page /\ t.lists = s.lists
             /\ t.frame = s.frame /\ t.nframes = s.nframes
             /\ t.disk = s.disk /\ t.swap = s.swap
             /\ t.data = [s.data EXCEPT ![f] = x]
<1> DEFINE D == [s.data EXCEPT ![f] = x]
           t == [s EXCEPT !.data[f] = x]
<1>1. /\ s \in VmRecord /\ s.disk.free \subseteq 1..s.disk.size
      /\ s.data \in [FrameId -> Content] /\ s.nframes \in Nat /\ x \in Content
  BY FrameAssumption DEF Sound, VmRecord, Content
<1>2. D \in [FrameId -> Content]
  BY <1>1
<1>3. t = [s EXCEPT !.data = D]
  OBVIOUS
<1> HIDE DEF D, t
<1>4. t = [page |-> s.page, lists |-> s.lists, frame |-> s.frame,
           nframes |-> s.nframes, last |-> s.last, disk |-> s.disk,
           cap |-> s.cap, data |-> D, swap |-> s.swap]
  BY <1>1, <1>3 DEF VmRecord
<1>5. t \in VmRecord
  BY <1>1, <1>2, <1>4 DEF VmRecord
<1>6. /\ t.page = s.page /\ t.lists = s.lists /\ t.frame = s.frame
      /\ t.nframes = s.nframes /\ t.disk = s.disk /\ t.cap = s.cap
      /\ t.data = D /\ t.swap = s.swap
  BY <1>4
<1>7. t.disk.free \subseteq 1..t.disk.size /\ s.nframes <= t.nframes
  BY <1>1, <1>6
<1>8. Sound(t)
  BY <1>5, <1>6, <1>7, StaysSound
<1> QED BY <1>6, <1>8 DEF t, D

\* A page in a frame is mapped there, writable if the frame is dirty.
Mapped(s, v) ==
  [s EXCEPT !.page[v].mapped = TRUE,
            !.cap[v] = [to |-> s.page[v].frame_id, write |-> FrameOf(s, v).dirty]]

LEMMA MappedIsSound ==
  ASSUME NEW s, Sound(s), NEW v \in Live(s), Resident(s, v)
  PROVE  LET t == Mapped(s, v)
         IN  /\ Sound(t) /\ t.lists = s.lists
             /\ t.frame = s.frame /\ t.nframes = s.nframes
             /\ t.disk = s.disk /\ t.data = s.data /\ t.swap = s.swap
             /\ \A w \in PageId : t.page[w].frame_id = s.page[w].frame_id
<1> DEFINE f == s.page[v].frame_id
           p == [s.page[v] EXCEPT !.mapped = TRUE]
           c == [to |-> f, write |-> FrameOf(s, v).dirty]
           P == [s.page EXCEPT ![v] = p]
           C == [s.cap EXCEPT ![v] = c]
           t == Mapped(s, v)
<1>1. /\ s \in VmRecord /\ v \in PageId
      /\ ListsApart(s) /\ PagesPlaced(s) /\ FramesPlaced(s) /\ CapsTracked(s)
      /\ s.disk.free \subseteq 1..s.disk.size
  BY LivePages DEF Sound
<1>2. /\ s.page \in [PageId -> PageRecord] /\ s.page[v] \in PageRecord
      /\ s.cap \in [PageId -> Mapping]
  BY <1>1 DEF VmRecord
<1>3. f \in FrameId /\ f > 0
  BY <1>1, FrameIds DEF PagesPlaced, Resident, HasFrame
<1>4. p \in PageRecord /\ p.frame_id = f /\ p.mapped = TRUE
  <2> DEFINE o == s.page[v]
  <2>1. o \in PageRecord /\ p = [o EXCEPT !.mapped = TRUE]
    BY <1>2
  <2> HIDE DEF o, p
  <2>2. p \in PageRecord /\ p.frame_id = o.frame_id /\ p.mapped = TRUE
    BY <2>1 DEF PageRecord
  <2> QED BY <2>2 DEF o
<1>5. c \in Mapping
  <2>1. s.frame[f] \in FrameRecord
    BY <1>1, <1>3 DEF VmRecord
  <2>2. FrameOf(s, v).dirty \in BOOLEAN
    BY <2>1 DEF FrameOf, FrameRecord
  <2>3. f \in 0..FRAME_LIMIT
    BY <1>3 DEF FrameId
  <2> QED BY <2>2, <2>3 DEF Mapping
<1>6. c.to = f /\ c.write = FrameOf(s, v).dirty
  OBVIOUS
<1>7. t = [s EXCEPT !.page = P, !.cap = C]
  BY DEF Mapped
<1> HIDE DEF t, p, c
<1>8. /\ P \in [PageId -> PageRecord] /\ C \in [PageId -> Mapping]
      /\ P[v] = p /\ C[v] = c
      /\ \A w \in PageId \ {v} : P[w] = s.page[w] /\ C[w] = s.cap[w]
  BY <1>1, <1>2, <1>4, <1>5
<1> HIDE DEF P, C
<1>9. t = [page |-> P, lists |-> s.lists, frame |-> s.frame,
           nframes |-> s.nframes, last |-> s.last, disk |-> s.disk,
           cap |-> C, data |-> s.data, swap |-> s.swap]
  BY <1>1, <1>7 DEF VmRecord
<1>10. t \in VmRecord
  BY <1>1, <1>8, <1>9 DEF VmRecord
<1>11. /\ t.lists = s.lists /\ t.frame = s.frame /\ t.nframes = s.nframes
       /\ t.disk = s.disk /\ t.data = s.data /\ t.swap = s.swap
       /\ t.page[v] = p /\ t.cap[v] = c
       /\ \A w \in PageId \ {v} : t.page[w] = s.page[w] /\ t.cap[w] = s.cap[w]
  BY <1>8, <1>9
<1>12. \A w \in PageId : t.page[w].frame_id = s.page[w].frame_id
  BY <1>4, <1>11
<1>13. /\ Live(t) = Live(s) /\ \A w : Peers(t, w) = Peers(s, w)
       /\ \A w \in PageId : /\ Resident(t, w) <=> Resident(s, w)
                            /\ FrameOf(t, w) = FrameOf(s, w)
  BY <1>11, <1>12 DEF Live, Peers, Resident, HasFrame, FrameOf
<1>14. ListsApart(t)
  BY <1>1, <1>11 DEF ListsApart
<1>15. PagesPlaced(t)
  <2>1. \A w \in PageId : HasFrame(t.page[w]) => t.page[w].frame_id \in FrameId
    BY <1>1, <1>12 DEF PagesPlaced, HasFrame
  <2>2. \A w \in PageId \ Live(t) : t.page[w] = NewPage /\ t.cap[w] = Unmapped
    BY <1>1, <1>11, <1>13 DEF PagesPlaced
  <2>3. \A u \in Live(t) : \A w \in Peers(t, u) :
          t.page[w].frame_id = t.page[u].frame_id
    <3> SUFFICES ASSUME NEW u \in Live(s), NEW w \in Peers(s, u)
                 PROVE  t.page[w].frame_id = t.page[u].frame_id
      BY <1>13
    <3>1. u \in PageId /\ w \in PageId
      BY <1>1, LivePages
    <3> QED BY <1>1, <1>12, <3>1 DEF PagesPlaced
  <2> QED BY <2>1, <2>2, <2>3 DEF PagesPlaced
<1>16. FramesPlaced(t)
  <2>1. ASSUME NEW w \in Live(s), Resident(t, w)
        PROVE  FrameOf(t, w).virtual_id \in Peers(s, w)
    <3>1. w \in PageId
      BY <1>1, LivePages
    <3> QED BY <1>1, <1>13, <2>1, <3>1 DEF FramesPlaced
  <2>2. ASSUME NEW g \in FrameId, NEW owner, owner = s.frame[g].virtual_id,
               owner # NULL_SLOT
        PROVE  /\ owner \in Live(s) /\ g <= s.nframes
               /\ t.page[owner].frame_id = g
    <3>1. owner \in Live(s) /\ g <= s.nframes /\ s.page[owner].frame_id = g
      BY <1>1, <2>2 DEF FramesPlaced
    <3>2. owner \in PageId
      BY <1>1, <3>1, LivePages
    <3> QED BY <1>12, <3>1, <3>2
  <2> QED BY <1>11, <1>13, <2>1, <2>2 DEF FramesPlaced
<1>17. CapsTracked(t)
  <2> SUFFICES ASSUME NEW w \in PageId
               PROVE  /\ t.page[w].mapped <=> t.cap[w].to # 0
                      /\ t.cap[w].write => /\ Resident(t, w)
                                           /\ t.cap[w].to = t.page[w].frame_id
                                           /\ FrameOf(t, w).dirty
    BY DEF CapsTracked
  <2>1. CASE w = v
    <3>1. t.page[w].mapped /\ t.cap[w].to = f /\ t.page[w].frame_id = f
      BY <1>4, <1>6, <1>11, <2>1
    <3>2. t.cap[w].write = FrameOf(t, w).dirty
      BY <1>6, <1>11, <1>13, <2>1
    <3>3. Resident(t, w)
      BY <1>13, <2>1
    <3> QED BY <1>3, <3>1, <3>2, <3>3
  <2>2. CASE w # v
    <3>1. /\ s.page[w].mapped <=> s.cap[w].to # 0
          /\ s.cap[w].write => /\ Resident(s, w)
                               /\ s.cap[w].to = s.page[w].frame_id
                               /\ FrameOf(s, w).dirty
      BY <1>1 DEF CapsTracked
    <3>2. t.page[w] = s.page[w] /\ t.cap[w] = s.cap[w]
      BY <1>11, <2>2
    <3>3. (Resident(t, w) <=> Resident(s, w)) /\ FrameOf(t, w) = FrameOf(s, w)
      BY <1>13
    <3> QED BY <3>1, <3>2, <3>3
  <2> QED BY <2>1, <2>2
<1>18. t.disk.free \subseteq 1..t.disk.size
  BY <1>1, <1>11
<1> QED BY <1>10, <1>11, <1>12, <1>14, <1>15, <1>16, <1>17, <1>18 DEF Sound, t

-----------------------------------------------------------------------------
(* Pages that come and go *)

\* One page enters or leaves a list, and owns no frame: the records of the
\* others stay, and theirs stay in agreement with the lists.
LEMMA RelistedIsSound ==
  ASSUME NEW s, Sound(s), NEW t \in VmRecord, ListsApart(t),
         t.disk.free \subseteq 1..t.disk.size,
         t.frame = s.frame, t.nframes = s.nframes,
         NEW v \in PageId,
         \A g \in FrameId : s.frame[g].virtual_id # v,
         \A u \in PageId \ {v} :
           /\ t.page[u] = s.page[u] /\ t.cap[u] = s.cap[u]
           /\ u \in Live(t) <=> u \in Live(s)
           /\ \A w : w # v => (w \in Peers(t, u) <=> w \in Peers(s, u)),
         ~ t.page[v].mapped, t.cap[v] = Unmapped,
         IF v \in Live(t)
         THEN /\ \A u \in Peers(t, v) : t.page[u].frame_id = t.page[v].frame_id
              /\ Resident(t, v) =>
                   /\ t.page[v].frame_id \in FrameId
                   /\ FrameOf(t, v).virtual_id \in Peers(t, v)
         ELSE t.page[v] = NewPage
  PROVE  Sound(t)
<1>1. /\ s \in VmRecord
      /\ ListsApart(s) /\ PagesPlaced(s) /\ FramesPlaced(s) /\ CapsTracked(s)
  BY DEF Sound
<1>2. \A u \in PageId \ {v} : /\ Resident(t, u) <=> Resident(s, u)
                              /\ FrameOf(t, u) = FrameOf(s, u)
  BY DEF Resident, HasFrame, FrameOf
<1>3. PagesPlaced(t)
  <2>1. ASSUME NEW u \in PageId, HasFrame(t.page[u])
        PROVE  t.page[u].frame_id \in FrameId
    <3>1. CASE u = v
      <4>1. v \in Live(t)
        <5> SUFFICES ASSUME t.page[v] = NewPage PROVE FALSE
          OBVIOUS
        <5>1. ~ HasFrame(NewPage)
          BY DEF HasFrame, NewPage
        <5> QED BY <2>1, <3>1, <5>1
      <4> QED BY <2>1, <3>1, <4>1 DEF Resident
    <3>2. CASE u # v
      BY <1>1, <2>1, <3>2 DEF PagesPlaced
    <3> QED BY <3>1, <3>2
  <2>2. \A u \in PageId \ Live(t) : t.page[u] = NewPage /\ t.cap[u] = Unmapped
    BY <1>1 DEF PagesPlaced
  <2>3. ASSUME NEW u \in Live(t), NEW w \in Peers(t, u)
        PROVE  t.page[w].frame_id = t.page[u].frame_id
    <3>1. u \in PageId /\ w \in PageId /\ u \in Peers(t, w) /\ w \in Live(t)
      BY LivePages, PeersSymmetric
    <3>2. CASE u = v \/ w = v
      BY <3>1, <3>2
    <3>3. CASE u # v /\ w # v
      <4>1. u \in Live(s) /\ w \in Peers(s, u)
        BY <3>1, <3>3
      <4> QED BY <1>1, <3>1, <3>3, <4>1 DEF PagesPlaced
    <3> QED BY <3>2, <3>3
  <2> QED BY <2>1, <2>2, <2>3 DEF PagesPlaced
<1>4. FramesPlaced(t)
  <2>1. ASSUME NEW u \in Live(t), Resident(t, u)
        PROVE  FrameOf(t, u).virtual_id \in Peers(t, u)
    <3>1. CASE u = v
      BY <2>1, <3>1
    <3>2. CASE u # v
      <4>1. u \in PageId /\ u \in Live(s)
        BY <3>2, LivePages
      <4>2. Resident(s, u) /\ s.page[u].frame_id \in FrameId
        BY <1>1, <1>2, <2>1, <3>2, <4>1 DEF PagesPlaced, Resident
      <4>3. FrameOf(s, u).virtual_id \in Peers(s, u) /\ FrameOf(s, u).virtual_id # v
        BY <1>1, <4>1, <4>2 DEF FramesPlaced, FrameOf
      <4> QED BY <1>2, <3>2, <4>1, <4>3
    <3> QED BY <3>1, <3>2
  <2>2. ASSUME NEW g \in FrameId, NEW owner, owner = t.frame[g].virtual_id,
               owner # NULL_SLOT
        PROVE  /\ owner \in Live(t) /\ g <= t.nframes
               /\ t.page[owner].frame_id = g
    <3>1. owner \in Live(s) /\ g <= s.nframes /\ s.page[owner].frame_id = g
      BY <1>1, <2>2 DEF FramesPlaced
    <3>2. owner \in PageId \ {v}
      BY <1>1, <2>2, <3>1, LivePages
    <3> QED BY <3>1, <3>2
  <2> QED BY <2>1, <2>2 DEF FramesPlaced
<1>5. CapsTracked(t)
  <2> SUFFICES ASSUME NEW u \in PageId
               PROVE  /\ t.page[u].mapped <=> t.cap[u].to # 0
                      /\ t.cap[u].write => /\ Resident(t, u)
                                           /\ t.cap[u].to = t.page[u].frame_id
                                           /\ FrameOf(t, u).dirty
    BY DEF CapsTracked
  <2>1. CASE u = v
    BY <2>1 DEF Unmapped
  <2>2. CASE u # v
    <3>1. /\ s.page[u].mapped <=> s.cap[u].to # 0
          /\ s.cap[u].write => /\ Resident(s, u)
                               /\ s.cap[u].to = s.page[u].frame_id
                               /\ FrameOf(s, u).dirty
      BY <1>1 DEF CapsTracked
    <3>2. t.page[u] = s.page[u] /\ t.cap[u] = s.cap[u]
      BY <2>2
    <3>3. (Resident(t, u) <=> Resident(s, u)) /\ FrameOf(t, u) = FrameOf(s, u)
      BY <1>2, <2>2
    <3> QED BY <3>1, <3>2, <3>3
  <2> QED BY <2>1, <2>2
<1> QED BY <1>3, <1>4, <1>5 DEF Sound

\* What the three of them do to the record of a page.
Relisted(s, v, p, lists) ==
  [s EXCEPT !.page[v] = p, !.lists = lists, !.cap[v] = Unmapped]

LEMMA RelistedFields ==
  ASSUME NEW s \in VmRecord, NEW v \in PageId, NEW p \in PageRecord,
         NEW lists \in SUBSET (SUBSET PageId)
  PROVE  LET t == Relisted(s, v, p, lists)
         IN  /\ t \in VmRecord
             /\ t.lists = lists /\ t.page[v] = p /\ t.cap[v] = Unmapped
             /\ \A u \in PageId \ {v} : /\ t.page[u] = s.page[u]
                                        /\ t.cap[u] = s.cap[u]
             /\ t.frame = s.frame /\ t.nframes = s.nframes
             /\ t.last = s.last /\ t.disk = s.disk
             /\ t.data = s.data /\ t.swap = s.swap
<1> DEFINE P == [s.page EXCEPT ![v] = p]
           C == [s.cap EXCEPT ![v] = Unmapped]
           t == Relisted(s, v, p, lists)
<1>1. s.page \in [PageId -> PageRecord] /\ s.cap \in [PageId -> Mapping]
  BY DEF VmRecord
<1>2. Unmapped \in Mapping
  BY FrameAssumption DEF Unmapped, Mapping
<1>3. /\ P \in [PageId -> PageRecord] /\ C \in [PageId -> Mapping]
      /\ P[v] = p /\ C[v] = Unmapped
      /\ \A u \in PageId \ {v} : P[u] = s.page[u] /\ C[u] = s.cap[u]
  BY <1>1, <1>2
<1>4. t = [s EXCEPT !.page = P, !.lists = lists, !.cap = C]
  BY DEF Relisted
<1> HIDE DEF t, P, C
<1>5. t = [page |-> P, lists |-> lists, frame |-> s.frame,
           nframes |-> s.nframes, last |-> s.last, disk |-> s.disk,
           cap |-> C, data |-> s.data, swap |-> s.swap]
  BY <1>4 DEF VmRecord
<1>6. t \in VmRecord
  BY <1>3, <1>5 DEF VmRecord
<1>7. /\ t.lists = lists /\ t.page = P /\ t.cap = C
      /\ t.frame = s.frame /\ t.nframes = s.nframes
      /\ t.last = s.last /\ t.disk = s.disk
      /\ t.data = s.data /\ t.swap = s.swap
  BY <1>5
<1> QED BY <1>3, <1>6, <1>7 DEF t

\* VirtualFrame__allocPage: a list of one page.
Allocated(s, v) ==
  [s EXCEPT !.page[v] = NewPage, !.lists = @ \cup {{v}}, !.cap[v] = Unmapped]

LEMMA AllocIsSound ==
  ASSUME NEW s, Sound(s), NEW v \in PageId, v \notin Live(s)
  PROVE  LET t == Allocated(s, v)
         IN  /\ Sound(t) /\ t.page = s.page
             /\ t.frame = s.frame /\ t.nframes = s.nframes
             /\ Live(t) = Live(s) \cup {v}
             /\ \A u \in Live(s) : Peers(t, u) = Peers(s, u)
             /\ Peers(t, v) = {v}
             /\ t.disk = s.disk /\ t.data = s.data /\ t.swap = s.swap
<1> DEFINE m == {v}
           L == s.lists \cup {m}
           t == Relisted(s, v, NewPage, L)
<1>1. s \in VmRecord /\ ListsApart(s) /\ PagesPlaced(s) /\ FramesPlaced(s)
  BY DEF Sound
<1>2. L \in SUBSET (SUBSET PageId)
  BY <1>1 DEF VmRecord
<1>3. NewPage \in PageRecord /\ ~ NewPage.mapped
  BY FrameAssumption DEF NewPage, PageRecord
<1>4. Allocated(s, v) = t
  BY DEF Allocated, Relisted
<1> HIDE DEF L
<1>5. /\ t \in VmRecord
      /\ t.lists = L /\ t.page[v] = NewPage /\ t.cap[v] = Unmapped
      /\ \A u \in PageId \ {v} : /\ t.page[u] = s.page[u]
                                 /\ t.cap[u] = s.cap[u]
      /\ t.frame = s.frame /\ t.nframes = s.nframes /\ t.disk = s.disk
      /\ t.data = s.data /\ t.swap = s.swap
  BY <1>1, <1>2, <1>3, RelistedFields
<1> HIDE DEF t
<1>6. \A l \in s.lists : v \notin l
  BY DEF Live
<1>7. \A k : k \in t.lists <=> k \in s.lists \/ k = m
  BY <1>5 DEF L
<1>20. \A u : u \in m <=> u = v
  OBVIOUS
<1> HIDE DEF m
<1>8. /\ ListsApart(t)
      /\ Live(t) = Live(s) \cup {v}
      /\ \A u : u # v => Peers(t, u) = Peers(s, u)
      /\ Peers(t, v) = m
  <2>1. {} \notin t.lists
    BY <1>1, <1>7, <1>20 DEF ListsApart
  <2>2. ASSUME NEW j \in t.lists, NEW k \in t.lists, j # k
        PROVE  j \cap k = {}
    BY <1>1, <1>6, <1>7, <1>20, <2>2 DEF ListsApart
  <2>3. Live(t) = Live(s) \cup {v}
    <3>1. ASSUME NEW u PROVE u \in Live(t) <=> u \in Live(s) \/ u = v
      BY <1>7, <1>20 DEF Live
    <3> QED BY <3>1
  <2>4. ASSUME NEW u, u # v PROVE Peers(t, u) = Peers(s, u)
    <3>1. ASSUME NEW x PROVE x \in Peers(t, u) <=> x \in Peers(s, u)
      BY <1>7, <1>20, <2>4 DEF Peers
    <3> QED BY <3>1
  <2>5. Peers(t, v) = m
    <3>1. ASSUME NEW x PROVE x \in Peers(t, v) <=> x \in m
      BY <1>6, <1>7, <1>20 DEF Peers
    <3> QED BY <3>1
  <2> QED BY <2>1, <2>2, <2>3, <2>4, <2>5 DEF ListsApart
<1>9. \A g \in FrameId : s.frame[g].virtual_id # v
  BY <1>1, FrameAssumption DEF FramesPlaced
<1>10. s.page[v] = NewPage
  BY <1>1 DEF PagesPlaced
<1>11. t.page = s.page
  BY <1>1, <1>5, <1>10 DEF VmRecord
<1>12. ~ Resident(t, v)
  BY <1>5 DEF Resident, HasFrame, NewPage
<1>13. t.disk.free \subseteq 1..t.disk.size
  BY <1>5 DEF Sound
<1>14. Sound(t)
  BY <1>3, <1>5, <1>8, <1>9, <1>12, <1>13, <1>20, RelistedIsSound
<1> QED BY <1>4, <1>5, <1>8, <1>11, <1>14 DEF m

\* VirtualFrame__dupPageMap: w joins the list of v.
LEMMA LinkIsSound ==
  ASSUME NEW s, Sound(s), NEW v \in Live(s), NEW w \in PageId, w \notin Live(s)
  PROVE  LET t == Link(s, v, w)
         IN  /\ Sound(t)
             /\ t.frame = s.frame /\ t.nframes = s.nframes
             /\ \A u \in PageId \ {w} : t.page[u] = s.page[u]
             /\ Live(t) = Live(s) \cup {w}
             /\ \A u, x \in Live(s) : x \in Peers(t, u) <=> x \in Peers(s, u)
             /\ t.disk = s.disk /\ t.data = s.data /\ t.swap = s.swap
             /\ w \in Peers(t, v)
             /\ t.page[w].frame_id = s.page[v].frame_id
<1> DEFINE l == Peers(s, v)
           m == l \cup {w}
           p == [s.page[v] EXCEPT !.mapped = FALSE]
           L == (s.lists \ {l}) \cup {m}
           t == Relisted(s, w, p, L)
<1>1. /\ s \in VmRecord /\ v \in PageId
      /\ ListsApart(s) /\ PagesPlaced(s) /\ FramesPlaced(s)
  BY LivePages DEF Sound
<1>2. l \in s.lists /\ v \in l /\ v # w
  <2>1. PICK k \in s.lists : v \in k
    BY DEF Live
  <2>2. l = k
    BY <1>1, <2>1, PeersIsList
  <2> QED BY <2>1, <2>2
<1>3. L \in SUBSET (SUBSET PageId)
  BY <1>1, <1>2 DEF VmRecord
<1>4. p \in PageRecord /\ ~ p.mapped /\ p.frame_id = s.page[v].frame_id
  <2>1. s.page[v] \in PageRecord
    BY <1>1 DEF VmRecord
  <2> QED BY <2>1 DEF PageRecord
<1>5. Link(s, v, w) = t
  <2> DEFINE P == [s.page EXCEPT ![w] = p]
             C == [s.cap EXCEPT ![w] = Unmapped]
             X == Link(s, v, w)
  <2>1. X = [s EXCEPT !.page = P, !.cap = C, !.lists = L]
    BY DEF Link
  <2>2. t = [s EXCEPT !.page = P, !.lists = L, !.cap = C]
    BY DEF Relisted
  <2> HIDE DEF P, C, L, t, X
  <2>3. X = [page |-> P, lists |-> L, frame |-> s.frame,
             nframes |-> s.nframes, last |-> s.last, disk |-> s.disk,
             cap |-> C, data |-> s.data, swap |-> s.swap]
    BY <1>1, <2>1 DEF VmRecord
  <2>4. t = [page |-> P, lists |-> L, frame |-> s.frame,
             nframes |-> s.nframes, last |-> s.last, disk |-> s.disk,
             cap |-> C, data |-> s.data, swap |-> s.swap]
    BY <1>1, <2>2 DEF VmRecord
  <2> QED BY <2>3, <2>4 DEF X
<1> HIDE DEF L, p
<1>6. /\ t \in VmRecord
      /\ t.lists = L /\ t.page[w] = p /\ t.cap[w] = Unmapped
      /\ \A u \in PageId \ {w} : /\ t.page[u] = s.page[u]
                                 /\ t.cap[u] = s.cap[u]
      /\ t.frame = s.frame /\ t.nframes = s.nframes /\ t.disk = s.disk
      /\ t.data = s.data /\ t.swap = s.swap
  BY <1>1, <1>3, <1>4, RelistedFields
<1> HIDE DEF t
<1>7. \A k \in s.lists : w \notin k
  BY DEF Live
<1>8. \A k \in s.lists : k # l => k \cap m = {}
  BY <1>1, <1>2, <1>7 DEF ListsApart
<1> HIDE DEF l, m
<1>30. \A k : k \in t.lists <=> (k \in s.lists /\ k # l) \/ k = m
  BY <1>6 DEF L
<1>31. \A u : u \in m <=> u \in l \/ u = w
  BY DEF m
<1>9. ListsApart(t)
  <2>1. {} \notin t.lists
    BY <1>1, <1>30, <1>31 DEF ListsApart
  <2>2. ASSUME NEW j \in t.lists, NEW k \in t.lists, j # k
        PROVE  j \cap k = {}
    BY <1>1, <1>8, <1>30, <2>2 DEF ListsApart
  <2> QED BY <2>1, <2>2 DEF ListsApart
<1>10. Live(t) = Live(s) \cup {w}
  <2>1. ASSUME NEW u PROVE u \in Live(t) <=> u \in Live(s) \/ u = w
    BY <1>2, <1>30, <1>31 DEF Live
  <2> QED BY <2>1
<1>11. \A u \in m : Peers(t, u) = m
  <2>1. m \in t.lists
    BY <1>30
  <2> QED BY <1>9, <2>1, PeersIsList
<1>12. \A u : u \notin m => Peers(t, u) = Peers(s, u)
  <2>1. ASSUME NEW u, u \notin m, NEW x
        PROVE  x \in Peers(t, u) <=> x \in Peers(s, u)
    BY <1>30, <1>31, <2>1 DEF Peers
  <2> QED BY <2>1
<1>13. \A u \in l : Peers(s, u) = l
  BY <1>1, <1>2, PeersIsList
<1>14. \A u, x : u # w /\ x # w => (x \in Peers(t, u) <=> x \in Peers(s, u))
  BY <1>11, <1>12, <1>13, <1>31
<1>15. \A g \in FrameId : s.frame[g].virtual_id # w
  BY <1>1, FrameAssumption DEF FramesPlaced
<1>16. ASSUME NEW u \in Peers(t, w)
       PROVE  t.page[u].frame_id = t.page[w].frame_id
  <2>1. u \in m
    BY <1>11, <1>31
  <2>2. CASE u = w
    BY <2>2
  <2>3. CASE u # w
    <3>1. u \in l /\ u \in PageId
      BY <1>1, <1>31, <2>1, <2>3, LivePages DEF l
    <3>2. s.page[u].frame_id = s.page[v].frame_id
      BY <1>1, <3>1 DEF PagesPlaced, l
    <3> QED BY <1>4, <1>6, <2>3, <3>1, <3>2
  <2> QED BY <2>2, <2>3
<1>17. ASSUME Resident(t, w)
       PROVE  /\ t.page[w].frame_id \in FrameId
              /\ FrameOf(t, w).virtual_id \in Peers(t, w)
  <2>1. Resident(s, v) /\ FrameOf(t, w) = FrameOf(s, v)
    BY <1>4, <1>6, <1>17 DEF Resident, HasFrame, FrameOf
  <2>2. s.page[v].frame_id \in FrameId /\ FrameOf(s, v).virtual_id \in l
    BY <1>1, <2>1 DEF PagesPlaced, FramesPlaced, Resident, l
  <2> QED BY <1>4, <1>6, <1>11, <1>31, <2>1, <2>2
<1>18. t.disk.free \subseteq 1..t.disk.size
  BY <1>6 DEF Sound
<1>19. \A u \in PageId \ {w} : /\ u \in Live(t) <=> u \in Live(s)
                               /\ t.page[u] = s.page[u] /\ t.cap[u] = s.cap[u]
  BY <1>6, <1>10
<1>20. ~ t.page[w].mapped /\ t.cap[w] = Unmapped /\ w \in Live(t)
  BY <1>4, <1>6, <1>10
<1>21. Sound(t)
  BY <1>6, <1>9, <1>14, <1>15, <1>16, <1>17, <1>18, <1>19, <1>20,
     RelistedIsSound
<1>22. w \in Peers(t, v) /\ t.page[w].frame_id = s.page[v].frame_id
  BY <1>2, <1>4, <1>6, <1>11, <1>31
<1> QED BY <1>5, <1>6, <1>10, <1>14, <1>21, <1>22

LEMMA UnlinkRelists ==
  ASSUME NEW s \in VmRecord, NEW v \in PageId
  PROVE  Unlink(s, v) =
           Relisted(s, v, NewPage, (s.lists \ {Peers(s, v)})
                                     \cup ({Peers(s, v) \ {v}} \ {{}}))
<1> DEFINE P == [s.page EXCEPT ![v] = NewPage]
           C == [s.cap EXCEPT ![v] = Unmapped]
           L == (s.lists \ {Peers(s, v)}) \cup ({Peers(s, v) \ {v}} \ {{}})
           t == Relisted(s, v, NewPage, L)
           x == Unlink(s, v)
<1>1. x = [s EXCEPT !.lists = L, !.page = P, !.cap = C]
  BY DEF Unlink
<1>2. t = [s EXCEPT !.page = P, !.lists = L, !.cap = C]
  BY DEF Relisted
<1> HIDE DEF P, C, L, t, x
<1>3. x = [page |-> P, lists |-> L, frame |-> s.frame,
           nframes |-> s.nframes, last |-> s.last, disk |-> s.disk,
           cap |-> C, data |-> s.data, swap |-> s.swap]
  BY <1>1 DEF VmRecord
<1>4. t = [page |-> P, lists |-> L, frame |-> s.frame,
           nframes |-> s.nframes, last |-> s.last, disk |-> s.disk,
           cap |-> C, data |-> s.data, swap |-> s.swap]
  BY <1>2 DEF VmRecord
<1>5. x = t
  BY <1>3, <1>4
<1> QED BY <1>5 DEF x, t, L

\* A page that owns no frame leaves its list and the page table.
LEMMA UnlinkIsSound ==
  ASSUME NEW s, Sound(s), NEW v \in Live(s),
         \A g \in FrameId : s.frame[g].virtual_id # v
  PROVE  LET t == Unlink(s, v)
         IN  /\ Sound(t)
             /\ t.frame = s.frame /\ t.nframes = s.nframes
             /\ \A u \in PageId \ {v} : t.page[u] = s.page[u]
             /\ Live(t) = Live(s) \ {v}
             /\ \A u, x \in Live(t) : x \in Peers(t, u) <=> x \in Peers(s, u)
<1> DEFINE l == Peers(s, v)
           m == l \ {v}
           L == (s.lists \ {l}) \cup ({m} \ {{}})
           t == Relisted(s, v, NewPage, L)
<1>1. /\ s \in VmRecord /\ v \in PageId
      /\ ListsApart(s) /\ PagesPlaced(s) /\ FramesPlaced(s)
  BY LivePages DEF Sound
<1>2. l \in s.lists /\ v \in l
  <2>1. PICK k \in s.lists : v \in k
    BY DEF Live
  <2>2. l = k
    BY <1>1, <2>1, PeersIsList
  <2> QED BY <2>1, <2>2
<1>3. L \in SUBSET (SUBSET PageId)
  BY <1>1, <1>2 DEF VmRecord
<1>4. NewPage \in PageRecord /\ ~ NewPage.mapped
  BY FrameAssumption DEF NewPage, PageRecord
<1>5. Unlink(s, v) = t
  BY <1>1, UnlinkRelists
<1> HIDE DEF L
<1>6. /\ t \in VmRecord
      /\ t.lists = L /\ t.page[v] = NewPage /\ t.cap[v] = Unmapped
      /\ \A u \in PageId \ {v} : /\ t.page[u] = s.page[u]
                                 /\ t.cap[u] = s.cap[u]
      /\ t.frame = s.frame /\ t.nframes = s.nframes /\ t.disk = s.disk
      /\ t.data = s.data /\ t.swap = s.swap
  BY <1>1, <1>3, <1>4, RelistedFields
<1> HIDE DEF t
<1>7. \A k \in s.lists : k # l => k \cap l = {}
  BY <1>1, <1>2 DEF ListsApart
<1> HIDE DEF l, m
<1>30. \A k : k \in t.lists <=> (k \in s.lists /\ k # l) \/ (k = m /\ m # {})
  BY <1>6 DEF L
<1>31. \A u : u \in m <=> u \in l /\ u # v
  BY DEF m
<1>8. ListsApart(t)
  <2>1. {} \notin t.lists
    BY <1>1, <1>30, <1>31 DEF ListsApart
  <2>2. ASSUME NEW j \in t.lists, NEW k \in t.lists, j # k
        PROVE  j \cap k = {}
    BY <1>1, <1>7, <1>30, <1>31, <2>2 DEF ListsApart
  <2> QED BY <2>1, <2>2 DEF ListsApart
<1>9. Live(t) = Live(s) \ {v}
  <2>1. \A k \in s.lists : k # l => v \notin k
    BY <1>2, <1>7
  <2>2. ASSUME NEW u PROVE u \in Live(t) <=> u \in Live(s) /\ u # v
    BY <1>2, <1>30, <1>31, <2>1 DEF Live
  <2> QED BY <2>2
<1>10. \A u \in m : Peers(t, u) = m
  <2>1. m # {} => m \in t.lists
    BY <1>30
  <2> QED BY <1>8, <2>1, PeersIsList
<1>11. \A u : u \notin l => Peers(t, u) = Peers(s, u)
  <2> SUFFICES ASSUME NEW u, u \notin l PROVE Peers(t, u) = Peers(s, u)
    OBVIOUS
  <2>1. u \notin m
    BY <1>31
  <2>2. ASSUME NEW k, u \in k PROVE k \in t.lists <=> k \in s.lists
    <3>1. k # l /\ k # m
      BY <2>1, <2>2
    <3> QED BY <1>30, <3>1
  <2>3. ASSUME NEW x PROVE x \in Peers(t, u) <=> x \in Peers(s, u)
    BY <2>2 DEF Peers
  <2> QED BY <2>3
<1>12. \A u \in l : Peers(s, u) = l
  BY <1>1, <1>2, PeersIsList
<1>13. \A u, x : u # v /\ x # v => (x \in Peers(t, u) <=> x \in Peers(s, u))
  BY <1>10, <1>11, <1>12, <1>31
<1>14. t.disk.free \subseteq 1..t.disk.size
  BY <1>6 DEF Sound
<1>15. \A u \in PageId \ {v} : /\ u \in Live(t) <=> u \in Live(s)
                               /\ t.page[u] = s.page[u] /\ t.cap[u] = s.cap[u]
  BY <1>6, <1>9
<1>16. ~ t.page[v].mapped /\ t.cap[v] = Unmapped /\ v \notin Live(t)
  BY <1>4, <1>6, <1>9
<1>17. Sound(t)
  BY <1>1, <1>6, <1>8, <1>13, <1>14, <1>15, <1>16, RelistedIsSound
<1> QED BY <1>5, <1>6, <1>9, <1>13, <1>17

-----------------------------------------------------------------------------
(* Deletion *)

LEMMA DelTypes ==
  ASSUME NEW d \in Table, d.free \subseteq 1..d.size, NEW pos \in Nat
  PROVE  /\ Del(d, pos) \in Table
         /\ Del(d, pos).free \subseteq 1..Del(d, pos).size
<1> DEFINE b == BitOf(pos)
           F == IF b \in 1..d.size THEN d.free \cup {b} ELSE d.free
           x == Del(d, pos)
<1>1. b \in Nat
  <2>1. pos + SLOT_SIZE \in Nat
    BY SlotSizeAssumption
  <2> QED BY <2>1 DEF BitOf
<1>2. x = [d EXCEPT !.occupied = @ - 1, !.free = F]
  BY DEF Del
<1> HIDE DEF b
<1>3. F \in SUBSET Nat /\ F \subseteq 1..d.size
  BY <1>1 DEF Table
<1> HIDE DEF F, x
<1>4. d.occupied - 1 \in Int
  BY DEF Table
<1>5. x = [free |-> F, data |-> d.data, occupied |-> d.occupied - 1,
           size |-> d.size, tail |-> d.tail]
  BY <1>2 DEF Table
<1>6. x \in Table /\ x.free \subseteq 1..x.size
  BY <1>3, <1>4, <1>5 DEF Table
<1> QED BY <1>6 DEF x

\* The frame of v named another page of its list.
LEMMA HandOverIsSound ==
  ASSUME NEW s, Sound(s), NEW v \in Live(s), NEW c \in Peers(s, v) \ {v}
  PROVE  LET t == HandOver(s, v, c)
         IN  /\ Sound(t) /\ t.page = s.page /\ t.lists = s.lists
             /\ t.cap = s.cap /\ t.nframes = s.nframes
             /\ \A g \in FrameId :
                  /\ t.frame[g].virtual_id # v
                  /\ t.frame[g].pin = s.frame[g].pin
                  /\ s.frame[g].virtual_id = NULL_SLOT =>
                       t.frame[g].virtual_id = NULL_SLOT
<1> DEFINE f == s.page[v].frame_id
           o == s.frame[f]
           r == [o EXCEPT !.virtual_id = c]
           t == [s EXCEPT !.frame[f] = r]
<1>1. /\ s \in VmRecord /\ v \in PageId /\ c \in PageId
      /\ ListsApart(s) /\ PagesPlaced(s) /\ FramesPlaced(s) /\ CapsTracked(s)
      /\ s.disk.free \subseteq 1..s.disk.size /\ v # NULL_SLOT
  BY LivePages DEF Sound
<1>2. \A g \in FrameId : s.frame[g].virtual_id = v =>
        Resident(s, v) /\ s.page[v].frame_id = g
  <2>1. ASSUME NEW g \in FrameId, s.frame[g].virtual_id = v
        PROVE  s.page[v].frame_id = g
    BY <1>1, <2>1 DEF FramesPlaced
  <2>2. \A g \in FrameId : g > 0 /\ g < DISK_START
    BY FrameAssumption, FrameIds
  <2> QED BY <2>1, <2>2 DEF Resident, HasFrame
<1>3. CASE ~ (Resident(s, v) /\ FrameOf(s, v).virtual_id = v)
  BY <1>2, <1>3 DEF HandOver, FrameOf
<1>4. CASE Resident(s, v) /\ FrameOf(s, v).virtual_id = v
  <2>1. f \in FrameId
    BY <1>1, <1>4 DEF PagesPlaced, Resident
  <2>2. o \in FrameRecord /\ o.virtual_id = v
    BY <1>1, <1>4, <2>1 DEF VmRecord, FrameOf
  <2>3. HandOver(s, v, c) = t
    BY <1>4 DEF HandOver, SetFrame
  <2> HIDE DEF o
  <2>4. /\ r \in FrameRecord /\ r.virtual_id = c
        /\ r.pin = o.pin /\ r.dirty = o.dirty
    BY <1>1, <2>2 DEF FrameRecord
  <2> HIDE DEF r
  <2>5. /\ t \in VmRecord
        /\ \A g \in FrameId : t.frame[g] = IF g = f THEN r ELSE s.frame[g]
        /\ t.page = s.page /\ t.lists = s.lists
        /\ t.nframes = s.nframes /\ t.last = s.last /\ t.disk = s.disk
        /\ t.cap = s.cap
    BY <1>1, <2>1, <2>4, ChangeRecord
  <2> HIDE DEF t
  <2>6. t.frame[f] = r /\ \A g \in FrameId : g # f => t.frame[g] = s.frame[g]
    BY <2>1, <2>5
  <2>7. /\ Live(t) = Live(s) /\ \A u : Peers(t, u) = Peers(s, u)
        /\ \A u : Resident(t, u) <=> Resident(s, u)
    BY <2>5 DEF Live, Peers, Resident, HasFrame
  <2>8. ListsApart(t) /\ PagesPlaced(t)
    BY <1>1, <2>5, <2>7 DEF ListsApart, PagesPlaced
  <2>9. s.frame[f].virtual_id = v /\ s.frame[f].pin = r.pin /\ s.frame[f].dirty = r.dirty
    BY <2>2, <2>4 DEF o
  <2>10. FramesPlaced(t)
    <3>1. ASSUME NEW u \in Live(s), Resident(s, u)
          PROVE  FrameOf(t, u).virtual_id \in Peers(s, u)
      <4>1. s.page[u].frame_id \in FrameId /\ u \in PageId
        BY <1>1, <3>1, LivePages DEF PagesPlaced, Resident
      <4>2. FrameOf(s, u).virtual_id \in Peers(s, u)
        BY <1>1, <3>1 DEF FramesPlaced
      <4>3. CASE s.page[u].frame_id = f
        <5>1. v \in Peers(s, u)
          BY <2>9, <4>2, <4>3 DEF FrameOf
        <5>2. Peers(s, u) = Peers(s, v)
          BY <1>1, <5>1, PeersSymmetric
        <5>3. FrameOf(t, u).virtual_id = c
          BY <2>4, <2>5, <2>6, <4>3 DEF FrameOf
        <5> QED BY <5>2, <5>3
      <4>4. CASE s.page[u].frame_id # f
        BY <2>5, <2>6, <4>1, <4>2, <4>4 DEF FrameOf
      <4> QED BY <4>3, <4>4
    <3>2. ASSUME NEW g \in FrameId, NEW owner, owner = t.frame[g].virtual_id,
                 owner # NULL_SLOT
          PROVE  /\ owner \in Live(s) /\ g <= s.nframes
                 /\ s.page[owner].frame_id = g
      <4>1. CASE g = f
        <5>1. owner = c /\ c \in Live(s)
          BY <1>1, <2>4, <2>6, <3>2, <4>1, PeersSymmetric
        <5>2. s.page[c].frame_id = f
          BY <1>1 DEF PagesPlaced
        <5>3. f <= s.nframes
          BY <1>1, <2>1, <2>9 DEF FramesPlaced
        <5> QED BY <4>1, <5>1, <5>2, <5>3
      <4>2. CASE g # f
        BY <1>1, <2>6, <3>2, <4>2 DEF FramesPlaced
      <4> QED BY <4>1, <4>2
    <3> QED BY <2>5, <2>7, <3>1, <3>2 DEF FramesPlaced
  <2>11. CapsTracked(t)
    <3> SUFFICES ASSUME NEW u \in PageId
                 PROVE  /\ t.page[u].mapped <=> t.cap[u].to # 0
                        /\ t.cap[u].write => /\ Resident(t, u)
                                             /\ t.cap[u].to = t.page[u].frame_id
                                             /\ FrameOf(t, u).dirty
      BY DEF CapsTracked
    <3>1. /\ s.page[u].mapped <=> s.cap[u].to # 0
          /\ s.cap[u].write => /\ Resident(s, u)
                               /\ s.cap[u].to = s.page[u].frame_id
                               /\ FrameOf(s, u).dirty
      BY <1>1 DEF CapsTracked
    <3>2. Resident(s, u) => FrameOf(t, u).dirty = FrameOf(s, u).dirty
      <4>1. Resident(s, u) => s.page[u].frame_id \in FrameId
        BY <1>1 DEF PagesPlaced, Resident
      <4> QED BY <2>5, <2>6, <2>9, <4>1 DEF FrameOf
    <3> QED BY <2>5, <2>7, <3>1, <3>2
  <2>12. Sound(t)
    BY <1>1, <2>5, <2>8, <2>10, <2>11 DEF Sound
  <2>13. ASSUME NEW g \in FrameId
         PROVE  /\ t.frame[g].virtual_id # v
                /\ t.frame[g].pin = s.frame[g].pin
                /\ s.frame[g].virtual_id = NULL_SLOT =>
                       t.frame[g].virtual_id = NULL_SLOT
    <3>1. CASE g = f
      BY <1>1, <2>4, <2>6, <2>9, <3>1
    <3>2. CASE g # f
      BY <1>2, <2>6, <3>2
    <3> QED BY <3>1, <3>2
  <2> QED BY <2>3, <2>5, <2>12, <2>13
<1> QED BY <1>3, <1>4

\* What is deleted with the last page of a list: its frame or its block.
LEMMA LastIsDeleted ==
  ASSUME NEW s, Sound(s), NEW v \in Live(s), Peers(s, v) = {v}
  PROVE  LET t == Unlink(FreeStorage(s, v), v)
         IN  /\ Sound(t) /\ t.nframes = s.nframes
             /\ \A u \in PageId \ {v} : t.page[u] = s.page[u]
             /\ Live(t) = Live(s) \ {v}
             /\ \A u, x \in Live(t) : x \in Peers(t, u) <=> x \in Peers(s, u)
             /\ \A g \in FrameId :
                  /\ g # s.page[v].frame_id => t.frame[g] = s.frame[g]
                  /\ g = s.page[v].frame_id => /\ t.frame[g].virtual_id = NULL_SLOT
                                               /\ ~ t.frame[g].pin
<1> DEFINE id == s.page[v].frame_id
           t == Unlink(FreeStorage(s, v), v)
<1>1. /\ s \in VmRecord /\ v \in PageId
      /\ ListsApart(s) /\ PagesPlaced(s) /\ FramesPlaced(s) /\ CapsTracked(s)
      /\ s.disk \in Table /\ s.disk.free \subseteq 1..s.disk.size
      /\ v # NULL_SLOT /\ id \in Nat
  <2>1. s \in VmRecord /\ v \in PageId /\ v # NULL_SLOT
    BY LivePages DEF Sound
  <2>2. s.page[v] \in PageRecord /\ s.disk \in Table
    BY <2>1 DEF VmRecord
  <2>3. id \in Nat
    BY <2>2, FrameAssumption DEF PageRecord
  <2> QED BY <2>1, <2>2, <2>3 DEF Sound
<1>2. \A g \in FrameId : s.frame[g].virtual_id = v => id = g
  BY <1>1 DEF FramesPlaced
<1>3. CASE id = 0
  <2>1. FreeStorage(s, v) = s
    BY <1>3, FrameAssumption DEF FreeStorage
  <2>2. \A g \in FrameId : g # 0
    BY FrameIds
  <2>3. /\ Sound(t) /\ t.frame = s.frame /\ t.nframes = s.nframes
        /\ \A u \in PageId \ {v} : t.page[u] = s.page[u]
        /\ Live(t) = Live(s) \ {v}
        /\ \A u, x \in Live(t) : x \in Peers(t, u) <=> x \in Peers(s, u)
    BY <1>2, <1>3, <2>1, <2>2, UnlinkIsSound
  <2> QED BY <1>3, <2>2, <2>3
<1>4. CASE id >= DISK_START
  <2> DEFINE d == Del(s.disk, id)
             b == [s EXCEPT !.disk = d]
  <2>1. FreeStorage(s, v) = b
    <3>1. id # 0
      BY <1>1, <1>4, FrameAssumption
    <3> QED BY <1>4, <3>1 DEF FreeStorage
  <2>2. d \in Table /\ d.free \subseteq 1..d.size
    BY <1>1, DelTypes
  <2> HIDE DEF d
  <2>3. /\ b \in VmRecord /\ b.disk = d
        /\ b.page = s.page /\ b.lists = s.lists /\ b.frame = s.frame
        /\ b.nframes = s.nframes /\ b.cap = s.cap
    BY <1>1, <2>2, ChangeDisk
  <2> HIDE DEF b
  <2>4. s.nframes <= b.nframes /\ b.disk.free \subseteq 1..b.disk.size
    BY <1>1, <2>2, <2>3, FrameAssumption DEF VmRecord
  <2>5. Sound(b)
    BY <2>3, <2>4, StaysSound
  <2>6. Live(b) = Live(s) /\ \A u : Peers(b, u) = Peers(s, u)
    BY <2>3 DEF Live, Peers
  <2>7. \A g \in FrameId : g # id
    BY <1>1, <1>4, FrameIds, FrameAssumption
  <2>8. \A g \in FrameId : b.frame[g].virtual_id # v
    BY <1>2, <2>3, <2>7
  <2>9. /\ Sound(t) /\ t.frame = b.frame /\ t.nframes = b.nframes
        /\ \A u \in PageId \ {v} : t.page[u] = b.page[u]
        /\ Live(t) = Live(b) \ {v}
        /\ \A u, x \in Live(t) : x \in Peers(t, u) <=> x \in Peers(b, u)
    BY <2>1, <2>5, <2>6, <2>8, UnlinkIsSound
  <2> QED BY <2>3, <2>6, <2>7, <2>9
<1>5. CASE id # 0 /\ id < DISK_START
  <2> DEFINE r == [NewFrame EXCEPT !.pin = FALSE, !.considered = TRUE]
             d == Del(s.disk, 0)
             a == [s EXCEPT !.frame[id] = r]
             b == [a EXCEPT !.disk = d]
             w == Relisted(b, v, NewPage, s.lists)
  <2>1. id \in FrameId /\ Resident(s, v)
    <3>1. Resident(s, v)
      BY <1>1, <1>5 DEF Resident, HasFrame
    <3> QED BY <1>1, <3>1 DEF PagesPlaced, Resident
  <2>2. FreeStorage(s, v) = b
    <3>1. ~ id >= DISK_START
      BY <1>1, <1>5, FrameAssumption
    <3>2. FreeStorage(s, v) = [s EXCEPT !.frame[id] = r, !.disk = Del(@, 0)]
      BY <1>5, <3>1 DEF FreeStorage
    <3> QED BY <3>2
  <2>3. /\ r \in FrameRecord /\ r.virtual_id = NULL_SLOT /\ ~ r.pin
        /\ ~ r.dirty
    <3> DEFINE q == [NewFrame EXCEPT !.pin = FALSE]
    <3>1. r = [q EXCEPT !.considered = TRUE]
      OBVIOUS
    <3>2. /\ q \in FrameRecord /\ q.virtual_id = NULL_SLOT
          /\ q.pin = FALSE /\ q.dirty = FALSE
      <4>1. q \in FrameRecord /\ q.virtual_id = NULL_SLOT
        BY NewFrameIsRecord
      <4>2. q.pin = FALSE /\ q.dirty = FALSE
        BY DEF NewFrame
      <4> QED BY <4>1, <4>2
    <3> HIDE DEF q, r
    <3>3. /\ r \in FrameRecord /\ r.virtual_id = q.virtual_id
          /\ r.pin = q.pin /\ r.dirty = q.dirty
      BY <3>1, <3>2 DEF FrameRecord
    <3> QED BY <3>2, <3>3
  <2>4. d \in Table /\ d.free \subseteq 1..d.size
    BY <1>1, DelTypes
  <2> HIDE DEF r, d
  <2>5. /\ a \in VmRecord
        /\ \A g \in FrameId : a.frame[g] = IF g = id THEN r ELSE s.frame[g]
        /\ a.page = s.page /\ a.lists = s.lists
        /\ a.nframes = s.nframes /\ a.last = s.last /\ a.disk = s.disk
        /\ a.cap = s.cap
    BY <1>1, <2>1, <2>3, ChangeRecord
  <2> HIDE DEF a
  <2>6. /\ b \in VmRecord /\ b.disk = d
        /\ b.page = a.page /\ b.lists = a.lists /\ b.frame = a.frame
        /\ b.nframes = a.nframes /\ b.cap = a.cap
    BY <2>4, <2>5, ChangeDisk
  <2> HIDE DEF b
  <2>7. NewPage \in PageRecord /\ s.lists \in SUBSET (SUBSET PageId)
    BY <1>1, FrameAssumption DEF NewPage, PageRecord, VmRecord
  <2>8. /\ w \in VmRecord
        /\ w.lists = s.lists /\ w.page[v] = NewPage /\ w.cap[v] = Unmapped
        /\ \A u \in PageId \ {v} : /\ w.page[u] = s.page[u]
                                   /\ w.cap[u] = s.cap[u]
        /\ w.frame = b.frame /\ w.nframes = s.nframes /\ w.disk = d
    BY <1>1, <2>5, <2>6, <2>7, RelistedFields
  <2>9. \A g \in FrameId : w.frame[g] = IF g = id THEN r ELSE s.frame[g]
    BY <2>5, <2>6, <2>8
  <2>10. Unlink(b, v) = Unlink(w, v)
    <3> DEFINE L == (s.lists \ {Peers(s, v)}) \cup ({Peers(s, v) \ {v}} \ {{}})
    <3>1. Peers(b, v) = Peers(s, v) /\ Peers(w, v) = Peers(s, v)
      BY <2>5, <2>6, <2>8 DEF Peers
    <3>2. Unlink(b, v) = Relisted(b, v, NewPage, L)
      <4>1. Unlink(b, v) =
              Relisted(b, v, NewPage, (b.lists \ {Peers(b, v)})
                                        \cup ({Peers(b, v) \ {v}} \ {{}}))
        BY <1>1, <2>6, UnlinkRelists
      <4>2. b.lists = s.lists
        BY <2>5, <2>6
      <4> QED BY <3>1, <4>1, <4>2
    <3>3. Unlink(w, v) = Relisted(w, v, NewPage, L)
      <4>1. Unlink(w, v) =
              Relisted(w, v, NewPage, (w.lists \ {Peers(w, v)})
                                        \cup ({Peers(w, v) \ {v}} \ {{}}))
        BY <1>1, <2>8, UnlinkRelists
      <4> QED BY <2>8, <3>1, <4>1
    <3> HIDE DEF L
    <3>4. Relisted(b, v, NewPage, L) = Relisted(w, v, NewPage, L)
      BY DEF Relisted
    <3> QED BY <3>2, <3>3, <3>4
  <2> HIDE DEF w
  <2>11. 0 \in Elsewhere
    BY DEF Elsewhere
  <2>12. \A u \in PageId : s.page[u].frame_id = id <=> u = v
    <3>1. v \in Peers(s, s.frame[id].virtual_id)
      BY <1>1, <2>1, PagesOnFrame
    <3>2. Peers(s, s.frame[id].virtual_id) = {v}
      BY <1>1, <3>1, PeersSymmetric
    <3> QED BY <2>1, <3>2, PagesOnFrame
  <2>13. ASSUME NEW u \in PageId
         PROVE  IF s.page[u].frame_id = id
                THEN /\ w.page[u].frame_id = 0
                     /\ w.page[u].mapped <=> w.cap[u].to # 0
                     /\ ~ w.cap[u].write
                ELSE w.page[u] = s.page[u] /\ w.cap[u] = s.cap[u]
    <3>1. CASE u = v
      BY <2>8, <3>1 DEF NewPage, Unmapped
    <3>2. CASE u # v
      BY <2>8, <2>12, <3>2
    <3> QED BY <3>1, <3>2
  <2>14. Sound(w)
    <3>1. \A g \in FrameId \ {id} :
            /\ w.frame[g].virtual_id = s.frame[g].virtual_id
            /\ w.frame[g].dirty = s.frame[g].dirty
      BY <2>9
    <3>2. w.frame[id].virtual_id = NULL_SLOT /\ w.disk.free \subseteq 1..w.disk.size
      BY <2>1, <2>3, <2>4, <2>8, <2>9
    <3> QED BY <2>1, <2>8, <2>11, <2>13, <3>1, <3>2, VacatedIsSound
  <2>15. Live(w) = Live(s) /\ \A u : Peers(w, u) = Peers(s, u)
    BY <2>8 DEF Live, Peers
  <2>16. \A g \in FrameId : w.frame[g].virtual_id # v
    BY <1>1, <1>2, <2>3, <2>9
  <2>17. /\ Sound(t) /\ t.frame = w.frame /\ t.nframes = w.nframes
         /\ \A u \in PageId \ {v} : t.page[u] = w.page[u]
         /\ Live(t) = Live(w) \ {v}
         /\ \A u, x \in Live(t) : x \in Peers(t, u) <=> x \in Peers(w, u)
    BY <2>2, <2>10, <2>14, <2>15, <2>16, UnlinkIsSound
  <2> QED BY <2>3, <2>8, <2>9, <2>15, <2>17
<1> QED BY <1>1, <1>3, <1>4, <1>5, FrameAssumption


-----------------------------------------------------------------------------
(* The inductive invariant *)

Queued == SeqSet(loop.frames)

\* The pages of the array that the loop at work has been at, when it requests
\* frames, or has yet to come to, when it swaps in.
Scope ==
  CASE loop.phase = "request" -> Arr \ SeqSet(loop.todo)
    [] loop.phase = "swapin"  -> SeqSet(loop.todo)
    [] OTHER -> {}

\* Those a frame was queued for.
Missing == {v \in Scope : ~ Resident(vm, v)}

VariablesTyped ==
  /\ loop \in [phase : {"idle", "request", "swapin", "held"},
               arr : Seq(PageId), todo : Seq(PageId), frames : Seq(FrameId)]
  /\ pinned \subseteq PageId
  /\ written \in [PageId -> Value \cup {Unwritten}]
  /\ deletes \in 0..MaxDeletes

\* Where VirtualFrame__pinPageArr is in its array.
LoopRuns ==
  /\ loop.phase = "idle" => loop = Idle
  /\ loop.phase = "held" => loop.todo = <<>> /\ loop.frames = <<>>
  /\ loop.phase \in {"request", "swapin"} =>
       /\ loop.todo # <<>>
       /\ SeqSet(loop.todo) \subseteq Arr
       /\ Distinct(loop.todo) /\ Distinct(loop.arr)

\* Clients pin a list at most once, and no more than PinLimit.
PinnedApart ==
  /\ PinnedPages \subseteq Live(vm)
  /\ IsFiniteSet(PinnedPages) /\ Cardinality(PinnedPages) <= PinLimit
  /\ \A v, w \in PinnedPages : w \in Peers(vm, v) => v = w
  /\ pinned \cap Arr = {}

\* A frame stays pinned only for a page that is, or while it is queued.
PinnedHeld ==
  \A f \in FrameId :
    f <= vm.nframes /\ vm.frame[f].pin =>
      \/ f \in Queued
      \/ \E v \in PinnedPages : vm.page[v].frame_id = f

\* The queue holds as many frames as there are pages to bring in, each of
\* them free; while more are requested, the clock comes by all others first,
\* and the pages that had frames are pinned.
FramesQueued ==
  /\ Distinct(loop.frames)
  /\ \A f \in Queued : vm.frame[f].virtual_id = NULL_SLOT /\ f <= vm.nframes
  /\ Len(loop.frames) = Cardinality(Missing)
  /\ loop.phase = "request" =>
       /\ ClockPasses(vm, Queued)
       /\ \A v \in Scope : Resident(vm, v) => FrameOf(vm, v).pin

Inv ==
  /\ VariablesTyped /\ Sound(vm) /\ LoopRuns
  /\ PinnedApart /\ PinnedStays /\ PinnedHeld /\ FramesQueued

-----------------------------------------------------------------------------
(* Queues without repetition *)

LEMMA SeqSetOfEmpty == SeqSet(<<>>) = {} /\ Distinct(<<>>)
BY DEF SeqSet, Distinct

LEMMA TailOfDistinct ==
  ASSUME NEW T, NEW q \in Seq(T), q # <<>>, Distinct(q)
  PROVE  /\ Tail(q) \in Seq(T) /\ Distinct(Tail(q))
         /\ Head(q) \in SeqSet(q) /\ Head(q) \in T
         /\ SeqSet(Tail(q)) = SeqSet(q) \ {Head(q)}
         /\ Len(Tail(q)) = Len(q) - 1
<1> DEFINE n == Len(q)
           p == Tail(q)
<1>1. n \in Nat /\ n > 0 /\ DOMAIN q = 1..n
  OBVIOUS
<1>2. /\ p \in Seq(T) /\ Len(p) = n - 1 /\ Head(q) = q[1]
      /\ DOMAIN p = 1..(n - 1)
      /\ \A i \in 1..(n - 1) : p[i] = q[i + 1]
  BY <1>1
<1> HIDE DEF n, p
<1>3. \A i, j \in 1..n : i # j => q[i] # q[j]
  BY <1>1 DEF Distinct
<1>4. Distinct(p)
  <2> SUFFICES ASSUME NEW i \in 1..(n - 1), NEW j \in 1..(n - 1), i # j
               PROVE  p[i] # p[j]
    BY <1>2 DEF Distinct
  <2>1. i + 1 \in 1..n /\ j + 1 \in 1..n /\ i + 1 # j + 1
    BY <1>1
  <2> QED BY <1>2, <1>3, <2>1
<1>5. SeqSet(p) \subseteq SeqSet(q) \ {Head(q)}
  <2> SUFFICES ASSUME NEW i \in 1..(n - 1)
               PROVE  p[i] \in SeqSet(q) /\ p[i] # Head(q)
    BY <1>2 DEF SeqSet
  <2>1. i + 1 \in 1..n /\ 1 \in 1..n /\ i + 1 # 1
    BY <1>1
  <2> QED BY <1>1, <1>2, <1>3, <2>1 DEF SeqSet
<1>6. SeqSet(q) \ {Head(q)} \subseteq SeqSet(p)
  <2> SUFFICES ASSUME NEW i \in 1..n, q[i] # q[1]
               PROVE  q[i] \in SeqSet(p)
    BY <1>1, <1>2 DEF SeqSet
  <2>1. i - 1 \in 1..(n - 1) /\ (i - 1) + 1 = i
    BY <1>1
  <2>2. p[i - 1] = q[i]
    BY <1>2, <2>1
  <2> QED BY <1>2, <2>1, <2>2 DEF SeqSet
<1>7. Head(q) \in SeqSet(q) /\ Head(q) \in T
  <2>1. 1 \in 1..n
    BY <1>1
  <2> QED BY <1>1, <1>2, <2>1 DEF SeqSet
<1> QED BY <1>2, <1>4, <1>5, <1>6, <1>7 DEF n, p

LEMMA AppendToDistinct ==
  ASSUME NEW T, NEW q \in Seq(T), NEW x \in T, Distinct(q), x \notin SeqSet(q)
  PROVE  /\ Append(q, x) \in Seq(T) /\ Distinct(Append(q, x))
         /\ SeqSet(Append(q, x)) = SeqSet(q) \cup {x}
         /\ Len(Append(q, x)) = Len(q) + 1
<1> DEFINE n == Len(q)
           p == Append(q, x)
<1>1. n \in Nat /\ DOMAIN q = 1..n
  OBVIOUS
<1>2. /\ p \in Seq(T) /\ Len(p) = n + 1 /\ p[n + 1] = x
      /\ DOMAIN p = 1..(n + 1)
      /\ \A i \in 1..n : p[i] = q[i]
  BY <1>1
<1> HIDE DEF n, p
<1>3. \A i \in 1..n : p[i] # x
  BY <1>1, <1>2 DEF SeqSet
<1>4. \A i \in 1..(n + 1) : i \in 1..n \/ i = n + 1
  BY <1>1
<1>5. Distinct(p)
  <2> SUFFICES ASSUME NEW i \in 1..(n + 1), NEW j \in 1..(n + 1), i # j
               PROVE  p[i] # p[j]
    BY <1>2 DEF Distinct
  <2>1. CASE i \in 1..n /\ j \in 1..n
    BY <1>1, <1>2, <2>1 DEF Distinct
  <2>2. CASE i = n + 1 \/ j = n + 1
    BY <1>2, <1>3, <1>4, <2>2
  <2> QED BY <1>4, <2>1, <2>2
<1>6. SeqSet(p) = SeqSet(q) \cup {x}
  <2>1. ASSUME NEW i \in 1..(n + 1) PROVE p[i] \in SeqSet(q) \cup {x}
    BY <1>1, <1>2, <1>4 DEF SeqSet
  <2>2. ASSUME NEW i \in 1..n PROVE q[i] \in SeqSet(p)
    <3>1. i \in 1..(n + 1)
      BY <1>1
    <3> QED BY <1>2, <3>1 DEF SeqSet
  <2>3. x \in SeqSet(p)
    <3>1. n + 1 \in 1..(n + 1)
      BY <1>1
    <3> QED BY <1>2, <3>1 DEF SeqSet
  <2>4. SeqSet(p) \subseteq SeqSet(q) \cup {x}
    BY <1>2, <2>1 DEF SeqSet
  <2>5. SeqSet(q) \subseteq SeqSet(p)
    BY <1>1, <2>2 DEF SeqSet
  <2> QED BY <2>3, <2>4, <2>5
<1> QED BY <1>2, <1>5, <1>6 DEF n, p

\* A queue holds no more elements than its length, and as many if distinct.
LEMMA SeqSetSize ==
  ASSUME NEW T, NEW q \in Seq(T)
  PROVE  /\ IsFiniteSet(SeqSet(q)) /\ Cardinality(SeqSet(q)) \in Nat
         /\ Cardinality(SeqSet(q)) <= Len(q)
<1> DEFINE n == Len(q)
           g == [i \in 1..n |-> q[i]]
<1>1. n \in Nat /\ DOMAIN q = 1..n
  OBVIOUS
<1> HIDE DEF n
<1>2. IsFiniteSet(1..n) /\ Cardinality(1..n) = n
  <2>1. 1 \in Int /\ n \in Int /\ (1 > n => n = 0) /\ n - 1 + 1 = n
    BY <1>1
  <2> QED BY <2>1, FS_Interval
<1>3. g \in Surjection(1..n, SeqSet(q))
  BY <1>1 DEF Surjection, SeqSet
<1>4. IsFiniteSet(SeqSet(q)) /\ Cardinality(SeqSet(q)) <= Cardinality(1..n)
  BY <1>2, <1>3, FS_Surjection
<1>5. Cardinality(SeqSet(q)) \in Nat
  BY <1>4, FS_CardinalityType
<1> QED BY <1>2, <1>4, <1>5 DEF n

-----------------------------------------------------------------------------
(* Calls of the interface while no array is being pinned *)

LEMMA IdleQueue ==
  ASSUME Inv, Callable
  PROVE  /\ loop.frames = <<>> /\ loop.todo = <<>>
         /\ Queued = {} /\ Scope = {} /\ Missing = {}
         /\ ~ (loop.phase = "request") /\ ~ (loop.phase = "swapin")
<1>1. CASE loop.phase = "idle"
  <2>1. loop = Idle
    BY <1>1 DEF Inv, LoopRuns
  <2> QED BY <1>1, <2>1, SeqSetOfEmpty DEF Idle, Queued, Scope, Missing
<1>2. CASE loop.phase = "held"
  <2>1. loop.frames = <<>> /\ loop.todo = <<>>
    BY <1>2 DEF Inv, LoopRuns
  <2> QED BY <1>2, <2>1, SeqSetOfEmpty DEF Queued, Scope, Missing
<1> QED BY <1>1, <1>2 DEF Callable

\* What a call has to keep: the loop and its queue are not concerned.
LEMMA CallKeeps ==
  ASSUME Inv, Callable, loop' = loop,
         VariablesTyped', Sound(vm'), PinnedApart', PinnedStays', PinnedHeld'
  PROVE  Inv'
<1>1. /\ loop.frames = <<>> /\ Queued = {} /\ Scope = {}
      /\ ~ (loop.phase = "request") /\ ~ (loop.phase = "swapin")
  BY IdleQueue
<1>2. LoopRuns'
  <2>1. LoopRuns
    BY DEF Inv
  <2> QED BY <2>1 DEF LoopRuns, Arr
<1>3. Queued' = {} /\ Scope' = {}
  BY <1>1 DEF Queued, Scope, Arr
<1>4. Missing' = {}
  BY <1>3 DEF Missing
<1>5. Len(loop'.frames) = Cardinality(Missing')
  <2>1. Len(loop'.frames) = 0
    BY <1>1
  <2> QED BY <1>4, <2>1, FS_EmptySet
<1>6. Distinct(loop'.frames)
  BY <1>1, SeqSetOfEmpty
<1>7. FramesQueued'
  BY <1>1, <1>3, <1>5, <1>6 DEF FramesQueued
<1> QED BY <1>2, <1>7 DEF Inv

LEMMA FrameNumbers ==
  \A f \in FrameId : f \in Nat /\ f > 0 /\ f < DISK_START
BY FrameIds, FrameAssumption

\* Pinned pages stay in their frames, and no further frame is pinned.
PinsKept(s, t) ==
  /\ \A w \in PageId : Resident(s, w) /\ FrameOf(s, w).pin =>
       t.page[w].frame_id = s.page[w].frame_id /\ FrameOf(t, w).pin
  /\ \A g \in FrameId : g <= t.nframes /\ t.frame[g].pin =>
       g <= s.nframes /\ s.frame[g].pin

LEMMA PinsKeptStay ==
  ASSUME PinnedStays, pinned \subseteq PageId, PinsKept(vm, vm')
  PROVE  \A w \in pinned : Resident(vm', w) /\ FrameOf(vm', w).pin
BY DEF PinnedStays, PinsKept, Resident, HasFrame

LEMMA PinsKeptHold ==
  ASSUME Inv, PinsKept(vm, vm'), Queued \subseteq Queued',
         PinnedPages \subseteq PinnedPages'
  PROVE  PinnedHeld'
<1>1. PinnedPages \subseteq PageId /\ PinnedHeld
  BY LivePages DEF Inv, PinnedApart, Sound
<1> SUFFICES ASSUME NEW f \in FrameId, f <= vm'.nframes, vm'.frame[f].pin
             PROVE  \/ f \in Queued'
                    \/ \E v \in PinnedPages' : vm'.page[v].frame_id = f
  BY DEF PinnedHeld
<1>2. f <= vm.nframes /\ vm.frame[f].pin
  BY DEF PinsKept
<1>3. f \in Queued \/ \E v \in PinnedPages : vm.page[v].frame_id = f
  BY <1>1, <1>2 DEF PinnedHeld
<1>4. CASE f \in Queued
  BY <1>4
<1>5. CASE \E v \in PinnedPages : vm.page[v].frame_id = f
  <2>1. PICK v \in PinnedPages : vm.page[v].frame_id = f
    BY <1>5
  <2>2. Resident(vm, v) /\ FrameOf(vm, v).pin
    BY <1>2, <2>1, FrameNumbers DEF Resident, HasFrame, FrameOf
  <2>3. vm'.page[v].frame_id = f
    BY <1>1, <2>1, <2>2 DEF PinsKept
  <2> QED BY <2>1, <2>3
<1> QED BY <1>3, <1>4, <1>5

LEMMA SameListsApart ==
  ASSUME Inv, vm'.lists = vm.lists, loop' = loop, pinned' = pinned
  PROVE  PinnedApart'
<1>1. PinnedApart
  BY DEF Inv
<1>2. PinnedPages' = PinnedPages /\ Arr' = Arr
  BY DEF PinnedPages, Arr
<1>3. Live(vm') = Live(vm) /\ \A v : Peers(vm', v) = Peers(vm, v)
  BY DEF Live, Peers
<1> QED BY <1>1, <1>2, <1>3 DEF PinnedApart

\* A call that brings a page into a frame and pins none.
LEMMA BringingKeeps ==
  ASSUME Inv, Callable, UNCHANGED <<loop, pinned>>,
         VariablesTyped', Sound(vm'), vm'.lists = vm.lists, PinsKept(vm, vm')
  PROVE  Inv'
<1>1. PinnedApart'
  BY SameListsApart
<1>2. PinnedStays'
  BY PinsKeptStay DEF Inv, VariablesTyped, PinnedStays
<1>3. PinnedHeld'
  <2>1. Queued' = Queued /\ PinnedPages' = PinnedPages
    BY DEF Queued, PinnedPages, Arr
  <2> QED BY <2>1, PinsKeptHold
<1> QED BY <1>1, <1>2, <1>3, CallKeeps

LEMMA BroughtKeepsPins ==
  ASSUME NEW s, NEW t, NEW v, Brought(s, t, v)
  PROVE  PinsKept(s, t)
BY DEF Brought, PinsKept

\* A mark that is not a pin, or a write, after a page was brought.
LEMMA MarkKeepsPins ==
  ASSUME NEW s, Sound(s), NEW u, PinsKept(s, u), NEW t, t.nframes = u.nframes,
         \A w \in PageId : t.page[w].frame_id = u.page[w].frame_id,
         \A g \in FrameId : /\ t.frame[g].pin => u.frame[g].pin
                            /\ u.frame[g].pin => t.frame[g].pin
  PROVE  PinsKept(s, t)
<1>1. \A w \in PageId : Resident(s, w) => s.page[w].frame_id \in FrameId
  BY DEF Sound, PagesPlaced, Resident
<1>2. ASSUME NEW w \in PageId, Resident(s, w), FrameOf(s, w).pin
      PROVE  t.page[w].frame_id = s.page[w].frame_id /\ FrameOf(t, w).pin
  <2>1. u.page[w].frame_id = s.page[w].frame_id /\ FrameOf(u, w).pin
    BY <1>2 DEF PinsKept
  <2>2. t.page[w].frame_id = u.page[w].frame_id /\ s.page[w].frame_id \in FrameId
    BY <1>1, <1>2
  <2>3. FrameOf(u, w).pin => FrameOf(t, w).pin
    BY <2>1, <2>2 DEF FrameOf
  <2> QED BY <2>1, <2>2, <2>3
<1>3. ASSUME NEW g \in FrameId, g <= t.nframes, t.frame[g].pin
      PROVE  g <= s.nframes /\ s.frame[g].pin
  <2>1. u.frame[g].pin
    BY <1>3
  <2> QED BY <1>3, <2>1 DEF PinsKept
<1> QED BY <1>2, <1>3 DEF PinsKept

LEMMA GetVaddrKeeps ==
  ASSUME Inv, NEW v \in PageId, GetVaddrByPageRef(v)
  PROVE  Inv'
<1>1. Brought(vm, vm', v)
  BY RequestPageBrings DEF GetVaddrByPageRef, Inv
<1>2. VariablesTyped'
  BY DEF GetVaddrByPageRef, Inv, VariablesTyped
<1>3. PinsKept(vm, vm') /\ Sound(vm') /\ vm'.lists = vm.lists
  BY <1>1, BroughtKeepsPins DEF Brought
<1> QED BY <1>2, <1>3, BringingKeeps DEF GetVaddrByPageRef

\* The page cache after RequestPage and the dirty bit.
LEMMA DirtiedFields ==
  ASSUME Inv, NEW v \in PageId, Servable(vm, v),
         NEW t, t = SetFrame(RequestPage(vm, v), v, "dirty", TRUE)
  PROVE  /\ Sound(t) /\ PinsKept(vm, t) /\ t.lists = vm.lists
         /\ t.page[v].frame_id \in FrameId
<1> DEFINE u == RequestPage(vm, v)
           f == u.page[v].frame_id
<1>1. Sound(vm)
  BY DEF Inv
<1>2. Brought(vm, u, v)
  BY <1>1, RequestPageBrings
<1> HIDE DEF u
<1>3. Sound(u) /\ f \in FrameId /\ u.lists = vm.lists /\ PinsKept(vm, u)
  BY <1>2, BroughtKeepsPins DEF Brought
<1> DEFINE x == Dirtied(u, v)
<1>4. /\ Sound(x) /\ x.page = u.page /\ x.lists = u.lists
      /\ x.nframes = u.nframes
      /\ \A g \in FrameId \ {f} : x.frame[g] = u.frame[g]
      /\ x.frame[f].pin => u.frame[f].pin
      /\ u.frame[f].pin => x.frame[f].pin
  BY <1>3, DirtyFrame
<1>7. t = x
  BY DEF u, Dirtied
<1> HIDE DEF x
<1>5. ASSUME NEW g \in FrameId 
      PROVE  /\ x.frame[g].pin => u.frame[g].pin
             /\ u.frame[g].pin => x.frame[g].pin
  <2>1. CASE g = f
    BY <1>4, <2>1
  <2>2. CASE g # f
    BY <1>4, <2>2
  <2> QED BY <2>1, <2>2
<1>6. PinsKept(vm, x)
  BY <1>1, <1>3, <1>4, <1>5, MarkKeepsPins
<1> QED BY <1>3, <1>4, <1>6, <1>7

LEMMA MarkPageDirtyKeeps ==
  ASSUME Inv, NEW v \in PageId, MarkPageDirty(v)
  PROVE  Inv'
<1>1. Sound(vm') /\ PinsKept(vm, vm') /\ vm'.lists = vm.lists
  BY DirtiedFields DEF MarkPageDirty
<1>2. VariablesTyped'
  BY DEF MarkPageDirty, Inv, VariablesTyped
<1> QED BY <1>1, <1>2, BringingKeeps DEF MarkPageDirty

LEMMA WroteTyped ==
  ASSUME VariablesTyped, NEW v, NEW x \in Value
  PROVE  Wrote(v, x) \in [PageId -> Value \cup {Unwritten}]
BY DEF VariablesTyped, Wrote

LEMMA StoreKeeps ==
  ASSUME Inv, NEW v \in PageId, NEW x \in Value, Store(v, x)
  PROVE  Inv'
<1> DEFINE s == SetFrame(RequestPage(vm, v), v, "dirty", TRUE)
           f == s.page[v].frame_id
<1>1. /\ Callable /\ Servable(vm, v) /\ vm' = [s EXCEPT !.data[f] = x]
      /\ written' = Wrote(v, x) /\ UNCHANGED <<loop, pinned, deletes>>
  BY DEF Store
<1>2. /\ Sound(s) /\ PinsKept(vm, s) /\ s.lists = vm.lists
      /\ s.page[v].frame_id \in FrameId
  BY <1>1, DirtiedFields
<1> HIDE DEF s
<1>3. /\ Sound(vm') /\ vm'.page = s.page /\ vm'.lists = s.lists
      /\ vm'.frame = s.frame /\ vm'.nframes = s.nframes
  BY <1>1, <1>2, WriteIsSound
<1>4. PinsKept(vm, vm')
  BY <1>2, <1>3, MarkKeepsPins DEF Inv
<1>5. VariablesTyped'
  <2>1. VariablesTyped
    BY DEF Inv
  <2> QED BY <1>1, <2>1, WroteTyped DEF VariablesTyped
<1> QED BY <1>1, <1>2, <1>3, <1>4, <1>5, BringingKeeps

LEMMA AppStoreKeeps ==
  ASSUME Inv, NEW v \in PageId, NEW x \in Value, AppStore(v, x)
  PROVE  Inv'
<1> DEFINE f == vm.cap[v].to
<1>1. /\ Callable /\ vm.cap[v].write /\ vm' = [vm EXCEPT !.data[f] = x]
      /\ written' = Wrote(v, x) /\ UNCHANGED <<loop, pinned, deletes>>
  BY DEF AppStore
<1>2. Sound(vm)
  BY DEF Inv
<1>3. f \in FrameId
  BY <1>1, <1>2 DEF Sound, CapsTracked, PagesPlaced, Resident
<1>4. /\ Sound(vm') /\ vm'.page = vm.page /\ vm'.lists = vm.lists
      /\ vm'.frame = vm.frame /\ vm'.nframes = vm.nframes
  BY <1>1, <1>2, <1>3, WriteIsSound
<1>5. PinsKept(vm, vm)
  BY DEF PinsKept
<1>6. PinsKept(vm, vm')
  BY <1>2, <1>4, <1>5, MarkKeepsPins
<1>7. VariablesTyped'
  <2>1. VariablesTyped
    BY DEF Inv
  <2> QED BY <1>1, <2>1, WroteTyped DEF VariablesTyped
<1> QED BY <1>1, <1>4, <1>6, <1>7, BringingKeeps

LEMMA GetMapContextKeeps ==
  ASSUME Inv, NEW v \in PageId, GetMapContext(v)
  PROVE  Inv'
<1> DEFINE u == RequestPage(vm, v)
           f == u.page[v].frame_id
           x == Renewed(u, v)
<1>1. /\ Callable /\ Servable(vm, v) /\ vm' = Mapped(x, v)
      /\ UNCHANGED <<loop, pinned, written, deletes>>
  BY DEF GetMapContext, Mapped, Renewed
<1>2. Sound(vm) /\ v \in Live(vm)
  BY <1>1 DEF Inv, Servable
<1>3. Brought(vm, u, v)
  BY <1>1, <1>2, RequestPageBrings
<1> HIDE DEF u
<1>4. /\ Sound(u) /\ f \in FrameId /\ u.lists = vm.lists /\ PinsKept(vm, u)
      /\ Resident(u, v)
  BY <1>3, BroughtKeepsPins DEF Brought
<1>5. /\ Sound(x) /\ x.page = u.page /\ x.lists = u.lists
      /\ x.nframes = u.nframes
      /\ \A g \in FrameId \ {f} : x.frame[g] = u.frame[g]
      /\ x.frame[f].pin => u.frame[f].pin
      /\ u.frame[f].pin => x.frame[f].pin
  <2>1. Sound(u) /\ u.page[v].frame_id \in FrameId
    BY <1>4
  <2> QED BY <2>1, RenewFrame
<1> HIDE DEF x
<1>6. v \in Live(x) /\ Resident(x, v)
  BY <1>2, <1>4, <1>5 DEF Live, Resident
<1>7. /\ Sound(vm') /\ vm'.lists = x.lists
      /\ vm'.frame = x.frame /\ vm'.nframes = x.nframes
      /\ \A w \in PageId : vm'.page[w].frame_id = x.page[w].frame_id
  BY <1>1, <1>5, <1>6, MappedIsSound
<1>8. \A g \in FrameId : /\ vm'.frame[g].pin => u.frame[g].pin
                         /\ u.frame[g].pin => vm'.frame[g].pin
  BY <1>5, <1>7
<1>9. PinsKept(vm, vm')
  BY <1>2, <1>4, <1>5, <1>7, <1>8, MarkKeepsPins
<1>10. VariablesTyped'
  BY <1>1 DEF Inv, VariablesTyped
<1> QED BY <1>1, <1>4, <1>5, <1>7, <1>9, <1>10, BringingKeeps

LEMMA PinPageKeeps ==
  ASSUME Inv, NEW v \in PageId, PinPage(v)
  PROVE  Inv'
<1> DEFINE u == RequestPage(vm, v)
           f == u.page[v].frame_id
<1>1. /\ Callable /\ Servable(vm, v) /\ vm' = Pinned(u, v)
      /\ Peers(vm, v) \cap PinnedPages = {}
      /\ Cardinality(PinnedPages) < PinLimit
      /\ pinned' = pinned \cup {v}
      /\ UNCHANGED <<loop, written, deletes>>
  BY DEF PinPage, Pinned
<1>2. /\ VariablesTyped /\ Sound(vm) /\ PinnedApart /\ PinnedStays
      /\ v \in Live(vm)
  BY <1>1 DEF Inv, Servable
<1>3. Brought(vm, u, v)
  BY <1>1, <1>2, RequestPageBrings
<1> HIDE DEF u
<1>4. /\ Sound(u) /\ f \in FrameId /\ u.lists = vm.lists /\ PinsKept(vm, u)
      /\ Resident(u, v)
  BY <1>3, BroughtKeepsPins DEF Brought
<1>5. /\ Sound(vm') /\ vm'.page = u.page /\ vm'.lists = u.lists
      /\ vm'.nframes = u.nframes
      /\ \A g \in FrameId \ {f} : vm'.frame[g] = u.frame[g]
      /\ vm'.frame[f].pin
  BY <1>1, <1>4, PinFrame
<1>6. VariablesTyped'
  BY <1>1, <1>2 DEF VariablesTyped
<1>7. PinnedPages' = PinnedPages \cup {v} /\ Arr' = Arr
  BY <1>1 DEF PinnedPages, Arr
<1>8. /\ Live(vm') = Live(vm) /\ \A w : Peers(vm', w) = Peers(vm, w)
      /\ v \in Peers(vm, v) /\ v \notin PinnedPages
  BY <1>1, <1>2, <1>4, <1>5, LivePages DEF Live, Peers, Sound
<1>9. PinnedApart'
  <2>1. IsFiniteSet(PinnedPages') /\ Cardinality(PinnedPages') <= PinLimit
    <3>1. /\ IsFiniteSet(PinnedPages')
          /\ Cardinality(PinnedPages') = Cardinality(PinnedPages) + 1
      BY <1>2, <1>7, <1>8, FS_AddElement DEF PinnedApart
    <3>2. Cardinality(PinnedPages) \in Nat
      BY <1>2, FS_CardinalityType DEF PinnedApart
    <3> QED BY <1>1, <3>1, <3>2, FrameAssumption
  <2>2. ASSUME NEW a \in PinnedPages', NEW b \in PinnedPages', b \in Peers(vm', a)
        PROVE  a = b
    <3>1. CASE a = v
      BY <1>1, <1>7, <1>8, <2>2, <3>1
    <3>2. CASE b = v
      <4>1. a \in Peers(vm, v)
        BY <1>2, <1>8, <2>2, <3>2, PeersSymmetric DEF Sound
      <4> QED BY <1>1, <1>7, <3>2, <4>1
    <3>3. CASE a # v /\ b # v
      BY <1>2, <1>7, <1>8, <2>2, <3>3 DEF PinnedApart
    <3> QED BY <3>1, <3>2, <3>3
  <2>3. pinned' \cap Arr' = {}
    BY <1>1, <1>2, <1>7, <1>8 DEF PinnedApart, PinnedPages
  <2>4. PinnedPages' \subseteq Live(vm')
    BY <1>2, <1>7, <1>8 DEF PinnedApart
  <2> QED BY <2>1, <2>2, <2>3, <2>4 DEF PinnedApart
<1>10. PinnedStays'
  <2> SUFFICES ASSUME NEW w \in pinned' PROVE Resident(vm', w) /\ FrameOf(vm', w).pin
    BY DEF PinnedStays
  <2>1. CASE w = v
    BY <1>4, <1>5, <2>1 DEF Resident, FrameOf
  <2>2. CASE w # v
    <3>1. w \in pinned /\ w \in PageId
      BY <1>1, <1>2, <2>2 DEF VariablesTyped
    <3>2. Resident(vm, w) /\ FrameOf(vm, w).pin
      BY <1>2, <3>1 DEF PinnedStays
    <3>3. u.page[w].frame_id = vm.page[w].frame_id /\ FrameOf(u, w).pin
      BY <1>4, <3>1, <3>2 DEF PinsKept
    <3>4. vm.page[w].frame_id \in FrameId
      BY <1>2, <3>1, <3>2 DEF Sound, PagesPlaced, Resident
    <3>5. vm'.page[w].frame_id = vm.page[w].frame_id
      BY <1>5, <3>3
    <3>6. Resident(vm', w)
      BY <3>2, <3>5 DEF Resident, HasFrame
    <3>7. FrameOf(vm', w).pin
      <4>1. CASE vm.page[w].frame_id = f
        BY <1>5, <3>5, <4>1 DEF FrameOf
      <4>2. CASE vm.page[w].frame_id # f
        BY <1>5, <3>3, <3>4, <3>5, <4>2 DEF FrameOf
      <4> QED BY <4>1, <4>2
    <3> QED BY <3>6, <3>7
  <2> QED BY <2>1, <2>2
<1>11. PinnedHeld'
  <2> SUFFICES ASSUME NEW g \in FrameId, g <= vm'.nframes, vm'.frame[g].pin
               PROVE  \/ g \in Queued'
                      \/ \E w \in PinnedPages' : vm'.page[w].frame_id = g
    BY DEF PinnedHeld
  <2>1. CASE g = f
    BY <1>5, <1>7, <2>1
  <2>2. CASE g # f
    <3>1. g <= vm.nframes /\ vm.frame[g].pin
      BY <1>4, <1>5, <2>2 DEF PinsKept
    <3>2. PICK w \in PinnedPages : vm.page[w].frame_id = g
      BY <1>1, <3>1, IdleQueue DEF Inv, PinnedHeld
    <3>3. Resident(vm, w) /\ FrameOf(vm, w).pin /\ w \in PageId
      BY <1>2, <3>1, <3>2, FrameNumbers, LivePages
         DEF Resident, HasFrame, FrameOf, PinnedApart, Sound
    <3>4. vm'.page[w].frame_id = g
      BY <1>4, <1>5, <3>2, <3>3 DEF PinsKept
    <3> QED BY <1>7, <3>2, <3>4
  <2> QED BY <2>1, <2>2
<1> QED BY <1>1, <1>5, <1>6, <1>9, <1>10, <1>11, CallKeeps

\* Two pages of a frame are on one list.
LEMMA SharersOnFrame ==
  ASSUME NEW s, Sound(s), NEW v \in PageId, NEW w \in PageId,
         Resident(s, v), s.page[w].frame_id = s.page[v].frame_id
  PROVE  w \in Peers(s, v)
<1> DEFINE f == s.page[v].frame_id
<1>1. f \in FrameId /\ ListsApart(s)
  BY DEF Sound, PagesPlaced, Resident
<1>2. v \in Peers(s, s.frame[f].virtual_id) /\ w \in Peers(s, s.frame[f].virtual_id)
  BY <1>1, PagesOnFrame
<1> QED BY <1>1, <1>2, PeersSymmetric

LEMMA UnpinPageKeeps ==
  ASSUME Inv, NEW v \in PageId, UnpinPage(v)
  PROVE  Inv'
<1> DEFINE f == vm.page[v].frame_id
<1>1. /\ Callable /\ v \in pinned
      /\ vm' = IF Resident(vm, v) THEN Released(vm, v) ELSE vm
      /\ pinned' = pinned \ {v}
      /\ UNCHANGED <<loop, written, deletes>>
  BY DEF UnpinPage, Released
<1>2. /\ VariablesTyped /\ Sound(vm) /\ PinnedApart /\ PinnedStays
      /\ v \in PinnedPages
  BY <1>1 DEF Inv, PinnedPages
<1>3. Resident(vm, v) /\ f \in FrameId
  BY <1>1, <1>2 DEF PinnedStays, Sound, PagesPlaced, Resident
<1>4. /\ Sound(vm') /\ vm'.page = vm.page /\ vm'.lists = vm.lists
      /\ vm'.nframes = vm.nframes
      /\ \A g \in FrameId \ {f} : vm'.frame[g] = vm.frame[g]
      /\ ~ vm'.frame[f].pin
  BY <1>1, <1>2, <1>3, UnpinFrame
<1>5. VariablesTyped'
  BY <1>1, <1>2 DEF VariablesTyped
<1>6. PinnedPages' = (pinned \ {v}) \cup Arr /\ Arr' = Arr
  BY <1>1 DEF PinnedPages, Arr
<1>7. /\ Live(vm') = Live(vm) /\ \A w : Peers(vm', w) = Peers(vm, w)
      /\ PinnedPages' \subseteq PinnedPages
  BY <1>4, <1>6 DEF Live, Peers, PinnedPages
<1>8. PinnedApart'
  <2>1. IsFiniteSet(PinnedPages') /\ Cardinality(PinnedPages') <= PinLimit
    <3>1. /\ IsFiniteSet(PinnedPages')
          /\ Cardinality(PinnedPages') <= Cardinality(PinnedPages)
      BY <1>2, <1>7, FS_Subset DEF PinnedApart
    <3>2. Cardinality(PinnedPages) \in Nat /\ Cardinality(PinnedPages') \in Nat
      BY <1>2, <3>1, FS_CardinalityType DEF PinnedApart
    <3> QED BY <1>2, <3>1, <3>2, FrameAssumption DEF PinnedApart
  <2>2. \A a, b \in PinnedPages' : b \in Peers(vm', a) => a = b
    BY <1>2, <1>7 DEF PinnedApart
  <2>3. pinned' \cap Arr' = {}
    BY <1>1, <1>2, <1>6 DEF PinnedApart
  <2>4. PinnedPages' \subseteq Live(vm')
    BY <1>2, <1>7 DEF PinnedApart
  <2> QED BY <2>1, <2>2, <2>3, <2>4 DEF PinnedApart
<1>9. PinnedStays'
  <2> SUFFICES ASSUME NEW w \in pinned' PROVE Resident(vm', w) /\ FrameOf(vm', w).pin
    BY DEF PinnedStays
  <2>1. /\ w \in pinned /\ w # v /\ w \in PageId /\ w \in PinnedPages
        /\ Resident(vm, w) /\ FrameOf(vm, w).pin
    BY <1>1, <1>2 DEF VariablesTyped, PinnedPages, PinnedStays
  <2>2. vm.page[w].frame_id \in FrameId
    BY <1>2, <2>1 DEF Sound, PagesPlaced, Resident
  <2>3. vm.page[w].frame_id # f
    <3> SUFFICES ASSUME vm.page[w].frame_id = f PROVE FALSE
      OBVIOUS
    <3>1. w \in Peers(vm, v)
      BY <1>2, <1>3, <2>1, SharersOnFrame
    <3> QED BY <1>2, <2>1, <3>1 DEF PinnedApart
  <2>4. FrameOf(vm', w) = FrameOf(vm, w)
    BY <1>4, <2>2, <2>3 DEF FrameOf
  <2> QED BY <1>4, <2>1, <2>4 DEF Resident
<1>10. PinnedHeld'
  <2> SUFFICES ASSUME NEW g \in FrameId, g <= vm'.nframes, vm'.frame[g].pin
               PROVE  \/ g \in Queued'
                      \/ \E w \in PinnedPages' : vm'.page[w].frame_id = g
    BY DEF PinnedHeld
  <2>1. g # f
    BY <1>4
  <2>2. g <= vm.nframes /\ vm.frame[g].pin
    BY <1>4, <2>1
  <2>3. PICK w \in PinnedPages : vm.page[w].frame_id = g
    BY <1>1, <2>2, IdleQueue DEF Inv, PinnedHeld
  <2>4. w # v /\ w \in PinnedPages'
    BY <1>6, <2>1, <2>3 DEF PinnedPages
  <2> QED BY <1>4, <2>3, <2>4
<1> QED BY <1>1, <1>4, <1>5, <1>8, <1>9, <1>10, CallKeeps

\* A page comes or goes, and no page is pinned or unpinned.
LEMMA RelistingKeeps ==
  ASSUME Inv, Callable, UNCHANGED <<loop, pinned>>,
         VariablesTyped', Sound(vm'), vm'.nframes = vm.nframes,
         PinnedPages \subseteq Live(vm'),
         \A v \in PinnedPages : vm'.page[v] = vm.page[v],
         \A v, w \in PinnedPages : w \in Peers(vm', v) => w \in Peers(vm, v),
         \A g \in FrameId :
           /\ vm'.frame[g].pin => vm.frame[g].pin
           /\ vm.frame[g].pin /\ (\E v \in PinnedPages : vm.page[v].frame_id = g)
                => vm'.frame[g].pin
  PROVE  Inv'
<1>1. PinnedApart /\ PinnedStays /\ PinnedHeld /\ Sound(vm)
  BY DEF Inv
<1>2. PinnedPages' = PinnedPages /\ Arr' = Arr /\ Queued' = Queued
  BY DEF PinnedPages, Arr, Queued
<1>3. PinnedApart'
  BY <1>1, <1>2 DEF PinnedApart
<1>4. PinnedStays'
  <2> SUFFICES ASSUME NEW v \in pinned PROVE Resident(vm', v) /\ FrameOf(vm', v).pin
    BY DEF PinnedStays
  <2>1. v \in PinnedPages /\ v \in PageId
    BY <1>1, LivePages DEF PinnedPages, PinnedApart, Sound
  <2>2. Resident(vm, v) /\ FrameOf(vm, v).pin
    BY <1>1 DEF PinnedStays
  <2>3. vm.page[v].frame_id \in FrameId
    BY <1>1, <2>1, <2>2 DEF Sound, PagesPlaced, Resident
  <2>4. vm.frame[vm.page[v].frame_id].pin
    BY <2>2 DEF FrameOf
  <2>5. vm'.frame[vm.page[v].frame_id].pin
    BY <2>1, <2>3, <2>4
  <2> QED BY <2>1, <2>2, <2>5 DEF Resident, FrameOf
<1>5. PinnedHeld'
  <2> SUFFICES ASSUME NEW g \in FrameId, g <= vm'.nframes, vm'.frame[g].pin
               PROVE  \/ g \in Queued'
                      \/ \E v \in PinnedPages' : vm'.page[v].frame_id = g
    BY DEF PinnedHeld
  <2>1. g <= vm.nframes /\ vm.frame[g].pin
    OBVIOUS
  <2>2. g \in Queued \/ \E v \in PinnedPages : vm.page[v].frame_id = g
    BY <1>1, <2>1 DEF PinnedHeld
  <2> QED BY <1>2, <2>2
<1> QED BY <1>3, <1>4, <1>5, CallKeeps

LEMMA AllocPageKeeps ==
  ASSUME Inv, NEW v \in PageId, AllocPage(v)
  PROVE  Inv'
<1>1. /\ Callable /\ v \notin Live(vm)
      /\ vm' = Allocated(vm, v)
      /\ UNCHANGED <<loop, pinned, written, deletes>>
  BY DEF AllocPage, Allocated
<1>2. Sound(vm) /\ VariablesTyped /\ PinnedPages \subseteq Live(vm)
  BY DEF Inv, PinnedApart
<1>3. /\ Sound(vm') /\ vm'.page = vm.page
      /\ vm'.frame = vm.frame /\ vm'.nframes = vm.nframes
      /\ Live(vm') = Live(vm) \cup {v}
      /\ \A u \in Live(vm) : Peers(vm', u) = Peers(vm, u)
  BY <1>1, <1>2, AllocIsSound
<1>4. VariablesTyped'
  BY <1>1, <1>2 DEF VariablesTyped
<1> QED BY <1>1, <1>2, <1>3, <1>4, RelistingKeeps

LEMMA DupPageMapKeeps ==
  ASSUME Inv, NEW v \in PageId, NEW w \in PageId, DupPageMap(v, w)
  PROVE  Inv'
<1>1. /\ Callable /\ v \in Live(vm) /\ w \notin Live(vm)
      /\ vm' = Link(vm, v, w)
      /\ written' = [written EXCEPT ![w] = written[v]]
      /\ UNCHANGED <<loop, pinned, deletes>>
  BY DEF DupPageMap
<1>2. Sound(vm) /\ VariablesTyped /\ PinnedPages \subseteq Live(vm)
  BY DEF Inv, PinnedApart
<1>3. /\ Sound(vm')
      /\ vm'.frame = vm.frame /\ vm'.nframes = vm.nframes
      /\ \A u \in PageId \ {w} : vm'.page[u] = vm.page[u]
      /\ Live(vm') = Live(vm) \cup {w}
      /\ \A u, x \in Live(vm) : x \in Peers(vm', u) <=> x \in Peers(vm, u)
  BY <1>1, <1>2, LinkIsSound
<1>4. \A u \in PinnedPages : vm'.page[u] = vm.page[u]
  BY <1>1, <1>2, <1>3, LivePages DEF Sound
<1>5. VariablesTyped'
  BY <1>1, <1>2 DEF VariablesTyped
<1> QED BY <1>1, <1>2, <1>3, <1>4, <1>5, RelistingKeeps

LEMMA DelPageKeeps ==
  ASSUME Inv, NEW v \in PageId, DelPage(v)
  PROVE  Inv'
<1>1. /\ Callable /\ v \in Live(vm) /\ v \notin PinnedPages
      /\ deletes < MaxDeletes
      /\ \/ /\ Peers(vm, v) = {v}
            /\ vm' = Unlink(FreeStorage(vm, v), v)
         \/ \E candidate \in Peers(vm, v) \ {v} :
              vm' = Unlink(HandOver(vm, v, candidate), v)
      /\ written' = [written EXCEPT ![v] = Unwritten]
      /\ deletes' = deletes + 1
      /\ UNCHANGED <<loop, pinned>>
  BY DEF DelPage
<1>2. /\ Sound(vm) /\ VariablesTyped /\ PinnedPages \subseteq Live(vm)
      /\ PinnedPages \subseteq PageId
  BY LivePages DEF Inv, PinnedApart, Sound
<1>3. VariablesTyped'
  BY <1>1, <1>2, FrameAssumption DEF VariablesTyped
<1>4. CASE /\ Peers(vm, v) = {v}
           /\ vm' = Unlink(FreeStorage(vm, v), v)
  <2>1. /\ Sound(vm') /\ vm'.nframes = vm.nframes
        /\ \A u \in PageId \ {v} : vm'.page[u] = vm.page[u]
        /\ Live(vm') = Live(vm) \ {v}
        /\ \A u, x \in Live(vm') : x \in Peers(vm', u) <=> x \in Peers(vm, u)
    BY <1>1, <1>2, <1>4, LastIsDeleted
  <2>2. \A g \in FrameId :
          /\ g # vm.page[v].frame_id => vm'.frame[g] = vm.frame[g]
          /\ g = vm.page[v].frame_id => ~ vm'.frame[g].pin
    BY <1>1, <1>2, <1>4, LastIsDeleted
  <2>3. PinnedPages \subseteq Live(vm')
    BY <1>1, <1>2, <2>1
  <2>4. \A u \in PinnedPages : vm'.page[u] = vm.page[u]
    BY <1>1, <1>2, <2>1
  <2>5. ASSUME NEW g \in FrameId, NEW u \in PinnedPages, vm.page[u].frame_id = g
        PROVE  g # vm.page[v].frame_id
    <3> SUFFICES ASSUME g = vm.page[v].frame_id PROVE FALSE
      OBVIOUS
    <3>1. Resident(vm, v)
      BY FrameNumbers DEF Resident, HasFrame
    <3>2. u \in Peers(vm, v)
      BY <1>2, <2>5, <3>1, SharersOnFrame
    <3> QED BY <1>1, <1>4, <3>2
  <2>6. ASSUME NEW g \in FrameId
        PROVE  /\ vm'.frame[g].pin => vm.frame[g].pin
               /\ vm.frame[g].pin /\ (\E u \in PinnedPages : vm.page[u].frame_id = g)
                    => vm'.frame[g].pin
    BY <2>2, <2>5
  <2>7. \A u, x \in PinnedPages : x \in Peers(vm', u) => x \in Peers(vm, u)
    BY <2>1, <2>3
  <2> QED BY <1>1, <1>3, <2>1, <2>3, <2>4, <2>6, <2>7, RelistingKeeps
<1>5. CASE \E candidate \in Peers(vm, v) \ {v} :
             vm' = Unlink(HandOver(vm, v, candidate), v)
  <2>1. PICK c \in Peers(vm, v) \ {v} : vm' = Unlink(HandOver(vm, v, c), v)
    BY <1>5
  <2> DEFINE h == HandOver(vm, v, c)
  <2>2. /\ Sound(h) /\ h.page = vm.page /\ h.lists = vm.lists
        /\ h.cap = vm.cap /\ h.nframes = vm.nframes
    BY <1>1, <1>2, HandOverIsSound
  <2>3. /\ \A g \in FrameId : h.frame[g].virtual_id # v
        /\ \A g \in FrameId : h.frame[g].pin => vm.frame[g].pin
        /\ \A g \in FrameId : vm.frame[g].pin => h.frame[g].pin
    BY <1>1, <1>2, HandOverIsSound
  <2>4. vm' = Unlink(h, v)
    BY <2>1
  <2> HIDE DEF h
  <2>5. v \in Live(h) /\ Live(h) = Live(vm) /\ \A u : Peers(h, u) = Peers(vm, u)
    BY <1>1, <2>2 DEF Live, Peers
  <2>6. /\ Sound(vm') /\ vm'.frame = h.frame /\ vm'.nframes = h.nframes
        /\ \A u \in PageId \ {v} : vm'.page[u] = h.page[u]
        /\ Live(vm') = Live(h) \ {v}
        /\ \A u, x \in Live(vm') : x \in Peers(vm', u) <=> x \in Peers(h, u)
    BY <2>2, <2>3, <2>4, <2>5, UnlinkIsSound
  <2>7. PinnedPages \subseteq Live(vm')
    BY <1>1, <1>2, <2>5, <2>6
  <2>8. \A u \in PinnedPages : vm'.page[u] = vm.page[u]
    BY <1>1, <1>2, <2>2, <2>6
  <2>9. \A g \in FrameId :
          /\ vm'.frame[g].pin => vm.frame[g].pin
          /\ vm.frame[g].pin /\ (\E u \in PinnedPages : vm.page[u].frame_id = g)
               => vm'.frame[g].pin
    BY <2>3, <2>6
  <2>10. \A u, x \in PinnedPages : x \in Peers(vm', u) => x \in Peers(vm, u)
    BY <2>5, <2>6, <2>7
  <2>11. vm'.nframes = vm.nframes
    BY <2>2, <2>6
  <2> QED BY <1>1, <1>3, <2>6, <2>7, <2>8, <2>9, <2>10, <2>11, RelistingKeeps
<1> QED BY <1>1, <1>4, <1>5

-----------------------------------------------------------------------------
(* Some frame can always be had *)

LEMMA MissingPinned ==
  ASSUME Inv
  PROVE  /\ Scope \subseteq Arr /\ Scope \subseteq PinnedPages
         /\ Missing \subseteq {v \in PinnedPages : ~ Resident(vm, v)}
         /\ IsFiniteSet(Missing)
<1>1. Scope \subseteq Arr
  BY DEF Inv, LoopRuns, Scope
<1>2. Arr \subseteq PinnedPages /\ IsFiniteSet(PinnedPages)
  BY DEF PinnedPages, Inv, PinnedApart
<1>3. Missing \subseteq PinnedPages
  BY <1>1, <1>2 DEF Missing
<1>4. IsFiniteSet(Missing)
  BY <1>2, <1>3, FS_Subset
<1> QED BY <1>1, <1>2, <1>4 DEF Missing

\* Were all frames pinned or queued, there would be a pinned page for each,
\* and clients pin fewer.
LEMMA FrameLeft ==
  ASSUME Inv
  PROVE  HasFresh(vm) \/ \E g \in FrameId \ Queued : ~ vm.frame[g].pin
<1> SUFFICES ASSUME ~ HasFresh(vm),
                    \A g \in FrameId \ Queued : vm.frame[g].pin
             PROVE  FALSE
  OBVIOUS
<1> DEFINE R == {v \in PinnedPages : Resident(vm, v)}
           N == {v \in PinnedPages : ~ Resident(vm, v)}
           at == [v \in R |-> vm.page[v].frame_id]
           F == {vm.page[v].frame_id : v \in R}
<1>1. /\ VariablesTyped /\ Sound(vm) /\ PinnedApart /\ PinnedHeld /\ FramesQueued
      /\ vm.nframes = FRAME_LIMIT
  BY FrameAssumption DEF Inv, Sound, VmRecord, HasFresh
<1>2. IsFiniteSet(FrameId) /\ Cardinality(FrameId) = FRAME_LIMIT
  <2>1. /\ 1 \in Int /\ FRAME_LIMIT \in Int /\ ~ (1 > FRAME_LIMIT)
        /\ FRAME_LIMIT - 1 + 1 = FRAME_LIMIT
    BY FrameAssumption
  <2> QED BY <2>1, FS_Interval DEF FrameId
<1>3. FrameId \subseteq Queued \cup F
  <2> SUFFICES ASSUME NEW g \in FrameId, g \notin Queued PROVE g \in F
    OBVIOUS
  <2>1. g <= vm.nframes /\ vm.frame[g].pin
    BY <1>1, FrameAssumption DEF FrameId
  <2>2. PICK v \in PinnedPages : vm.page[v].frame_id = g
    BY <1>1, <2>1 DEF PinnedHeld
  <2>3. v \in R
    BY <2>2, FrameNumbers DEF Resident, HasFrame
  <2> QED BY <2>2, <2>3
<1>4. /\ IsFiniteSet(R) /\ IsFiniteSet(N)
      /\ Cardinality(R) \in Nat /\ Cardinality(N) \in Nat
      /\ Cardinality(R) + Cardinality(N) <= PinLimit
  <2>1. IsFiniteSet(PinnedPages) /\ Cardinality(PinnedPages) <= PinLimit
    BY <1>1 DEF PinnedApart
  <2>2. IsFiniteSet(R) /\ IsFiniteSet(N)
    BY <2>1, FS_Subset
  <2>3. R \cup N = PinnedPages /\ R \cap N = {}
    OBVIOUS
  <2> HIDE DEF R, N
  <2>4. Cardinality(PinnedPages) = Cardinality(R) + Cardinality(N) - Cardinality({})
    BY <2>2, <2>3, FS_Union
  <2>5. Cardinality({}) = 0 /\ Cardinality(R) \in Nat /\ Cardinality(N) \in Nat
    BY <2>2, FS_EmptySet, FS_CardinalityType
  <2> QED BY <2>1, <2>2, <2>4, <2>5
<1>5. /\ IsFiniteSet(F) /\ Cardinality(F) \in Nat
      /\ Cardinality(F) <= Cardinality(R)
  <2>1. at \in Surjection(R, F)
    BY DEF Surjection
  <2>2. IsFiniteSet(F) /\ Cardinality(F) <= Cardinality(R)
    BY <1>4, <2>1, FS_Surjection
  <2> QED BY <2>2, FS_CardinalityType
<1>6. /\ IsFiniteSet(Queued) /\ Cardinality(Queued) \in Nat
      /\ Cardinality(Queued) <= Cardinality(N)
  <2>1. /\ IsFiniteSet(Queued) /\ Cardinality(Queued) \in Nat
        /\ Cardinality(Queued) <= Cardinality(Missing)
    BY <1>1, SeqSetSize DEF Queued, VariablesTyped, FramesQueued
  <2>2. Missing \in SUBSET N
    BY MissingPinned
  <2>3. /\ IsFiniteSet(Missing) /\ Cardinality(Missing) <= Cardinality(N)
        /\ Cardinality(Missing) \in Nat
    BY <1>4, <2>2, FS_Subset, FS_CardinalityType
  <2> QED BY <1>4, <2>1, <2>3
<1> HIDE DEF F, R, N
<1>7. /\ IsFiniteSet(Queued \cup F) /\ Cardinality(Queued \cup F) \in Nat
      /\ Cardinality(Queued \cup F) <= Cardinality(Queued) + Cardinality(F)
  <2>1. /\ IsFiniteSet(Queued \cup F)
        /\ Cardinality(Queued \cup F) =
             Cardinality(Queued) + Cardinality(F) - Cardinality(Queued \cap F)
    BY <1>5, <1>6, FS_Union
  <2>2. IsFiniteSet(Queued \cap F)
    BY <1>5, FS_Subset
  <2>3. Cardinality(Queued \cup F) \in Nat /\ Cardinality(Queued \cap F) \in Nat
    BY <2>1, <2>2, FS_CardinalityType
  <2> QED BY <1>5, <1>6, <2>1, <2>3
<1>8. Cardinality(FrameId) <= Cardinality(Queued \cup F)
  BY <1>3, <1>7, FS_Subset
<1> QED BY <1>2, <1>4, <1>5, <1>6, <1>7, <1>8, FrameAssumption

LEMMA SomeFrame ==
  ASSUME Inv
  PROVE  CanServe(vm)
<1>1. HasFresh(vm) \/ \E g \in FrameId : ~ vm.frame[g].pin
  BY FrameLeft
<1>2. ~ HasFresh(vm) => vm.nframes = FRAME_LIMIT
  BY FrameAssumption DEF Inv, Sound, VmRecord, HasFresh
<1> QED BY <1>1, <1>2 DEF CanServe, FrameId

-----------------------------------------------------------------------------
(* VirtualFrame__pinPageArr *)

LEMMA PinPageArrKeeps ==
  ASSUME Inv, NEW n \in ArrLengths, NEW arr \in [1..n -> PageId], PinPageArr(arr)
  PROVE  Inv'
<1>1. /\ loop.phase = "idle" /\ Distinct(arr)
      /\ Cardinality(pinned) + Len(arr) <= PinLimit
      /\ loop' = [phase |-> "request", arr |-> arr, todo |-> arr, frames |-> <<>>]
      /\ UNCHANGED <<vm, pinned, written, deletes>>
  BY DEF PinPageArr
<1>2. \A i \in DOMAIN arr :
        /\ arr[i] \in Live(vm)
        /\ Peers(vm, arr[i]) \cap pinned = {}
        /\ \A j \in DOMAIN arr : arr[j] \in Peers(vm, arr[i]) => i = j
  BY DEF PinPageArr
<1>3. n \in Nat /\ n > 0 /\ arr \in Seq(PageId) /\ Len(arr) = n /\ arr # <<>>
  <2>1. n \in Nat /\ n > 0
    BY FrameAssumption
  <2> QED BY <2>1
<1>4. /\ loop'.phase = "request" /\ loop'.arr = arr /\ loop'.todo = arr
      /\ loop'.frames = <<>> /\ Arr' = SeqSet(arr)
  BY <1>1 DEF Arr
<1>5. /\ VariablesTyped /\ Sound(vm) /\ PinnedApart /\ PinnedStays /\ PinnedHeld
      /\ Callable
  BY <1>1 DEF Inv, Callable
<1>6. Queued = {} /\ loop = Idle /\ Arr = {} /\ PinnedPages = pinned
  <2>1. loop = Idle
    BY <1>1 DEF Inv, LoopRuns
  <2>2. Arr = {} /\ Queued = {}
    BY <2>1, SeqSetOfEmpty DEF Arr, Queued, Idle
  <2> QED BY <2>1, <2>2 DEF PinnedPages
<1>7. PinnedPages' = pinned \cup SeqSet(arr) /\ Queued' = {}
  BY <1>1, <1>4, SeqSetOfEmpty DEF PinnedPages, Queued
<1>8. \A a \in SeqSet(arr) :
        /\ a \in Live(vm) /\ Peers(vm, a) \cap pinned = {}
        /\ \A b \in SeqSet(arr) : b \in Peers(vm, a) => a = b
  BY <1>2 DEF SeqSet
<1>9. VariablesTyped'
  <2>1. <<>> \in Seq(FrameId)
    OBVIOUS
  <2> QED BY <1>1, <1>3, <1>5, <2>1 DEF VariablesTyped
<1>10. LoopRuns'
  BY <1>1, <1>3, <1>4 DEF LoopRuns
<1>11. PinnedApart'
  <2>1. IsFiniteSet(PinnedPages') /\ Cardinality(PinnedPages') <= PinLimit
    <3>1. /\ IsFiniteSet(SeqSet(arr)) /\ Cardinality(SeqSet(arr)) \in Nat
          /\ Cardinality(SeqSet(arr)) <= n
      BY <1>3, SeqSetSize
    <3>2. IsFiniteSet(pinned) /\ Cardinality(pinned) \in Nat
      BY <1>5, <1>6, FS_CardinalityType DEF PinnedApart
    <3>3. /\ IsFiniteSet(pinned \cup SeqSet(arr))
          /\ Cardinality(pinned \cup SeqSet(arr)) =
               Cardinality(pinned) + Cardinality(SeqSet(arr))
                 - Cardinality(pinned \cap SeqSet(arr))
      BY <3>1, <3>2, FS_Union
    <3>4. Cardinality(pinned \cap SeqSet(arr)) \in Nat
      <4>1. IsFiniteSet(pinned \cap SeqSet(arr))
        BY <3>2, FS_Subset
      <4> QED BY <4>1, FS_CardinalityType
    <3> QED BY <1>1, <1>3, <1>7, <3>1, <3>2, <3>3, <3>4, FrameAssumption
  <2>2. ASSUME NEW a \in PinnedPages', NEW b \in PinnedPages', b \in Peers(vm, a)
        PROVE  a = b
    <3>1. CASE a \in pinned /\ b \in pinned
      BY <1>5, <1>6, <2>2, <3>1 DEF PinnedApart
    <3>2. CASE a \in SeqSet(arr)
      BY <1>7, <1>8, <2>2, <3>2
    <3>3. CASE a \in pinned /\ b \in SeqSet(arr)
      <4>1. a \in Peers(vm, b)
        BY <1>5, <2>2, PeersSymmetric DEF Sound
      <4> QED BY <1>8, <3>3, <4>1
    <3> QED BY <1>7, <3>1, <3>2, <3>3
  <2>3. pinned' \cap Arr' = {}
    <3>1. \A a \in SeqSet(arr) : a \in Peers(vm, a)
      BY <1>5, <1>8, LivePages DEF Sound
    <3> QED BY <1>1, <1>4, <1>8, <3>1
  <2>4. PinnedPages' \subseteq Live(vm')
    BY <1>1, <1>5, <1>6, <1>7, <1>8 DEF PinnedApart
  <2> QED BY <1>1, <2>1, <2>2, <2>3, <2>4 DEF PinnedApart
<1>12. PinnedStays'
  BY <1>1, <1>5 DEF PinnedStays
<1>13. PinnedHeld'
  BY <1>1, <1>5, <1>6, <1>7 DEF PinnedHeld
<1>14. FramesQueued'
  <2>1. Scope' = {} /\ Missing' = {}
    BY <1>4 DEF Scope, Missing
  <2>2. Len(loop'.frames) = Cardinality(Missing') /\ Distinct(loop'.frames)
    BY <1>4, <2>1, FS_EmptySet, SeqSetOfEmpty
  <2> QED BY <1>7, <2>1, <2>2 DEF FramesQueued, ClockPasses
<1> QED BY <1>1, <1>5, <1>9, <1>10, <1>11, <1>12, <1>13, <1>14 DEF Inv

\* __unpinCB over the array.
LEMMA UnpinnedFields ==
  ASSUME NEW s, Sound(s), NEW arr
  PROVE  LET t == Unpinned(s, arr)
             unpin == {s.page[v].frame_id :
                         v \in {w \in SeqSet(arr) : Resident(s, w)}}
         IN  /\ Sound(t) /\ t.page = s.page /\ t.lists = s.lists
             /\ t.nframes = s.nframes
             /\ t.disk = s.disk /\ t.data = s.data /\ t.swap = s.swap
             /\ \A f \in FrameId : /\ f \in unpin => ~ t.frame[f].pin
                                   /\ f \notin unpin => t.frame[f] = s.frame[f]
                                   /\ t.frame[f].virtual_id = s.frame[f].virtual_id
                                   /\ t.frame[f].disk_id = s.frame[f].disk_id
                                   /\ s.frame[f].dirty => t.frame[f].dirty
<1> DEFINE t == Unpinned(s, arr)
           unpin == {s.page[v].frame_id :
                       v \in {w \in SeqSet(arr) : Resident(s, w)}}
           F == [f \in FrameId |-> IF f \in unpin
                                   THEN [s.frame[f] EXCEPT !.pin = FALSE]
                                   ELSE s.frame[f]]
<1>1. /\ s \in VmRecord /\ s.frame \in [FrameId -> FrameRecord]
      /\ s.disk.free \subseteq 1..s.disk.size /\ s.nframes \in Nat
  BY FrameAssumption DEF Sound, VmRecord
<1>2. t = [s EXCEPT !.frame = F]
  BY DEF Unpinned
<1> HIDE DEF unpin
<1>3. ASSUME NEW f \in FrameId
      PROVE  /\ F[f] \in FrameRecord
             /\ F[f].virtual_id = s.frame[f].virtual_id
             /\ F[f].disk_id = s.frame[f].disk_id
             /\ s.frame[f].dirty => F[f].dirty
             /\ f \in unpin => ~ F[f].pin
             /\ f \notin unpin => F[f] = s.frame[f]
  <2> DEFINE o == s.frame[f]
             r == [o EXCEPT !.pin = FALSE]
  <2>1. F[f] = IF f \in unpin THEN r ELSE o
    OBVIOUS
  <2>2. o \in FrameRecord
    BY <1>1
  <2> HIDE DEF o, F
  <2>3. /\ r \in FrameRecord /\ r.virtual_id = o.virtual_id
        /\ r.disk_id = o.disk_id /\ r.pin = FALSE /\ r.dirty = o.dirty
    BY <2>2 DEF FrameRecord
  <2> HIDE DEF r
  <2>4. (o.dirty => r.dirty) /\ ~ r.pin
    BY <2>3
  <2>5. /\ r.virtual_id = o.virtual_id /\ r.disk_id = o.disk_id
        /\ r \in FrameRecord
    BY <2>3
  <2>6. CASE f \in unpin
    BY <2>1, <2>4, <2>5, <2>6 DEF o
  <2>7. CASE f \notin unpin
    BY <2>1, <2>2, <2>7 DEF o
  <2> QED BY <2>6, <2>7
<1>4. F \in [FrameId -> FrameRecord]
  BY <1>3
<1> HIDE DEF F, t
<1>5. /\ t \in VmRecord /\ t.frame = F
      /\ t.page = s.page /\ t.lists = s.lists
      /\ t.nframes = s.nframes /\ t.disk = s.disk /\ t.cap = s.cap
      /\ t.data = s.data /\ t.swap = s.swap
  BY <1>1, <1>2, <1>4, ChangeFrame
<1>6. /\ t.disk.free \subseteq 1..t.disk.size /\ s.nframes <= t.nframes
      /\ \A g \in FrameId :
           /\ t.frame[g].virtual_id = s.frame[g].virtual_id
           /\ s.frame[g].dirty => t.frame[g].dirty
  BY <1>1, <1>3, <1>5
<1>7. Sound(t)
  BY <1>5, <1>6, StaysSound
<1>8. \A f \in FrameId : /\ f \in unpin => ~ t.frame[f].pin
                         /\ f \notin unpin => t.frame[f] = s.frame[f]
                         /\ t.frame[f].virtual_id = s.frame[f].virtual_id
                         /\ t.frame[f].disk_id = s.frame[f].disk_id
                         /\ s.frame[f].dirty => t.frame[f].dirty
  BY <1>3, <1>5
<1> QED BY <1>5, <1>7, <1>8 DEF t, unpin

LEMMA UnpinPageArrKeeps ==
  ASSUME Inv, UnpinPageArr
  PROVE  Inv'
<1> DEFINE unpin == {vm.page[v].frame_id :
                       v \in {w \in SeqSet(loop.arr) : Resident(vm, w)}}
<1>1. /\ loop.phase = "held" /\ vm' = Unpinned(vm, loop.arr) /\ loop' = Idle
      /\ UNCHANGED <<pinned, written, deletes>>
  BY DEF UnpinPageArr
<1>2. /\ VariablesTyped /\ Sound(vm) /\ PinnedApart /\ PinnedStays /\ PinnedHeld
      /\ Callable /\ pinned \subseteq PageId
  BY <1>1 DEF Inv, Callable, VariablesTyped
<1>3. /\ Sound(vm') /\ vm'.page = vm.page /\ vm'.lists = vm.lists
      /\ vm'.nframes = vm.nframes
      /\ \A f \in FrameId : /\ f \in unpin => ~ vm'.frame[f].pin
                            /\ f \notin unpin => vm'.frame[f] = vm.frame[f]
  BY <1>1, <1>2, UnpinnedFields
<1>4. /\ loop'.phase = "idle" /\ loop'.arr = <<>> /\ loop'.todo = <<>>
      /\ loop'.frames = <<>> /\ Arr' = {} /\ Queued' = {}
      /\ PinnedPages' = pinned
  <2>1. /\ loop'.phase = "idle" /\ loop'.arr = <<>> /\ loop'.todo = <<>>
        /\ loop'.frames = <<>>
    BY <1>1 DEF Idle
  <2> QED BY <1>1, <2>1, SeqSetOfEmpty DEF Arr, Queued, PinnedPages
<1>5. Queued = {}
  BY <1>2, IdleQueue
<1>6. VariablesTyped'
  <2>1. <<>> \in Seq(FrameId) /\ <<>> \in Seq(PageId)
    OBVIOUS
  <2> QED BY <1>1, <1>2, <2>1 DEF VariablesTyped, Idle
<1>7. LoopRuns'
  BY <1>1, <1>4 DEF LoopRuns
<1>8. PinnedApart'
  <2>1. Live(vm') = Live(vm) /\ \A v : Peers(vm', v) = Peers(vm, v)
    BY <1>3 DEF Live, Peers
  <2>2. pinned \subseteq PinnedPages
    BY DEF PinnedPages
  <2>3. IsFiniteSet(pinned) /\ Cardinality(pinned) <= Cardinality(PinnedPages)
    BY <1>2, <2>2, FS_Subset DEF PinnedApart
  <2>4. Cardinality(pinned) \in Nat /\ Cardinality(PinnedPages) \in Nat
    BY <1>2, <2>3, FS_CardinalityType DEF PinnedApart
  <2>5. Cardinality(pinned) <= PinLimit
    BY <1>2, <2>3, <2>4, FrameAssumption DEF PinnedApart
  <2> QED BY <1>1, <1>2, <1>4, <2>1, <2>2, <2>3, <2>5 DEF PinnedApart
<1>9. PinnedStays'
  <2> SUFFICES ASSUME NEW v \in pinned PROVE Resident(vm', v) /\ FrameOf(vm', v).pin
    BY <1>1 DEF PinnedStays
  <2>1. Resident(vm, v) /\ FrameOf(vm, v).pin /\ v \in PinnedPages /\ v \in PageId
    BY <1>2 DEF PinnedStays, PinnedPages
  <2>2. vm.page[v].frame_id \in FrameId
    BY <1>2, <2>1 DEF Sound, PagesPlaced, Resident
  <2>3. vm.page[v].frame_id \notin unpin
    <3> SUFFICES ASSUME NEW w \in SeqSet(loop.arr), Resident(vm, w),
                        vm.page[w].frame_id = vm.page[v].frame_id
                 PROVE  FALSE
      OBVIOUS
    <3>1. w \in PinnedPages /\ w \in Arr
      BY DEF PinnedPages, Arr
    <3>2. w \in PageId
      BY <1>2, <3>1, LivePages DEF PinnedApart, Sound
    <3>3. w \in Peers(vm, v)
      BY <1>2, <2>1, <3>2, SharersOnFrame
    <3> QED BY <1>2, <2>1, <3>1, <3>3 DEF PinnedApart
  <2>4. FrameOf(vm', v) = FrameOf(vm, v)
    BY <1>3, <2>2, <2>3 DEF FrameOf
  <2> QED BY <1>3, <2>1, <2>4 DEF Resident
<1>10. PinnedHeld'
  <2> SUFFICES ASSUME NEW g \in FrameId, g <= vm'.nframes, vm'.frame[g].pin
               PROVE  \E v \in pinned : vm'.page[v].frame_id = g
    BY <1>4 DEF PinnedHeld
  <2>1. g \notin unpin /\ g <= vm.nframes /\ vm.frame[g].pin
    BY <1>3
  <2>2. PICK v \in PinnedPages : vm.page[v].frame_id = g
    BY <1>2, <1>5, <2>1 DEF PinnedHeld
  <2>3. Resident(vm, v)
    BY <2>2, FrameNumbers DEF Resident, HasFrame
  <2>4. v \notin Arr
    BY <2>1, <2>2, <2>3 DEF Arr
  <2> QED BY <1>3, <2>2, <2>4 DEF PinnedPages
<1>11. FramesQueued'
  <2>1. Scope' = {} /\ Missing' = {}
    BY <1>4 DEF Scope, Missing
  <2>2. Len(loop'.frames) = Cardinality(Missing') /\ Distinct(loop'.frames)
    BY <1>4, <2>1, FS_EmptySet, SeqSetOfEmpty
  <2>3. ~ (loop'.phase = "request")
    BY <1>4
  <2> QED BY <1>4, <2>2, <2>3 DEF FramesQueued
<1> QED BY <1>3, <1>6, <1>7, <1>8, <1>9, <1>10, <1>11 DEF Inv

\* The loop of __swapInPageCB goes on with queue q.
LEMMA SwapInGoesOn ==
  ASSUME Inv, loop.phase = "swapin", UNCHANGED <<pinned, written, deletes>>,
         Sound(vm'), vm'.lists = vm.lists, vm'.nframes = vm.nframes,
         NEW q \in Seq(FrameId), Distinct(q), SeqSet(q) \subseteq Queued,
         loop' = IF Tail(loop.todo) # <<>>
                 THEN [phase |-> "swapin", arr |-> loop.arr,
                       todo |-> Tail(loop.todo), frames |-> q]
                 ELSE [phase |-> "held", arr |-> loop.arr,
                       todo |-> <<>>, frames |-> <<>>],
         Len(q) = Cardinality({w \in SeqSet(Tail(loop.todo)) :
                                 ~ Resident(vm', w)}),
         \A g \in SeqSet(q) : vm'.frame[g] = vm.frame[g],
         \A g \in FrameId : /\ vm'.frame[g].pin => vm.frame[g].pin
                            /\ vm.frame[g].pin => vm'.frame[g].pin,
         \A w \in PinnedPages : Resident(vm, w) => vm'.page[w] = vm.page[w],
         \A g \in Queued : g \notin SeqSet(q) =>
           \E w \in PinnedPages : vm'.page[w].frame_id = g
  PROVE  Inv'
<1> DEFINE p == Tail(loop.todo)
           M == {w \in SeqSet(p) : ~ Resident(vm', w)}
<1>1. /\ VariablesTyped /\ Sound(vm) /\ PinnedApart /\ PinnedStays /\ PinnedHeld
      /\ FramesQueued /\ LoopRuns
      /\ loop.todo # <<>> /\ SeqSet(loop.todo) \subseteq Arr
      /\ Distinct(loop.todo) /\ loop.todo \in Seq(PageId) /\ loop.arr \in Seq(PageId)
  BY DEF Inv, LoopRuns, VariablesTyped
<1>2. /\ p \in Seq(PageId) /\ Distinct(p) /\ SeqSet(p) \subseteq Arr
  BY <1>1, TailOfDistinct
<1>3. Len(q) = Cardinality(M)
  OBVIOUS
<1> HIDE DEF p, M
<1>4. /\ loop'.arr = loop.arr /\ loop'.frames = q
      /\ p # <<>> => loop'.phase = "swapin" /\ loop'.todo = p
      /\ p = <<>> => loop'.phase = "held" /\ loop'.todo = <<>>
  <2>1. CASE p # <<>>
    BY <2>1 DEF p
  <2>2. CASE p = <<>>
    <3>1. M = {}
      BY <2>2, SeqSetOfEmpty DEF M
    <3>2. Len(q) = 0
      BY <1>3, <3>1, FS_EmptySet
    <3>3. q = <<>>
      BY <3>2
    <3> QED BY <2>2, <3>3 DEF p
  <2> QED BY <2>1, <2>2
<1>5. Arr' = Arr /\ PinnedPages' = PinnedPages /\ Queued' = SeqSet(q)
  BY <1>4 DEF Arr, PinnedPages, Queued
<1>6. VariablesTyped'
  <2>1. <<>> \in Seq(FrameId) /\ <<>> \in Seq(PageId)
    OBVIOUS
  <2> QED BY <1>1, <1>2, <2>1 DEF VariablesTyped, p
<1>7. LoopRuns'
  <2>1. p = <<>> => loop'.frames = <<>>
    BY DEF p
  <2>2. Distinct(loop.arr)
    BY <1>1 DEF LoopRuns
  <2> QED BY <1>2, <1>4, <1>5, <2>1, <2>2 DEF LoopRuns
<1>8. PinnedApart'
  <2>1. Live(vm') = Live(vm) /\ \A v : Peers(vm', v) = Peers(vm, v)
    BY DEF Live, Peers
  <2> QED BY <1>1, <1>5, <2>1 DEF PinnedApart
<1>9. PinnedStays'
  <2> SUFFICES ASSUME NEW v \in pinned PROVE Resident(vm', v) /\ FrameOf(vm', v).pin
    BY DEF PinnedStays
  <2>1. Resident(vm, v) /\ FrameOf(vm, v).pin /\ v \in PinnedPages /\ v \in PageId
    BY <1>1 DEF PinnedStays, PinnedPages, VariablesTyped
  <2>2. vm.page[v].frame_id \in FrameId /\ vm'.page[v] = vm.page[v]
    BY <1>1, <2>1 DEF Sound, PagesPlaced, Resident
  <2> QED BY <2>1, <2>2 DEF Resident, FrameOf
<1>10. PinnedHeld'
  <2> SUFFICES ASSUME NEW g \in FrameId, g <= vm'.nframes, vm'.frame[g].pin
               PROVE  \/ g \in SeqSet(q)
                      \/ \E v \in PinnedPages : vm'.page[v].frame_id = g
    BY <1>5 DEF PinnedHeld
  <2>1. g \in Queued \/ \E v \in PinnedPages : vm.page[v].frame_id = g
    BY <1>1 DEF PinnedHeld
  <2>2. ASSUME NEW v \in PinnedPages, vm.page[v].frame_id = g
        PROVE  vm'.page[v].frame_id = g
    BY <2>2, FrameNumbers DEF Resident, HasFrame
  <2> QED BY <2>1, <2>2
<1>11. Missing' = M
  <2>1. CASE p # <<>>
    BY <1>4, <2>1 DEF Missing, Scope, M
  <2>2. CASE p = <<>>
    BY <1>4, <2>2, SeqSetOfEmpty DEF Missing, Scope, M
  <2> QED BY <2>1, <2>2
<1>12. FramesQueued'
  <2>1. ~ (loop'.phase = "request")
    BY <1>4
  <2>2. \A g \in SeqSet(q) : vm'.frame[g].virtual_id = NULL_SLOT /\ g <= vm'.nframes
    BY <1>1 DEF FramesQueued
  <2> QED BY <1>3, <1>4, <1>5, <1>11, <2>1, <2>2 DEF FramesQueued
<1> QED BY <1>6, <1>7, <1>8, <1>9, <1>10, <1>12 DEF Inv

LoopState ==
  [phase : {"idle", "request", "swapin", "held"},
   arr : Seq(PageId), todo : Seq(PageId), frames : Seq(FrameId)]

\* The loop with another queue; at its second pass; done.
Queueing(l, q) == [l EXCEPT !.frames = q]
ArrQueued(l)   == [l EXCEPT !.phase = "swapin", !.todo = l.arr]
ArrHeld(l)     == [l EXCEPT !.phase = "held", !.todo = <<>>, !.frames = <<>>]

LEMMA LoopField ==
  ASSUME NEW ph, NEW a, NEW t, NEW q, NEW l, NEW x,
         l = [phase |-> ph, arr |-> a, todo |-> t, frames |-> q]
  PROVE  /\ [l EXCEPT !.phase = x]
              = [phase |-> x, arr |-> a, todo |-> t, frames |-> q]
         /\ [l EXCEPT !.todo = x]
              = [phase |-> ph, arr |-> a, todo |-> x, frames |-> q]
         /\ [l EXCEPT !.frames = x]
              = [phase |-> ph, arr |-> a, todo |-> t, frames |-> x]
OBVIOUS

LEMMA LoopFields ==
  ASSUME NEW l \in LoopState, NEW q \in Seq(FrameId)
  PROVE  /\ Queueing(l, q) \in LoopState
         /\ Queueing(l, q) = [phase |-> l.phase, arr |-> l.arr,
                              todo |-> l.todo, frames |-> q]
         /\ ArrQueued(l) = [phase |-> "swapin", arr |-> l.arr,
                            todo |-> l.arr, frames |-> l.frames]
         /\ ArrHeld(l) = [phase |-> "held", arr |-> l.arr,
                          todo |-> <<>>, frames |-> <<>>]
<1> DEFINE ph == l.phase
           a == l.arr
           t == l.todo
           r == l.frames
<1>1. l = [phase |-> ph, arr |-> a, todo |-> t, frames |-> r]
  BY DEF LoopState
<1>2. Queueing(l, q) = [phase |-> ph, arr |-> a, todo |-> t, frames |-> q]
  BY DEF Queueing, LoopState
<1>3. ArrQueued(l) = [phase |-> "swapin", arr |-> a, todo |-> a, frames |-> r]
  <2> DEFINE m == [l EXCEPT !.phase = "swapin"]
             n == [m EXCEPT !.todo = a]
  <2>1. ArrQueued(l) = n
    BY DEF ArrQueued
  <2>2. m = [phase |-> "swapin", arr |-> a, todo |-> t, frames |-> r]
    BY DEF LoopState
  <2> HIDE DEF m, ph, a, t, r
  <2>3. n = [phase |-> "swapin", arr |-> a, todo |-> a, frames |-> r]
    BY <2>2, LoopField
  <2> HIDE DEF n
  <2> QED BY <2>1, <2>3
<1>4. ArrHeld(l) = [phase |-> "held", arr |-> a, todo |-> <<>>, frames |-> <<>>]
  <2> DEFINE m == [l EXCEPT !.phase = "held"]
             n == [m EXCEPT !.todo = <<>>]
             o == [n EXCEPT !.frames = <<>>]
  <2>1. ArrHeld(l) = o
    BY DEF ArrHeld
  <2>2. m = [phase |-> "held", arr |-> a, todo |-> t, frames |-> r]
    BY DEF LoopState
  <2> HIDE DEF m, ph, a, t, r
  <2>3. n = [phase |-> "held", arr |-> a, todo |-> <<>>, frames |-> r]
    BY <2>2, LoopField
  <2> HIDE DEF n
  <2>4. o = [phase |-> "held", arr |-> a, todo |-> <<>>, frames |-> <<>>]
    BY <2>3, LoopField
  <2> HIDE DEF o
  <2> QED BY <2>1, <2>4
<1>5. Queueing(l, q) \in LoopState
  BY <1>2 DEF LoopState
<1> QED BY <1>2, <1>3, <1>4, <1>5

LEMMA Advances ==
  ASSUME NEW l \in LoopState, NEW next
  PROVE  /\ Tail(l.todo) # <<>> =>
              Advance(l, next) = [phase |-> l.phase, arr |-> l.arr,
                                  todo |-> Tail(l.todo), frames |-> l.frames]
         /\ Tail(l.todo) = <<>> => Advance(l, next) = next
<1> DEFINE p == Tail(l.todo)
           n == [l EXCEPT !.todo = p]
           ph == l.phase
           a == l.arr
           t == l.todo
           r == l.frames
<1>1. l = [phase |-> ph, arr |-> a, todo |-> t, frames |-> r]
  BY DEF LoopState
<1>2. Advance(l, next) = IF p # <<>> THEN n ELSE next
  BY DEF Advance
<1> HIDE DEF p, ph, a, t, r
<1>3. n = [phase |-> ph, arr |-> a, todo |-> p, frames |-> r]
  BY <1>1, LoopField
<1> HIDE DEF n
<1> QED BY <1>2, <1>3 DEF p, ph, a, r

LEMMA SwapInPageKeeps ==
  ASSUME Inv, SwapInPageStep
  PROVE  Inv'
<1> DEFINE v == Head(loop.todo)
           p == Tail(loop.todo)
           f == Head(loop.frames)
           held == [phase |-> "held", arr |-> loop.arr, todo |-> <<>>,
                    frames |-> <<>>]
<1>1. loop.phase = "swapin" /\ UNCHANGED <<pinned, written, deletes>>
  BY DEF SwapInPageStep
<1>2. /\ VariablesTyped /\ Sound(vm) /\ PinnedApart /\ PinnedStays /\ PinnedHeld
      /\ FramesQueued
      /\ loop.todo # <<>> /\ SeqSet(loop.todo) \subseteq Arr
      /\ Distinct(loop.todo) /\ loop.todo \in Seq(PageId) /\ loop.arr \in Seq(PageId)
      /\ loop.frames \in Seq(FrameId) /\ Distinct(loop.frames)
      /\ loop \in LoopState
  BY <1>1 DEF Inv, LoopRuns, VariablesTyped, FramesQueued, LoopState
<1>3. /\ v \in SeqSet(loop.todo) /\ v \in PageId /\ v \in PinnedPages
      /\ SeqSet(p) = SeqSet(loop.todo) \ {v} /\ v \in Arr
      /\ v \in Live(vm)
  BY <1>2, TailOfDistinct DEF PinnedPages, PinnedApart
<1>4. /\ Missing = {w \in SeqSet(loop.todo) : ~ Resident(vm, w)}
      /\ Len(loop.frames) = Cardinality(Missing) /\ IsFiniteSet(Missing)
  BY <1>1, <1>2, MissingPinned DEF Missing, Scope, FramesQueued
<1>5. loop = [phase |-> "swapin", arr |-> loop.arr, todo |-> loop.todo,
              frames |-> loop.frames]
  BY <1>1, <1>2 DEF VariablesTyped
<1>6. CASE /\ Resident(vm, v) /\ vm' = vm
           /\ loop' = Advance(loop, ArrHeld(loop))
  <2>1. loop' = IF p # <<>> THEN [phase |-> "swapin", arr |-> loop.arr,
                                  todo |-> p, frames |-> loop.frames]
                ELSE held
    <3>1. loop' = Advance(loop, ArrHeld(loop))
      BY <1>6
    <3>2. ArrHeld(loop) = held /\ held.frames = <<>>
      BY <1>2, LoopFields
    <3> QED BY <1>1, <1>2, <3>1, <3>2, Advances
  <2>2. {w \in SeqSet(p) : ~ Resident(vm', w)} = Missing
    BY <1>3, <1>4, <1>6
  <2>3. SeqSet(loop.frames) = Queued
    BY DEF Queued
  <2> QED BY <1>1, <1>2, <1>4, <1>6, <2>1, <2>2, <2>3, SwapInGoesOn
<1>7. CASE /\ ~ Resident(vm, v) /\ loop.frames # <<>>
           /\ vm' = SwapInPage(vm, v, f)
           /\ loop' = Advance(Queueing(loop, Tail(loop.frames)),
                              ArrHeld(Queueing(loop, Tail(loop.frames))))
  <2> DEFINE q == Tail(loop.frames)
  <2>1. loop' = IF p # <<>> THEN [phase |-> "swapin", arr |-> loop.arr,
                                  todo |-> p, frames |-> q]
                ELSE held
    <3> DEFINE l == Queueing(loop, q)
    <3>1. loop' = Advance(l, ArrHeld(l))
      BY <1>7
    <3>2. q \in Seq(FrameId)
      BY <1>2, <1>7, TailOfDistinct
    <3> HIDE DEF q
    <3>3. /\ l \in LoopState /\ l.phase = "swapin" /\ l.arr = loop.arr
          /\ l.todo = loop.todo /\ l.frames = q
      BY <1>1, <1>2, <3>2, LoopFields
    <3> HIDE DEF l
    <3>4. ArrHeld(l) = held
      BY <3>2, <3>3, LoopFields
    <3> QED BY <3>1, <3>3, <3>4, Advances
  <2>2. /\ q \in Seq(FrameId) /\ Distinct(q) /\ f \in FrameId /\ f \in Queued
        /\ SeqSet(q) = Queued \ {f} /\ Len(q) = Len(loop.frames) - 1
    BY <1>2, <1>7, TailOfDistinct DEF Queued
  <2>3. f <= vm.nframes /\ vm.frame[f].virtual_id = NULL_SLOT
    BY <1>2, <2>2 DEF FramesQueued
  <2>4. /\ Sound(vm') /\ Resident(vm', v) /\ vm'.page[v].frame_id = f
        /\ vm'.lists = vm.lists /\ vm'.nframes = vm.nframes
        /\ \A w \in PageId : w \notin Peers(vm, v) => vm'.page[w] = vm.page[w]
        /\ \A g \in FrameId \ {f} : vm'.frame[g] = vm.frame[g]
        /\ vm'.frame[f].pin => vm.frame[f].pin
        /\ vm.frame[f].pin => vm'.frame[f].pin
    BY <1>2, <1>3, <1>7, <2>2, <2>3, SwapInSettles
  <2> HIDE DEF q
  <2>5. \A w \in PinnedPages : w # v => vm'.page[w] = vm.page[w]
    <3> SUFFICES ASSUME NEW w \in PinnedPages, w # v PROVE vm'.page[w] = vm.page[w]
      OBVIOUS
    <3>1. w \notin Peers(vm, v) /\ w \in PageId
      BY <1>2, <1>3, LivePages DEF PinnedApart, Sound
    <3> QED BY <2>4, <3>1
  <2>6. {w \in SeqSet(p) : ~ Resident(vm', w)} = Missing \ {v}
    <3>1. SeqSet(p) \subseteq PinnedPages
      BY <1>2, <1>3 DEF PinnedPages
    <3>2. \A w \in SeqSet(p) : Resident(vm', w) <=> Resident(vm, w)
      BY <1>3, <2>5, <3>1 DEF Resident
    <3> QED BY <1>3, <1>4, <3>2
  <2>7. Cardinality(Missing \ {v}) = Cardinality(Missing) - 1
    BY <1>3, <1>4, <1>7, FS_RemoveElement
  <2>8. Len(q) = Cardinality({w \in SeqSet(p) : ~ Resident(vm', w)})
    BY <1>4, <2>2, <2>6, <2>7
  <2>9. \A g \in FrameId : /\ vm'.frame[g].pin => vm.frame[g].pin
                           /\ vm.frame[g].pin => vm'.frame[g].pin
    BY <2>4
  <2>10. \A w \in PinnedPages : Resident(vm, w) => vm'.page[w] = vm.page[w]
    BY <1>7, <2>5
  <2>11. \A g \in Queued : g \notin SeqSet(q) =>
           \E w \in PinnedPages : vm'.page[w].frame_id = g
    BY <1>3, <2>2, <2>4
  <2>12. \A g \in SeqSet(q) : vm'.frame[g] = vm.frame[g]
    <3>1. Queued \subseteq FrameId
      BY <1>2 DEF Queued, SeqSet
    <3> QED BY <2>2, <2>4, <3>1
  <2> QED BY <1>1, <2>1, <2>2, <2>4, <2>8, <2>9, <2>10, <2>11, <2>12, SwapInGoesOn
<1> QED BY <1>6, <1>7 DEF SwapInPageStep, Queueing, ArrHeld

\* The loop of __requestFrmaeCB goes on with queue q.
LEMMA RequestGoesOn ==
  ASSUME Inv, loop.phase = "request", UNCHANGED <<pinned, written, deletes>>,
         Sound(vm'), vm'.lists = vm.lists,
         NEW q \in Seq(FrameId), Distinct(q),
         Tail(loop.todo) # <<>> =>
           loop' = [phase |-> "request", arr |-> loop.arr,
                    todo |-> Tail(loop.todo), frames |-> q],
         Tail(loop.todo) = <<>> =>
           loop' = [phase |-> "swapin", arr |-> loop.arr,
                    todo |-> loop.arr, frames |-> q],
         Len(q) = Cardinality({w \in Scope \cup {Head(loop.todo)} :
                                 ~ Resident(vm', w)}),
         \A g \in SeqSet(q) : /\ vm'.frame[g].virtual_id = NULL_SLOT
                              /\ g <= vm'.nframes,
         ClockPasses(vm', SeqSet(q)),
         \A w \in Scope \cup {Head(loop.todo)} :
           Resident(vm', w) => FrameOf(vm', w).pin,
         \A w \in pinned : Resident(vm', w) /\ FrameOf(vm', w).pin,
         \A g \in FrameId : g <= vm'.nframes /\ vm'.frame[g].pin =>
           \/ g \in SeqSet(q)
           \/ \E w \in PinnedPages : vm'.page[w].frame_id = g
  PROVE  Inv'
<1> DEFINE p == Tail(loop.todo)
           v == Head(loop.todo)
           S == Scope \cup {v}
           M == {w \in S : ~ Resident(vm', w)}
<1>1. /\ VariablesTyped /\ Sound(vm) /\ PinnedApart
      /\ loop.todo # <<>> /\ SeqSet(loop.todo) \subseteq Arr
      /\ Distinct(loop.todo) /\ Distinct(loop.arr)
      /\ loop.todo \in Seq(PageId) /\ loop.arr \in Seq(PageId)
  BY DEF Inv, LoopRuns, VariablesTyped
<1>2. /\ p \in Seq(PageId) /\ Distinct(p) /\ SeqSet(p) \subseteq Arr
      /\ SeqSet(p) = SeqSet(loop.todo) \ {v} /\ v \in SeqSet(loop.todo) /\ v \in Arr
  BY <1>1, TailOfDistinct
<1>3. S = Arr \ SeqSet(p)
  BY <1>1, <1>2 DEF Scope
<1>4. loop.arr # <<>>
  BY <1>2, SeqSetOfEmpty DEF Arr
<1>5. Len(q) = Cardinality(M)
  OBVIOUS
<1>16. p # <<>> => loop' = [phase |-> "request", arr |-> loop.arr,
                            todo |-> p, frames |-> q]
  OBVIOUS
<1> HIDE DEF p, M
<1>6. /\ loop'.arr = loop.arr /\ loop'.frames = q
      /\ p # <<>> => loop'.phase = "request" /\ loop'.todo = p
      /\ p = <<>> => loop'.phase = "swapin" /\ loop'.todo = loop.arr
  <2>1. CASE p # <<>>
    BY <1>16, <2>1
  <2>2. CASE p = <<>>
    BY <2>2 DEF p
  <2> QED BY <2>1, <2>2
<1>7. Arr' = Arr /\ PinnedPages' = PinnedPages /\ Queued' = SeqSet(q)
  BY <1>6 DEF Arr, PinnedPages, Queued
<1>8. VariablesTyped'
  <2>1. loop' \in LoopState
    <3>1. CASE p # <<>>
      BY <1>1, <1>2, <1>16, <3>1 DEF LoopState
    <3>2. CASE p = <<>>
      BY <1>1, <3>2 DEF LoopState, p
    <3> QED BY <3>1, <3>2
  <2> QED BY <1>1, <2>1 DEF VariablesTyped, LoopState
<1>9. LoopRuns'
  <2>1. loop'.phase \in {"request", "swapin"}
    BY <1>6
  <2>2. /\ loop'.todo # <<>> /\ SeqSet(loop'.todo) \subseteq Arr
        /\ Distinct(loop'.todo)
    BY <1>1, <1>2, <1>4, <1>6 DEF Arr
  <2> QED BY <1>1, <1>6, <1>7, <2>1, <2>2 DEF LoopRuns
<1>10. PinnedApart'
  <2>1. Live(vm') = Live(vm) /\ \A w : Peers(vm', w) = Peers(vm, w)
    BY DEF Live, Peers
  <2> QED BY <1>1, <1>7, <2>1 DEF PinnedApart
<1>11. PinnedStays'
  BY DEF PinnedStays
<1>12. PinnedHeld'
  BY <1>7 DEF PinnedHeld
<1>13. Scope' = S
  <2>1. CASE p # <<>>
    BY <1>3, <1>6, <1>7, <2>1 DEF Scope
  <2>2. CASE p = <<>>
    BY <1>3, <1>6, <1>7, <2>2, SeqSetOfEmpty DEF Scope, Arr
  <2> QED BY <2>1, <2>2
<1>14. Missing' = M
  BY <1>13 DEF Missing, M
<1>15. FramesQueued'
  <2>1. \A w \in Scope' : Resident(vm', w) => FrameOf(vm', w).pin
    BY <1>13
  <2> QED BY <1>5, <1>6, <1>7, <1>14, <2>1 DEF FramesQueued
<1> QED BY <1>8, <1>9, <1>10, <1>11, <1>12, <1>15 DEF Inv

\* The page has a frame: it is pinned there, and the hand will pass it.
LEMMA RequestOfResidentKeeps ==
  ASSUME Inv, loop.phase = "request", UNCHANGED <<pinned, written, deletes>>,
         Resident(vm, Head(loop.todo)),
         vm' = Renewed(Pinned(vm, Head(loop.todo)), Head(loop.todo)),
         loop' = Advance(loop, ArrQueued(loop))
  PROVE  Inv'
<1> DEFINE v == Head(loop.todo)
           f == vm.page[v].frame_id
           s == Pinned(vm, v)
<1>1. /\ VariablesTyped /\ Sound(vm) /\ PinnedApart /\ PinnedStays /\ PinnedHeld
      /\ FramesQueued /\ loop \in LoopState
      /\ loop.todo # <<>> /\ SeqSet(loop.todo) \subseteq Arr
      /\ Distinct(loop.todo) /\ loop.todo \in Seq(PageId) /\ loop.frames \in Seq(FrameId)
  BY DEF Inv, LoopRuns, VariablesTyped, LoopState
<1>2. /\ v \in Arr /\ v \in PinnedPages /\ v \in PageId /\ v \in Live(vm)
      /\ PinnedPages \subseteq PageId /\ Scope \cup {v} \subseteq PinnedPages
  <2>1. v \in SeqSet(loop.todo)
    BY <1>1, TailOfDistinct
  <2>2. v \in Arr /\ v \in PinnedPages
    BY <1>1, <2>1 DEF PinnedPages
  <2>3. PinnedPages \subseteq Live(vm) /\ Live(vm) \subseteq PageId
    BY <1>1, LivePages DEF PinnedApart, Sound
  <2> QED BY <2>2, <2>3, MissingPinned
<1>3. f \in FrameId
  BY <1>1, <1>2 DEF Sound, PagesPlaced, Resident
<1>4. f \notin Queued
  <2>1. vm.frame[f].virtual_id \in Peers(vm, v)
    BY <1>1, <1>2 DEF Sound, FramesPlaced, FrameOf
  <2>2. vm.frame[f].virtual_id # NULL_SLOT
    BY <1>1, <2>1, LivePages DEF Sound
  <2> QED BY <1>1, <2>2 DEF FramesQueued
<1>5. /\ Sound(s) /\ s.page = vm.page /\ s.lists = vm.lists
      /\ s.nframes = vm.nframes /\ s.last = vm.last
      /\ \A g \in FrameId \ {f} : s.frame[g] = vm.frame[g]
      /\ s.frame[f].pin /\ s.frame[f].virtual_id = vm.frame[f].virtual_id
  BY <1>1, <1>3, PinFrame
<1> HIDE DEF s
<1>6. /\ Sound(vm') /\ vm'.page = vm.page /\ vm'.lists = vm.lists
      /\ vm'.nframes = vm.nframes /\ vm'.last = vm.last
      /\ \A g \in FrameId \ {f} : vm'.frame[g] = vm.frame[g]
      /\ vm'.frame[f].pin
  <2>1. vm' = Renewed(s, v) /\ s.page[v].frame_id = f
    BY <1>5 DEF s
  <2>2. s.page[v].frame_id \in FrameId
    BY <1>3, <2>1
  <2> HIDE DEF f
  <2>3. /\ Sound(vm') /\ vm'.page = s.page /\ vm'.lists = s.lists
        /\ vm'.nframes = s.nframes /\ vm'.last = s.last
        /\ \A g \in FrameId \ {f} : vm'.frame[g] = s.frame[g]
        /\ s.frame[f].pin => vm'.frame[f].pin
    BY <1>5, <2>1, <2>2, RenewFrame
  <2> QED BY <1>5, <2>3
<1> HIDE DEF f
<1>7. \A w \in PageId : Resident(vm', w) <=> Resident(vm, w)
  BY <1>6 DEF Resident
<1>8. \A w \in PageId : Resident(vm, w) /\ FrameOf(vm, w).pin => FrameOf(vm', w).pin
  <2> SUFFICES ASSUME NEW w \in PageId, Resident(vm, w), FrameOf(vm, w).pin
               PROVE  FrameOf(vm', w).pin
    OBVIOUS
  <2>1. vm.page[w].frame_id \in FrameId
    BY <1>1 DEF Sound, PagesPlaced, Resident
  <2> QED BY <1>6, <2>1 DEF FrameOf
<1>9. FrameOf(vm', v).pin
  BY <1>6 DEF FrameOf, f
<1>10. ClockPasses(vm', Queued)
  <2> SUFFICES ASSUME NEW q \in Queued, ~ vm'.frame[q].pin
               PROVE  /\ ~ HasFresh(vm')
                      /\ \A g \in FrameId \ Queued : ~ vm'.frame[g].pin =>
                           /\ vm'.frame[q].considered =>
                                /\ vm'.frame[g].considered
                                /\ Dist(vm', g) < Dist(vm', q)
                           /\ ~ vm'.frame[g].considered =>
                                Dist(vm', g) < Dist(vm', q)
    BY DEF ClockPasses
  <2>1. q \in FrameId
    BY <1>1 DEF Queued, SeqSet
  <2>2. vm'.frame[q] = vm.frame[q]
    BY <1>4, <1>6, <2>1
  <2>3. ClockPasses(vm, Queued)
    BY <1>1 DEF FramesQueued
  <2>4. ~ HasFresh(vm')
    BY <1>6, <2>2, <2>3 DEF ClockPasses, HasFresh
  <2>5. \A g : Dist(vm', g) = Dist(vm, g)
    BY <1>6 DEF Dist
  <2>6. ASSUME NEW g \in FrameId \ Queued, ~ vm'.frame[g].pin
        PROVE  /\ vm'.frame[q].considered =>
                    /\ vm'.frame[g].considered
                    /\ Dist(vm', g) < Dist(vm', q)
               /\ ~ vm'.frame[g].considered => Dist(vm', g) < Dist(vm', q)
    <3>1. vm'.frame[g] = vm.frame[g]
      BY <1>6, <2>6
    <3> QED BY <2>2, <2>3, <2>5, <2>6, <3>1 DEF ClockPasses
  <2> QED BY <2>4, <2>6
<1>11. {w \in Scope \cup {v} : ~ Resident(vm', w)} = Missing
  BY <1>2, <1>7 DEF Missing
<1>12. Len(loop.frames) = Cardinality({w \in Scope \cup {v} : ~ Resident(vm', w)})
  BY <1>1, <1>11 DEF FramesQueued
<1>13. \A w \in Scope \cup {v} : Resident(vm', w) => FrameOf(vm', w).pin
  <2>1. \A w \in Scope : Resident(vm, w) => FrameOf(vm, w).pin
    BY <1>1 DEF FramesQueued
  <2> QED BY <1>2, <1>7, <1>8, <1>9, <2>1
<1>14. \A w \in pinned : Resident(vm', w) /\ FrameOf(vm', w).pin
  BY <1>1, <1>7, <1>8 DEF PinnedStays, VariablesTyped
<1>15. \A g \in FrameId : g <= vm'.nframes /\ vm'.frame[g].pin =>
         \/ g \in Queued
         \/ \E w \in PinnedPages : vm'.page[w].frame_id = g
  <2> SUFFICES ASSUME NEW g \in FrameId, g <= vm'.nframes, vm'.frame[g].pin
               PROVE  \/ g \in Queued
                      \/ \E w \in PinnedPages : vm'.page[w].frame_id = g
    OBVIOUS
  <2>1. CASE g = f
    BY <1>2, <1>6, <2>1 DEF f
  <2>2. CASE g # f
    BY <1>1, <1>6, <2>2 DEF PinnedHeld
  <2> QED BY <2>1, <2>2
<1>16. \A g \in Queued : vm'.frame[g].virtual_id = NULL_SLOT /\ g <= vm'.nframes
  <2>1. Queued \subseteq FrameId
    BY <1>1 DEF Queued, SeqSet
  <2> QED BY <1>1, <1>4, <1>6, <2>1 DEF FramesQueued
<1>17. /\ Tail(loop.todo) # <<>> =>
            loop' = [phase |-> "request", arr |-> loop.arr,
                     todo |-> Tail(loop.todo), frames |-> loop.frames]
       /\ Tail(loop.todo) = <<>> =>
            loop' = [phase |-> "swapin", arr |-> loop.arr,
                     todo |-> loop.arr, frames |-> loop.frames]
  BY <1>1, Advances, LoopFields
<1>18. SeqSet(loop.frames) = Queued /\ Distinct(loop.frames)
  BY <1>1 DEF Queued, FramesQueued
<1> QED BY <1>1, <1>6, <1>10, <1>12, <1>13, <1>14, <1>15, <1>16, <1>17, <1>18,
           RequestGoesOn

\* The page has none: a frame is queued for it, which was not queued before
\* and in which no page of the array is.
LEMMA RequestOfMissingKeeps ==
  ASSUME Inv, loop.phase = "request", UNCHANGED <<pinned, written, deletes>>,
         ~ Resident(vm, Head(loop.todo)),
         NEW f, f = RequestFrame(vm).frame, vm' = RequestFrame(vm).vm,
         loop' = Advance(Queueing(loop, Append(loop.frames, f)),
                         ArrQueued(Queueing(loop, Append(loop.frames, f))))
  PROVE  Inv'
<1> DEFINE v == Head(loop.todo)
           q == Append(loop.frames, f)
           l == Queueing(loop, q)
<1>1. /\ VariablesTyped /\ Sound(vm) /\ PinnedApart /\ PinnedStays /\ PinnedHeld
      /\ FramesQueued /\ loop \in LoopState
      /\ loop.todo # <<>> /\ SeqSet(loop.todo) \subseteq Arr
      /\ Distinct(loop.todo) /\ loop.todo \in Seq(PageId)
      /\ loop.frames \in Seq(FrameId) /\ Distinct(loop.frames)
      /\ ClockPasses(vm, Queued)
      /\ \A w \in Scope : Resident(vm, w) => FrameOf(vm, w).pin
  BY DEF Inv, LoopRuns, VariablesTyped, LoopState, FramesQueued
<1>2. /\ v \in Arr /\ v \in PageId /\ v \notin Scope
      /\ PinnedPages \subseteq PageId /\ Scope \cup {v} \subseteq PinnedPages
      /\ PinnedPages \subseteq Live(vm)
  <2>1. v \in SeqSet(loop.todo)
    BY <1>1, TailOfDistinct
  <2>2. v \in Arr /\ v \in PinnedPages /\ v \notin Scope
    BY <1>1, <2>1 DEF PinnedPages, Scope
  <2>3. PinnedPages \subseteq Live(vm) /\ Live(vm) \subseteq PageId
    BY <1>1, LivePages DEF PinnedApart, Sound
  <2> QED BY <2>2, <2>3, MissingPinned
<1>3. Queued \subseteq FrameId /\ \A g \in Queued : g <= vm.nframes
  BY <1>1 DEF Queued, SeqSet, FramesQueued
<1>4. Freed(vm, vm', f)
  BY <1>1, SomeFrame, RequestFrameFrees
<1>5. f \notin Queued /\ ClockPasses(vm', Queued \cup {f})
  BY <1>1, <1>3, SomeFrame, FrameLeft, RequestKeepsClock
<1>6. f \in FrameId /\ Sound(vm') /\ vm'.lists = vm.lists /\ vm.nframes <= vm'.nframes
  BY <1>4 DEF Freed
<1>7. /\ q \in Seq(FrameId) /\ Distinct(q) /\ Len(q) = Len(loop.frames) + 1
      /\ SeqSet(q) = Queued \cup {f}
  BY <1>1, <1>5, <1>6, AppendToDistinct DEF Queued
<1> HIDE DEF q
<1>8. \A w \in PageId :
        ~ Resident(vm, w) \/ FrameOf(vm, w).pin \/ w \notin Live(vm)
          => vm'.page[w] = vm.page[w]
  <2> SUFFICES ASSUME NEW w \in PageId,
                      ~ Resident(vm, w) \/ FrameOf(vm, w).pin \/ w \notin Live(vm)
               PROVE  vm.page[w].frame_id # f
    BY <1>4 DEF Freed
  <2> SUFFICES ASSUME vm.page[w].frame_id = f
               PROVE  FALSE
    OBVIOUS
  <2>1. Resident(vm, w)
    BY <1>6, FrameNumbers DEF Resident, HasFrame
  <2>2. w \in Live(vm)
    BY <1>1, <2>1 DEF Sound, PagesPlaced, Resident, HasFrame, NewPage
  <2>3. vm.frame[f].virtual_id \in Peers(vm, w)
    BY <1>1, <2>1, <2>2 DEF Sound, FramesPlaced, FrameOf
  <2>4. vm.frame[f].virtual_id # NULL_SLOT
    BY <1>1, <2>3, LivePages DEF Sound
  <2>5. ~ vm.frame[f].pin
    BY <1>4, <2>4 DEF Freed
  <2> QED BY <2>1, <2>2, <2>5 DEF FrameOf
<1>9. \A w \in Scope \cup {v} : vm'.page[w] = vm.page[w]
  BY <1>1, <1>2, <1>8
<1>10. \A g \in FrameId : g # f => /\ vm'.frame[g].pin => vm.frame[g].pin
                                   /\ vm.frame[g].pin => vm'.frame[g].pin
                                   /\ vm'.frame[g].virtual_id = vm.frame[g].virtual_id
                                   /\ g <= vm'.nframes => g <= vm.nframes
  BY <1>4 DEF Freed
<1>11. \A w \in PageId : Resident(vm, w) /\ FrameOf(vm, w).pin =>
         Resident(vm', w) /\ FrameOf(vm', w).pin
  <2> SUFFICES ASSUME NEW w \in PageId, Resident(vm, w), FrameOf(vm, w).pin
               PROVE  Resident(vm', w) /\ FrameOf(vm', w).pin
    OBVIOUS
  <2>1. vm'.page[w] = vm.page[w] /\ vm.page[w].frame_id \in FrameId
    BY <1>1, <1>8 DEF Sound, PagesPlaced, Resident
  <2>2. CASE vm.page[w].frame_id = f
    <3>1. w \in Live(vm)
      BY <1>1 DEF Sound, PagesPlaced, Resident, HasFrame, NewPage
    <3>2. vm.frame[f].virtual_id \in Peers(vm, w)
      BY <1>1, <2>2, <3>1 DEF Sound, FramesPlaced, FrameOf
    <3>3. vm.frame[f].virtual_id # NULL_SLOT
      BY <1>1, <3>2, LivePages DEF Sound
    <3> QED BY <1>4, <2>2, <3>3 DEF Freed, FrameOf
  <2>3. CASE vm.page[w].frame_id # f
    BY <1>10, <2>1, <2>3 DEF Resident, FrameOf
  <2> QED BY <2>2, <2>3
<1>12. Len(q) = Cardinality({w \in Scope \cup {v} : ~ Resident(vm', w)})
  <2>1. {w \in Scope \cup {v} : ~ Resident(vm', w)} = Missing \cup {v}
    BY <1>9 DEF Missing, Resident
  <2>2. v \notin Missing /\ IsFiniteSet(Missing)
    BY <1>2, MissingPinned DEF Missing
  <2>3. Cardinality(Missing \cup {v}) = Cardinality(Missing) + 1
    BY <2>2, FS_AddElement
  <2>4. Len(loop.frames) = Cardinality(Missing)
    BY <1>1 DEF FramesQueued
  <2> QED BY <1>7, <2>1, <2>3, <2>4
<1>13. \A w \in Scope \cup {v} : Resident(vm', w) => FrameOf(vm', w).pin
  <2> SUFFICES ASSUME NEW w \in Scope \cup {v}, Resident(vm', w)
               PROVE  FrameOf(vm', w).pin
    OBVIOUS
  <2>1. Resident(vm, w)
    BY <1>9 DEF Resident
  <2>2. w \in Scope /\ w \in PageId
    BY <1>2, <2>1
  <2> QED BY <1>1, <1>11, <2>1, <2>2
<1>14. \A w \in pinned : Resident(vm', w) /\ FrameOf(vm', w).pin
  BY <1>1, <1>11 DEF PinnedStays, VariablesTyped
<1>15. \A g \in FrameId : g <= vm'.nframes /\ vm'.frame[g].pin =>
         \/ g \in SeqSet(q)
         \/ \E w \in PinnedPages : vm'.page[w].frame_id = g
  <2> SUFFICES ASSUME NEW g \in FrameId, g <= vm'.nframes, vm'.frame[g].pin,
                      g \notin SeqSet(q)
               PROVE  \E w \in PinnedPages : vm'.page[w].frame_id = g
    OBVIOUS
  <2>1. g # f /\ g \notin Queued
    BY <1>7
  <2>2. PICK w \in PinnedPages : vm.page[w].frame_id = g
    BY <1>1, <1>10, <2>1 DEF PinnedHeld
  <2>3. vm'.page[w] = vm.page[w]
    BY <1>2, <1>4, <2>1, <2>2 DEF Freed
  <2> QED BY <2>2, <2>3
<1>16. \A g \in SeqSet(q) : vm'.frame[g].virtual_id = NULL_SLOT /\ g <= vm'.nframes
  <2> SUFFICES ASSUME NEW g \in Queued \cup {f}
               PROVE  vm'.frame[g].virtual_id = NULL_SLOT /\ g <= vm'.nframes
    BY <1>7
  <2>1. CASE g = f
    BY <1>4, <2>1 DEF Freed
  <2>2. CASE g \in Queued
    <3>1. g \in FrameId /\ g # f /\ g <= vm.nframes /\ g \in Nat
      BY <1>3, <1>5, <2>2, FrameIds
    <3>2. vm'.frame[g].virtual_id = NULL_SLOT
      BY <1>1, <1>10, <2>2, <3>1 DEF FramesQueued
    <3>3. vm.nframes \in Nat /\ vm'.nframes \in Nat
      BY <1>1, <1>6, FrameAssumption DEF Sound, VmRecord
    <3> QED BY <1>6, <3>1, <3>2, <3>3
  <2> QED BY <2>1, <2>2
<1>17. /\ Tail(loop.todo) # <<>> =>
            loop' = [phase |-> "request", arr |-> loop.arr,
                     todo |-> Tail(loop.todo), frames |-> q]
       /\ Tail(loop.todo) = <<>> =>
            loop' = [phase |-> "swapin", arr |-> loop.arr,
                     todo |-> loop.arr, frames |-> q]
  <2>1. loop' = Advance(l, ArrQueued(l))
    BY DEF q
  <2>2. /\ l \in LoopState /\ l.phase = "request" /\ l.arr = loop.arr
        /\ l.todo = loop.todo /\ l.frames = q
    BY <1>1, <1>7, LoopFields
  <2> HIDE DEF l
  <2>3. ArrQueued(l) = [phase |-> "swapin", arr |-> loop.arr,
                        todo |-> loop.arr, frames |-> q]
    BY <1>7, <2>2, LoopFields
  <2> QED BY <2>1, <2>2, <2>3, Advances
<1> QED BY <1>5, <1>6, <1>7, <1>12, <1>13, <1>14, <1>15, <1>16, <1>17, RequestGoesOn

LEMMA RequestFrameKeeps ==
  ASSUME Inv, RequestFrameStep
  PROVE  Inv'
<1> DEFINE v == Head(loop.todo)
           f == RequestFrame(vm).frame
           l == Queueing(loop, Append(loop.frames, f))
<1>1. loop.phase = "request" /\ UNCHANGED <<pinned, written, deletes>>
  BY DEF RequestFrameStep
<1>2. CASE /\ Resident(vm, v) /\ vm' = Renewed(Pinned(vm, v), v)
           /\ loop' = Advance(loop, ArrQueued(loop))
  BY <1>1, <1>2, RequestOfResidentKeeps
<1>3. CASE /\ ~ Resident(vm, v) /\ vm' = RequestFrame(vm).vm
           /\ loop' = Advance(l, ArrQueued(l))
  BY <1>1, <1>3, RequestOfMissingKeeps
<1> QED BY <1>2, <1>3 DEF RequestFrameStep, Queueing, ArrQueued, Renewed, Pinned

-----------------------------------------------------------------------------
(* The invariant *)

LEMMA InitSound ==
  ASSUME Init
  PROVE  Sound(vm)
<1>1. /\ vm.page = [v \in PageId |-> NewPage] /\ vm.lists = {}
      /\ vm.frame = [f \in FrameId |-> NewFrame] /\ vm.nframes = 0
      /\ vm.last = 0 /\ vm.disk = EmptyTable(0)
      /\ vm.cap = [v \in PageId |-> Unmapped]
      /\ vm.data = [f \in FrameId |-> Junk]
      /\ vm.swap = [b \in 0..(DISK_START - 1) |-> Junk]
      /\ vm = [page |-> vm.page, lists |-> vm.lists, frame |-> vm.frame,
               nframes |-> vm.nframes, last |-> vm.last, disk |-> vm.disk,
               cap |-> vm.cap, data |-> vm.data, swap |-> vm.swap]
  BY DEF Init
<1>2. vm.disk \in Table /\ vm.disk.free \subseteq 1..vm.disk.size
  BY <1>1, SlotSizeAssumption DEF EmptyTable, Table
<1>3. vm.page \in [PageId -> PageRecord] /\ vm.cap \in [PageId -> Mapping]
  <2>1. NewPage \in PageRecord
    BY FrameAssumption DEF NewPage, PageRecord
  <2>2. Unmapped \in Mapping
    BY FrameAssumption DEF Unmapped, Mapping
  <2> QED BY <1>1, <2>1, <2>2
<1>4. vm.frame \in [FrameId -> FrameRecord]
  <2>1. NewFrame \in FrameRecord
    BY FrameAssumption DEF NewFrame, FrameRecord
  <2> QED BY <1>1, <2>1
<1>5. /\ vm.data \in [FrameId -> Content]
      /\ vm.swap \in [0..(DISK_START - 1) -> Content]
  BY <1>1 DEF Content
<1>6. vm.nframes \in 0..FRAME_LIMIT /\ vm.last \in 0..(FRAME_LIMIT - 1)
  BY <1>1, FrameAssumption
<1>7. vm \in VmRecord
  BY <1>1, <1>2, <1>3, <1>4, <1>5, <1>6 DEF VmRecord
<1>8. Live(vm) = {}
  BY <1>1 DEF Live
<1>9. ListsApart(vm)
  BY <1>1 DEF ListsApart
<1>10. PagesPlaced(vm)
  BY <1>1, <1>8 DEF PagesPlaced, HasFrame, NewPage
<1>11. FramesPlaced(vm)
  BY <1>1, <1>8 DEF FramesPlaced, NewFrame
<1>12. CapsTracked(vm)
  BY <1>1 DEF CapsTracked, NewPage, Unmapped
<1> QED BY <1>2, <1>7, <1>9, <1>10, <1>11, <1>12 DEF Sound

LEMMA InitInv == Init => Inv
<1> SUFFICES ASSUME Init PROVE Inv
  OBVIOUS
<1>1. loop = Idle /\ pinned = {} /\ vm.nframes = 0
  BY DEF Init
<1>2. Sound(vm)
  BY InitSound
<1>3. VariablesTyped
  <2>1. <<>> \in Seq(PageId) /\ <<>> \in Seq(FrameId)
    OBVIOUS
  <2>2. loop \in [phase : {"idle", "request", "swapin", "held"},
                  arr : Seq(PageId), todo : Seq(PageId), frames : Seq(FrameId)]
    BY <1>1, <2>1 DEF Idle
  <2>3. written \in [PageId -> Value \cup {Unwritten}]
    BY DEF Init
  <2>4. deletes \in 0..MaxDeletes
    BY FrameAssumption DEF Init
  <2> QED BY <1>1, <2>2, <2>3, <2>4 DEF VariablesTyped
<1>4. LoopRuns
  BY <1>1 DEF LoopRuns, Idle
<1>5. /\ Queued = {} /\ Scope = {} /\ Missing = {} /\ PinnedPages = {}
      /\ loop.frames = <<>> /\ loop.phase = "idle"
  BY <1>1, SeqSetOfEmpty DEF Queued, Scope, Missing, PinnedPages, Arr, Idle
<1>6. PinnedApart
  BY <1>1, <1>5, FS_EmptySet, FrameAssumption DEF PinnedApart
<1>7. PinnedStays
  BY <1>1 DEF PinnedStays
<1>8. PinnedHeld
  BY <1>1, FrameNumbers DEF PinnedHeld
<1>9. FramesQueued
  <2>1. Len(loop.frames) = Cardinality(Missing)
    BY <1>5, FS_EmptySet
  <2> QED BY <1>5, <2>1, SeqSetOfEmpty DEF FramesQueued
<1> QED BY <1>2, <1>3, <1>4, <1>6, <1>7, <1>8, <1>9 DEF Inv

LEMMA NextKeeps == Inv /\ [Next]_vars => Inv'
<1> SUFFICES ASSUME Inv, [Next]_vars PROVE Inv'
  OBVIOUS
<1>1. ASSUME NEW v \in PageId, PageCall(v)
      PROVE  Inv'
  BY <1>1, AllocPageKeeps, PinPageKeeps, UnpinPageKeeps, MarkPageDirtyKeeps,
     GetVaddrKeeps, GetMapContextKeeps, DelPageKeeps DEF PageCall
<1>2. ASSUME NEW v \in PageId, NEW x \in Value, Store(v, x) \/ AppStore(v, x)
      PROVE  Inv'
  BY <1>2, StoreKeeps, AppStoreKeeps
<1>3. ASSUME NEW v \in PageId, NEW w \in PageId, DupPageMap(v, w)
      PROVE  Inv'
  BY <1>3, DupPageMapKeeps
<1>4. ASSUME NEW n \in ArrLengths, NEW arr \in [1..n -> PageId], PinPageArr(arr)
      PROVE  Inv'
  BY <1>4, PinPageArrKeeps
<1>5. CASE RequestFrameStep
  BY <1>5, RequestFrameKeeps
<1>6. CASE SwapInPageStep
  BY <1>6, SwapInPageKeeps
<1>7. CASE UnpinPageArr
  BY <1>7, UnpinPageArrKeeps
<1>8. CASE UNCHANGED vars
  <2>1. /\ vm' = vm /\ loop' = loop /\ pinned' = pinned /\ written' = written
        /\ deletes' = deletes
    BY <1>8 DEF vars
  <2>2. VariablesTyped' /\ LoopRuns'
    BY <2>1 DEF Inv, VariablesTyped, LoopRuns, Arr
  <2>3. PinnedApart' /\ PinnedStays' /\ PinnedHeld'
    BY <2>1 DEF Inv, PinnedApart, PinnedStays, PinnedHeld, PinnedPages, Arr, Queued
  <2>4. FramesQueued'
    BY <2>1 DEF Inv, FramesQueued, Queued, Missing, Scope, Arr
  <2> QED BY <2>1, <2>2, <2>3, <2>4 DEF Inv
<1> QED BY <1>1, <1>2, <1>3, <1>4, <1>5, <1>6, <1>7, <1>8 DEF Next

(***************************************************************************)
(* The records of pages, lists and frames stay in agreement, and the loop  *)
(* of VirtualFrame__pinPageArr finds at every page what it left there.     *)
(***************************************************************************)
THEOREM InvHolds == Spec => []Inv
BY InitInv, NextKeeps, PTL DEF Spec

(***************************************************************************)
(* Every frame's virtual_id names a page that is on the frame, and all the *)
(* pages on a frame are one list: what the clock evicts by virtual_id, and *)
(* what VirtualFrame__delPage hands on.                                    *)
(***************************************************************************)
THEOREM PagesKnowTheirFrames == Spec => []FrameHasItsPages
<1>1. Inv => FrameHasItsPages
  <2> SUFFICES ASSUME Inv PROVE FrameHasItsPages
    OBVIOUS
  <2>1. VariablesTyped /\ Sound(vm)
    BY DEF Inv
  <2>2. TypeOK
    BY <2>1 DEF TypeOK, VariablesTyped, Sound, VmRecord, Table
  <2>3. \A v \in Live(vm) : \A w \in Peers(vm, v) :
          vm.page[w].frame_id = vm.page[v].frame_id
    BY <2>1 DEF Sound, PagesPlaced
  <2>4. /\ \A v \in Live(vm) :
             Resident(vm, v) => FrameOf(vm, v).virtual_id \in Peers(vm, v)
        /\ \A f \in FrameId :
             LET owner == vm.frame[f].virtual_id
             IN  owner # NULL_SLOT => /\ owner \in Live(vm)
                                      /\ vm.page[owner].frame_id = f
    BY <2>1 DEF Sound, FramesPlaced
  <2> QED BY <2>2, <2>3, <2>4 DEF FrameHasItsPages
<1> QED BY <1>1, InvHolds, PTL

(***************************************************************************)
(* The mapped bit of a page and the driver's capability agree, so that the *)
(* assertions of FrameTable__mapCap and FrameTable__unMapCap never fail.   *)
(***************************************************************************)
THEOREM MappingsAgree == Spec => []MappedTracksCap
<1>1. Inv => MappedTracksCap
  BY DEF Inv, Sound, CapsTracked, MappedTracksCap
<1> QED BY <1>1, InvHolds, PTL

(***************************************************************************)
(* Wherever an application can write, its page is on the frame mapped, and *)
(* that frame will be written to the swap file.                            *)
(***************************************************************************)
THEOREM WritesAreNotLost == Spec => []WritableMeansDirty
<1>1. Inv => WritableMeansDirty
  BY DEF Inv, Sound, CapsTracked, WritableMeansDirty
<1> QED BY <1>1, InvHolds, PTL

(***************************************************************************)
(* No request, eviction, sharing, deletion or array takes the frame of a   *)
(* page that VirtualFrame__pinPage pinned, or unpins it.                   *)
(***************************************************************************)
THEOREM PinsHold == Spec => []PinnedStays
<1>1. Inv => PinnedStays
  BY DEF Inv
<1> QED BY <1>1, InvHolds, PTL

(***************************************************************************)
(* `assert(victim != 0)` of __requestFrame does not fail while clients pin *)
(* fewer pages than there are frames: no frame stays pinned for nobody.    *)
(***************************************************************************)
THEOREM VictimsAreFound == Spec => []VictimExists
<1>1. Inv => VictimExists
  BY SomeFrame DEF VictimExists
<1> QED BY <1>1, InvHolds, PTL

(***************************************************************************)
(* The frames VirtualFrame__pinPageArr queues are distinct, hold no page,  *)
(* though the clock may come by those that are not pinned, and suffice for *)
(* the pages to be swapped in.                                             *)
(***************************************************************************)
THEOREM QueuedFramesSuffice == Spec => []QueuedFramesFree
<1>1. ASSUME Inv
      PROVE  QueuedFramesFree
  <2> DEFINE I == {i \in DOMAIN loop.todo : ~ Resident(vm, loop.todo[i])}
             at == [i \in I |-> loop.todo[i]]
  <2>1. VariablesTyped /\ LoopRuns /\ FramesQueued
    BY <1>1 DEF Inv
  <2>2. \A i \in DOMAIN loop.frames :
          vm.frame[loop.frames[i]].virtual_id = NULL_SLOT
    BY <2>1 DEF FramesQueued, Queued, SeqSet
  <2>3. ASSUME loop.phase = "swapin"
        PROVE  Len(loop.frames) = Cardinality(I)
    <3>1. /\ loop.todo \in Seq(PageId) /\ Distinct(loop.todo)
          /\ Missing = {v \in SeqSet(loop.todo) : ~ Resident(vm, v)}
          /\ Len(loop.frames) = Cardinality(Missing)
      BY <2>1, <2>3 DEF VariablesTyped, LoopRuns, FramesQueued, Missing, Scope
    <3>2. IsFiniteSet(I)
      <4>1. DOMAIN loop.todo = 1..Len(loop.todo) /\ Len(loop.todo) \in Nat
        BY <3>1
      <4>2. IsFiniteSet(DOMAIN loop.todo)
        BY <4>1, FS_Interval
      <4> QED BY <4>2, FS_Subset
    <3>3. at \in Bijection(I, Missing)
      <4>1. at \in [I -> Missing]
        BY <3>1 DEF SeqSet
      <4>2. \A v \in Missing : \E i \in I : at[i] = v
        BY <3>1 DEF SeqSet
      <4>3. \A i, j \in I : at[i] = at[j] => i = j
        BY <3>1 DEF Distinct
      <4> HIDE DEF at, I
      <4>4. at \in Injection(I, Missing)
        BY <4>1, <4>3 DEF Injection, IsInjective
      <4>5. at \in Surjection(I, Missing)
        BY <4>1, <4>2 DEF Surjection
      <4> QED BY <4>4, <4>5 DEF Bijection
    <3> HIDE DEF at, I
    <3>4. Cardinality(I) = Cardinality(Missing)
      BY <3>2, <3>3, FS_Bijection DEF ExistsBijection
    <3> QED BY <3>1, <3>4
  <2> QED BY <2>1, <2>2, <2>3 DEF QueuedFramesFree, FramesQueued
<1> QED BY <1>1, InvHolds, PTL

-----------------------------------------------------------------------------
(* What the pages hold *)

\* BlockOf and Contents of the properties, of any page cache s.
BlockIn(s, v) ==
  IF Resident(s, v) THEN FrameOf(s, v).disk_id
  ELSE IF OnDisk(s.page[v]) THEN s.page[v].frame_id - DISK_START ELSE 0

Contains(s, v) ==
  IF Resident(s, v) THEN s.data[s.page[v].frame_id]
  ELSE IF OnDisk(s.page[v]) THEN s.swap[s.page[v].frame_id - DISK_START]
  ELSE Zero

\* Whether it is known what page v holds, and what: `wr` is what was written.
\* Of a page that nobody has written it is not when arrays are pinned.
Known(wr, v) == wr[v] # Unwritten \/ ArrLengths = {}
Due(wr, v)   == IF wr[v] = Unwritten THEN Zero ELSE wr[v]

\* The list of page v holds what it should, in a place from which it will not
\* be dropped, and its block, if it has one, is allocated.
PageStored(s, wr, v) ==
  /\ s.page[v].frame_id # DISK_START
  /\ \A u \in Peers(s, v) : wr[u] = wr[v]
  /\ Known(wr, v) => Contains(s, v) = Due(wr, v)
  /\ wr[v] # Unwritten =>
       /\ s.page[v].frame_id # 0
       /\ Resident(s, v) => FrameOf(s, v).dirty \/ FrameOf(s, v).disk_id # 0
  /\ BlockIn(s, v) # 0 => BlockIn(s, v) \in 1..s.disk.size \ s.disk.free

\* No two lists have the same block.
BlocksApart(s) ==
  \A v \in Live(s) : BlockIn(s, v) # 0 =>
    \A u \in Live(s) \ Peers(s, v) : BlockIn(s, u) # BlockIn(s, v)

\* A frame without a page has no block, and a slot not in use no contents.
RestBlank(s, wr) ==
  /\ \A f \in FrameId : s.frame[f].virtual_id = NULL_SLOT => s.frame[f].disk_id = 0
  /\ \A v \in PageId \ Live(s) : wr[v] = Unwritten

Stored(s, wr) ==
  /\ Counted(s.disk, 0)
  /\ \A v \in Live(s) : PageStored(s, wr, v)
  /\ BlocksApart(s) /\ RestBlank(s, wr)

\* Until a page is deleted, for then blocks are given back by wrong numbers,
\* and until a block's number has no place in the bit field of a frame.
Accountable == deletes = 0 /\ vm.disk.size < DISK_START

DataInv ==
  /\ ArrLengths = {} => loop.phase = "idle"
  /\ Accountable => Stored(vm, written)

-----------------------------------------------------------------------------
(* Steps of the page cache that keep what is stored *)

\* Where the places of the lists change, or not, but not their blocks, what
\* they hold and how they are kept is all there is to show.
LEMMA KeptStored ==
  ASSUME NEW s, NEW wr, Stored(s, wr),
         NEW t, t.lists = s.lists, t.disk = s.disk,
         \A v \in Live(s) :
           /\ BlockIn(t, v) = BlockIn(s, v)
           /\ t.page[v].frame_id # DISK_START
           /\ Known(wr, v) => Contains(t, v) = Due(wr, v)
           /\ wr[v] # Unwritten =>
                /\ t.page[v].frame_id # 0
                /\ Resident(t, v) => FrameOf(t, v).dirty \/ FrameOf(t, v).disk_id # 0,
         \A f \in FrameId :
           t.frame[f].virtual_id = NULL_SLOT => t.frame[f].disk_id = 0
  PROVE  Stored(t, wr)
<1>1. Live(t) = Live(s) /\ \A v : Peers(t, v) = Peers(s, v)
  BY DEF Live, Peers
<1>2. ASSUME NEW v \in Live(s)
      PROVE  PageStored(t, wr, v)
  <2>1. PageStored(s, wr, v)
    BY DEF Stored
  <2> QED BY <1>1, <2>1 DEF PageStored
<1>3. BlocksApart(t)
  BY <1>1 DEF Stored, BlocksApart
<1>4. RestBlank(t, wr)
  BY <1>1 DEF Stored, RestBlank
<1> QED BY <1>1, <1>2, <1>3, <1>4 DEF Stored

\* Only marks are set, and the dirty bit is not reset.
Keeps(s, t) ==
  /\ t.lists = s.lists /\ t.disk = s.disk /\ t.data = s.data /\ t.swap = s.swap
  /\ \A v \in PageId : t.page[v].frame_id = s.page[v].frame_id
  /\ \A f \in FrameId : /\ t.frame[f].virtual_id = s.frame[f].virtual_id
                        /\ t.frame[f].disk_id = s.frame[f].disk_id
                        /\ s.frame[f].dirty => t.frame[f].dirty

\* Every page is where it was and holds what it held.
LEMMA SamePlaces ==
  ASSUME NEW s, PagesPlaced(s), NEW v \in PageId, NEW t,
         t.page[v].frame_id = s.page[v].frame_id
  PROVE  /\ Resident(t, v) <=> Resident(s, v)
         /\ Resident(s, v) => s.page[v].frame_id \in FrameId
         /\ t.data = s.data /\ t.swap = s.swap => Contains(t, v) = Contains(s, v)
         /\ (\A f \in FrameId : t.frame[f].disk_id = s.frame[f].disk_id)
              => BlockIn(t, v) = BlockIn(s, v)
<1>1. Resident(t, v) <=> Resident(s, v)
  BY DEF Resident, HasFrame
<1>2. Resident(s, v) => s.page[v].frame_id \in FrameId
  BY DEF PagesPlaced, Resident
<1>3. OnDisk(t.page[v]) <=> OnDisk(s.page[v])
  BY DEF OnDisk
<1> QED BY <1>1, <1>2, <1>3 DEF Contains, BlockIn, FrameOf

LEMMA KeepsStored ==
  ASSUME NEW s, Sound(s), NEW wr, Stored(s, wr), NEW t, Keeps(s, t)
  PROVE  Stored(t, wr)
<1>1. Live(s) \subseteq PageId /\ PagesPlaced(s)
  BY LivePages DEF Sound
<1>2. ASSUME NEW v \in Live(s)
      PROVE  /\ BlockIn(t, v) = BlockIn(s, v)
             /\ t.page[v].frame_id # DISK_START
             /\ Known(wr, v) => Contains(t, v) = Due(wr, v)
             /\ wr[v] # Unwritten =>
                  /\ t.page[v].frame_id # 0
                  /\ Resident(t, v) => FrameOf(t, v).dirty \/ FrameOf(t, v).disk_id # 0
  <2>1. PageStored(s, wr, v)
    BY DEF Stored
  <2>2. t.page[v].frame_id = s.page[v].frame_id
    BY <1>1 DEF Keeps
  <2>3. /\ Resident(t, v) <=> Resident(s, v)
        /\ Resident(s, v) => s.page[v].frame_id \in FrameId
        /\ Contains(t, v) = Contains(s, v) /\ BlockIn(t, v) = BlockIn(s, v)
    <3>1. \A f \in FrameId : t.frame[f].disk_id = s.frame[f].disk_id
      BY DEF Keeps
    <3>2. t.data = s.data /\ t.swap = s.swap
      BY DEF Keeps
    <3> QED BY <1>1, <2>2, <3>1, <3>2, SamePlaces
  <2>4. Resident(s, v) /\ (FrameOf(s, v).dirty \/ FrameOf(s, v).disk_id # 0)
          => FrameOf(t, v).dirty \/ FrameOf(t, v).disk_id # 0
    BY <2>2, <2>3 DEF Keeps, FrameOf
  <2> QED BY <2>1, <2>2, <2>3, <2>4 DEF PageStored
<1>3. \A f \in FrameId :
        t.frame[f].virtual_id = NULL_SLOT => t.frame[f].disk_id = 0
  BY DEF Keeps, Stored, RestBlank
<1>4. t.lists = s.lists /\ t.disk = s.disk
  BY DEF Keeps
<1> QED BY <1>2, <1>3, <1>4, KeptStored

LEMMA KeepsOn ==
  ASSUME NEW s, NEW t, NEW u, Keeps(s, t), Keeps(t, u)
  PROVE  Keeps(s, u)
BY DEF Keeps

\* The record of a frame replaced by one with other marks.
LEMMA MarkKeeps ==
  ASSUME NEW s \in VmRecord, NEW f \in FrameId, NEW r \in FrameRecord,
         r.virtual_id = s.frame[f].virtual_id, r.disk_id = s.frame[f].disk_id,
         s.frame[f].dirty => r.dirty
  PROVE  Keeps(s, [s EXCEPT !.frame[f] = r])
<1> DEFINE t == [s EXCEPT !.frame[f] = r]
<1>1. /\ \A g \in FrameId : t.frame[g] = IF g = f THEN r ELSE s.frame[g]
      /\ t.page = s.page /\ t.lists = s.lists /\ t.disk = s.disk
      /\ t.data = s.data /\ t.swap = s.swap
  BY ChangeRecord
<1> HIDE DEF t
<1>2. ASSUME NEW g \in FrameId
      PROVE  /\ t.frame[g].virtual_id = s.frame[g].virtual_id
             /\ t.frame[g].disk_id = s.frame[g].disk_id
             /\ s.frame[g].dirty => t.frame[g].dirty
  <2>1. CASE g = f
    BY <1>1, <2>1
  <2>2. CASE g # f
    BY <1>1, <2>2
  <2> QED BY <2>1, <2>2
<1>3. Keeps(s, t)
  BY <1>1, <1>2 DEF Keeps
<1> QED BY <1>3 DEF t

LEMMA MarksKeep ==
  ASSUME NEW s, Sound(s), NEW v, s.page[v].frame_id \in FrameId
  PROVE  /\ Keeps(s, Pinned(s, v)) /\ Keeps(s, Released(s, v))
         /\ Keeps(s, Dirtied(s, v)) /\ Keeps(s, Renewed(s, v))
<1> DEFINE f == s.page[v].frame_id
           o == s.frame[f]
           p == [o EXCEPT !.pin = TRUE]
           u == [o EXCEPT !.pin = FALSE]
           d == [o EXCEPT !.dirty = TRUE]
           c == [o EXCEPT !.considered = FALSE]
<1>1. s \in VmRecord /\ o \in FrameRecord
  BY DEF Sound, VmRecord
<1>2. /\ Pinned(s, v) = [s EXCEPT !.frame[f] = p]
      /\ Released(s, v) = [s EXCEPT !.frame[f] = u]
      /\ Dirtied(s, v) = [s EXCEPT !.frame[f] = d]
      /\ Renewed(s, v) = [s EXCEPT !.frame[f] = c]
  BY DEF SetFrame, Pinned, Released, Dirtied, Renewed
<1> HIDE DEF o
<1>3. /\ p \in FrameRecord /\ p.virtual_id = o.virtual_id /\ p.disk_id = o.disk_id
      /\ p.dirty = o.dirty
  BY <1>1 DEF FrameRecord
<1>4. /\ u \in FrameRecord /\ u.virtual_id = o.virtual_id /\ u.disk_id = o.disk_id
      /\ u.dirty = o.dirty
  BY <1>1 DEF FrameRecord
<1>5. /\ d \in FrameRecord /\ d.virtual_id = o.virtual_id /\ d.disk_id = o.disk_id
      /\ d.dirty = TRUE
  BY <1>1 DEF FrameRecord
<1>6. /\ c \in FrameRecord /\ c.virtual_id = o.virtual_id /\ c.disk_id = o.disk_id
      /\ c.dirty = o.dirty
  BY <1>1 DEF FrameRecord
<1> HIDE DEF p, u, d, c
<1>7. (o.dirty => p.dirty) /\ (o.dirty => u.dirty) /\ (o.dirty => c.dirty)
  BY <1>3, <1>4, <1>6
<1>8. d.dirty
  BY <1>5
<1>9. Keeps(s, [s EXCEPT !.frame[f] = p])
  BY <1>1, <1>3, <1>7, MarkKeeps DEF o
<1>10. Keeps(s, [s EXCEPT !.frame[f] = u])
  BY <1>1, <1>4, <1>7, MarkKeeps DEF o
<1>11. Keeps(s, [s EXCEPT !.frame[f] = d])
  BY <1>1, <1>5, <1>8, MarkKeeps DEF o
<1>12. Keeps(s, [s EXCEPT !.frame[f] = c])
  BY <1>1, <1>6, <1>7, MarkKeeps DEF o
<1> QED BY <1>2, <1>9, <1>10, <1>11, <1>12

-----------------------------------------------------------------------------
(* Eviction *)

\* A block that a list has is in use.
LEMMA BlockInUse ==
  ASSUME NEW s, Sound(s), NEW wr, Stored(s, wr), NEW v \in Live(s),
         BlockIn(s, v) # 0
  PROVE  /\ BlockIn(s, v) \in 1..s.disk.size
         /\ BlockIn(s, v) \notin s.disk.free
BY DEF Stored, PageStored

\* The pages of a list share its place.
LEMMA PeersShare ==
  ASSUME NEW s, Sound(s), NEW v \in Live(s), NEW w \in Peers(s, v)
  PROVE  /\ s.page[w].frame_id = s.page[v].frame_id
         /\ BlockIn(s, w) = BlockIn(s, v)
         /\ Resident(s, w) <=> Resident(s, v)
<1>1. s.page[w].frame_id = s.page[v].frame_id
  BY DEF Sound, PagesPlaced
<1> QED BY <1>1 DEF BlockIn, Resident, HasFrame, OnDisk, FrameOf

\* The frame f was taken from its pages: they went to `block`, which no other
\* list has, or, if it is 0 and nobody had written them, lost their frame.
LEMMA VacatedStores ==
  ASSUME NEW s, Sound(s), NEW wr, Stored(s, wr), NEW f \in FrameId,
         NEW t, Vacated(s, t, f), NEW block \in 0..(DISK_START - 1),
         \A w \in PageId : s.page[w].frame_id = f =>
           t.page[w].frame_id = IF block = 0 THEN 0 ELSE block + DISK_START,
         block # 0 => t.swap = [s.swap EXCEPT ![block] = s.data[f]],
         block = 0 => /\ t.swap = s.swap
                      /\ \A w \in PageId : s.page[w].frame_id = f => wr[w] = Unwritten,
         Counted(t.disk, 0), t.disk.size \in Nat, s.disk.size <= t.disk.size,
         \A b \in 1..s.disk.size : b \notin s.disk.free => b \notin t.disk.free,
         block # 0 => /\ block \in 1..t.disk.size \ t.disk.free
                      /\ \A w \in Live(s) :
                           s.page[w].frame_id # f => BlockIn(s, w) # block
  PROVE  Stored(t, wr)
<1>1. /\ s \in VmRecord /\ Live(s) \subseteq PageId /\ PagesPlaced(s)
      /\ s.disk.size \in Nat
  BY LivePages DEF Sound, VmRecord, Table
<1>2. /\ t.lists = s.lists /\ t.data = s.data
      /\ t.frame[f].virtual_id = NULL_SLOT /\ t.frame[f].disk_id = 0
      /\ \A g \in FrameId \ {f} : t.frame[g] = s.frame[g]
      /\ \A w \in PageId : s.page[w].frame_id # f => t.page[w] = s.page[w]
  BY DEF Vacated
<1>3. Live(t) = Live(s) /\ \A v : Peers(t, v) = Peers(s, v)
  BY <1>2 DEF Live, Peers
<1>4. f \in Nat /\ f > 0 /\ f < DISK_START /\ DISK_START \in Nat
  BY FrameNumbers, FrameAssumption
<1>5. ASSUME NEW v \in Live(s), s.page[v].frame_id = f
      PROVE  /\ PageStored(t, wr, v) /\ BlockIn(t, v) = block
  <2>1. /\ v \in PageId /\ PageStored(s, wr, v)
        /\ t.page[v].frame_id = IF block = 0 THEN 0 ELSE block + DISK_START
    BY <1>1, <1>5 DEF Stored
  <2>2. Resident(s, v) /\ Contains(s, v) = s.data[f]
    BY <1>4, <1>5 DEF Resident, HasFrame, Contains
  <2>3. CASE block = 0
    <3>1. /\ ~ Resident(t, v) /\ ~ OnDisk(t.page[v]) /\ t.page[v].frame_id = 0
      BY <1>4, <2>1, <2>3 DEF Resident, HasFrame, OnDisk
    <3>2. Contains(t, v) = Zero /\ BlockIn(t, v) = 0
      BY <3>1 DEF Contains, BlockIn
    <3>3. wr[v] = Unwritten /\ 0 # DISK_START
      BY <1>4, <1>5, <2>1, <2>3
    <3> QED BY <1>3, <2>1, <2>3, <3>1, <3>2, <3>3 DEF PageStored, Due
  <2>4. CASE block # 0
    <3>1. /\ ~ Resident(t, v) /\ OnDisk(t.page[v])
          /\ t.page[v].frame_id - DISK_START = block
          /\ t.page[v].frame_id # DISK_START /\ t.page[v].frame_id # 0
      BY <1>4, <2>1, <2>4 DEF Resident, HasFrame, OnDisk
    <3>2. t.swap[block] = s.data[f]
      <4>1. s.swap \in [0..(DISK_START - 1) -> Content]
        BY <1>1 DEF VmRecord
      <4> QED BY <2>4, <4>1
    <3>3. Contains(t, v) = Contains(s, v) /\ BlockIn(t, v) = block
      BY <2>2, <3>1, <3>2 DEF Contains, BlockIn
    <3>4. BlockIn(t, v) \in 1..t.disk.size \ t.disk.free
      BY <2>4, <3>3
    <3> QED BY <1>3, <2>1, <3>1, <3>3, <3>4 DEF PageStored
  <2> QED BY <2>3, <2>4
<1>6. ASSUME NEW v \in Live(s), s.page[v].frame_id # f
      PROVE  PageStored(t, wr, v) /\ BlockIn(t, v) = BlockIn(s, v)
  <2>1. v \in PageId /\ PageStored(s, wr, v) /\ t.page[v] = s.page[v]
    BY <1>1, <1>2, <1>6 DEF Stored
  <2>2. /\ Resident(t, v) <=> Resident(s, v)
        /\ Resident(s, v) => s.page[v].frame_id \in FrameId \ {f}
        /\ OnDisk(t.page[v]) <=> OnDisk(s.page[v])
    BY <1>1, <1>6, <2>1 DEF PagesPlaced, Resident
  <2>3. Resident(s, v) => FrameOf(t, v) = FrameOf(s, v)
    BY <1>2, <2>1, <2>2 DEF FrameOf
  <2>4. BlockIn(t, v) = BlockIn(s, v)
    BY <2>1, <2>2, <2>3 DEF BlockIn
  <2>5. Contains(t, v) = Contains(s, v)
    <3>1. CASE Resident(s, v) \/ ~ OnDisk(s.page[v])
      BY <1>2, <2>1, <2>2, <3>1 DEF Contains
    <3>2. CASE ~ Resident(s, v) /\ OnDisk(s.page[v])
      <4> DEFINE b == s.page[v].frame_id - DISK_START
      <4>1. b = BlockIn(s, v) /\ b # 0
        BY <1>1, <1>4, <3>2 DEF BlockIn, OnDisk, VmRecord, PageRecord
      <4>2. b # block
        BY <1>6, <4>1
      <4>3. t.swap[b] = s.swap[b]
        <5>1. s.swap \in [0..(DISK_START - 1) -> Content]
          BY <1>1 DEF VmRecord
        <5>2. b \in 0..(DISK_START - 1)
          <6>1. s.page[v].frame_id \in 0..(2 * DISK_START - 1)
            BY <1>1, <2>1 DEF VmRecord, PageRecord
          <6> QED BY <1>4, <3>2, <6>1 DEF OnDisk
        <5> QED BY <4>2, <5>1, <5>2
      <4> QED BY <2>1, <2>2, <3>2, <4>3 DEF Contains
    <3> QED BY <3>1, <3>2
  <2>6. BlockIn(t, v) # 0 => BlockIn(t, v) \in 1..t.disk.size \ t.disk.free
    <3>1. BlockIn(s, v) # 0 => BlockIn(s, v) \in 1..s.disk.size \ s.disk.free
      BY <2>1 DEF PageStored
    <3> QED BY <1>1, <2>4, <3>1
  <2> QED BY <1>3, <2>1, <2>2, <2>3, <2>4, <2>5, <2>6 DEF PageStored
<1>7. BlocksApart(t)
  <2> SUFFICES ASSUME NEW v \in Live(s), BlockIn(t, v) # 0,
                      NEW u \in Live(s) \ Peers(s, v)
               PROVE  BlockIn(t, u) # BlockIn(t, v)
    BY <1>3 DEF BlocksApart
  <2>1. v \in PageId /\ u \in PageId /\ v \in Live(s)
    BY <1>1
  <2>2. CASE s.page[v].frame_id = f /\ s.page[u].frame_id = f
    <3>1. Resident(s, v)
      BY <1>4, <2>2 DEF Resident, HasFrame
    <3>2. u \in Peers(s, v)
      BY <2>1, <2>2, <3>1, SharersOnFrame
    <3> QED BY <3>2
  <2>3. CASE s.page[v].frame_id = f /\ s.page[u].frame_id # f
    BY <1>5, <1>6, <2>3
  <2>4. CASE s.page[v].frame_id # f /\ s.page[u].frame_id = f
    BY <1>5, <1>6, <2>4
  <2>5. CASE s.page[v].frame_id # f /\ s.page[u].frame_id # f
    BY <1>6, <2>5 DEF Stored, BlocksApart
  <2> QED BY <2>2, <2>3, <2>4, <2>5
<1>8. RestBlank(t, wr)
  BY <1>2, <1>3 DEF Stored, RestBlank
<1> QED BY <1>3, <1>5, <1>6, <1>7, <1>8 DEF Stored

\* Eviction never makes the swap file smaller.
LEMMA EvictGrows ==
  ASSUME NEW s, Sound(s), NEW f \in FrameId
  PROVE  /\ s.disk.size \in Nat /\ Evict(s, f).disk.size \in Nat
         /\ s.disk.size <= Evict(s, f).disk.size
<1> DEFINE t == Evict(s, f)
           r == Alloc(s.disk)
<1>1. s.disk \in Table /\ s.disk.free \subseteq 1..s.disk.size
  BY DEF Sound, VmRecord
<1>2. t.disk = s.disk \/ t.disk = r.oct
  BY EvictVacates
<1>3. /\ s.disk.size \in Nat /\ r.oct.size = Searched(s.disk).size
      /\ Searched(s.disk).size \in Nat /\ s.disk.size <= Searched(s.disk).size
  BY <1>1, AllocTypes, SearchedFields DEF Table
<1> HIDE DEF t, r
<1>4. t.disk.size \in Nat /\ s.disk.size <= t.disk.size
  BY <1>2, <1>3
<1> QED BY <1>3, <1>4 DEF t

\* While block numbers fit their bit field, eviction keeps what the pages
\* hold: in a block of the frame's own, in a new one, or nowhere.
LEMMA EvictStores ==
  ASSUME NEW s, Sound(s), NEW wr, Stored(s, wr), NEW f \in FrameId,
         Evict(s, f).disk.size < DISK_START
  PROVE  Stored(Evict(s, f), wr)
<1> DEFINE t     == Evict(s, f)
           fr    == s.frame[f]
           r     == Alloc(s.disk)
           owner == fr.virtual_id
<1>1. /\ s \in VmRecord /\ s.disk \in Table /\ fr \in FrameRecord
      /\ Live(s) \subseteq PageId /\ FramesPlaced(s) /\ PagesPlaced(s) /\ ListsApart(s)
      /\ s.disk.free \subseteq 1..s.disk.size /\ Counted(s.disk, 0)
  BY LivePages DEF Sound, VmRecord, Stored
<1>2. /\ Vacated(s, t, f)
      /\ t.disk = IF fr.dirty /\ fr.disk_id = 0 THEN r.oct ELSE s.disk
      /\ ~ fr.dirty /\ fr.disk_id = 0 =>
           /\ t.swap = s.swap
           /\ \A w \in PageId : s.page[w].frame_id = f => t.page[w].frame_id = 0
  BY EvictVacates
<1>3. /\ fr.disk_id # 0 => SwappedTo(s, t, f, fr.disk_id)
      /\ fr.dirty /\ fr.disk_id = 0 => SwappedTo(s, t, f, r.pos % DISK_START)
  BY EvictVacates
<1>4. /\ s.disk.size \in Nat /\ t.disk.size \in Nat /\ s.disk.size <= t.disk.size
      /\ t.disk.size < DISK_START /\ DISK_START \in Nat
  BY EvictGrows, FrameAssumption
<1>5. \A w \in Live(s) : s.page[w].frame_id = f =>
        w \in PageId /\ w \in Peers(s, owner) /\ Resident(s, w) /\ FrameOf(s, w) = fr
  <2> TAKE w \in Live(s)
  <2> HAVE s.page[w].frame_id = f
  <2>1. w \in PageId /\ w \in Peers(s, owner)
    BY <1>1, PagesOnFrame
  <2>2. Resident(s, w)
    BY FrameNumbers DEF Resident, HasFrame
  <2> QED BY <2>1, <2>2 DEF FrameOf
<1> HIDE DEF t
<1>6. CASE fr.disk_id # 0
  <2> DEFINE block == fr.disk_id
  <2>1. block \in 0..(DISK_START - 1) /\ block # 0
    BY <1>1, <1>6 DEF FrameRecord
  <2>2. owner # NULL_SLOT /\ owner \in Live(s) /\ s.page[owner].frame_id = f
    BY <1>1, <1>6 DEF FramesPlaced, Stored, RestBlank
  <2>3. BlockIn(s, owner) = block
    BY <1>5, <2>2 DEF BlockIn
  <2>4. block \in 1..t.disk.size \ t.disk.free /\ t.disk = s.disk
    BY <1>2, <1>6, <2>1, <2>2, <2>3, BlockInUse
  <2>5. ASSUME NEW w \in Live(s), s.page[w].frame_id # f
        PROVE  BlockIn(s, w) # block
    <3>1. w \notin Peers(s, owner)
      BY <2>2, <2>5, PeersShare
    <3> QED BY <2>1, <2>2, <2>3, <3>1 DEF Stored, BlocksApart
  <2>6. /\ t.swap = [s.swap EXCEPT ![block] = s.data[f]]
        /\ \A w \in PageId : s.page[w].frame_id = f
             => t.page[w].frame_id = block + DISK_START
    BY <1>3, <1>6 DEF SwappedTo
  <2>7. Counted(t.disk, 0)
    BY <1>1, <2>4
  <2> HIDE DEF block, owner, fr, r
  <2>8. \A b \in 1..s.disk.size : b \notin s.disk.free => b \notin t.disk.free
    BY <2>4
  <2>9. /\ block = 0 =>
             /\ t.swap = s.swap
             /\ \A w \in PageId : s.page[w].frame_id = f => wr[w] = Unwritten
        /\ \A w \in PageId : s.page[w].frame_id = f =>
             t.page[w].frame_id = IF block = 0 THEN 0 ELSE block + DISK_START
    BY <2>1, <2>6
  <2>10. block # 0 => /\ block \in 1..t.disk.size \ t.disk.free
                      /\ \A w \in Live(s) :
                           s.page[w].frame_id # f => BlockIn(s, w) # block
    BY <2>4, <2>5
  <2> QED BY <1>2, <1>4, <2>1, <2>6, <2>7, <2>8, <2>9, <2>10, VacatedStores DEF t
<1>7. CASE fr.dirty /\ fr.disk_id = 0
  <2> DEFINE block == r.pos
             u     == Searched(s.disk)
  <2>1. block # 0
    BY <1>1, CountedServes
  <2>2. /\ block \in u.free
        /\ r.oct = [free |-> u.free \ {block}, data |-> u.data,
                    occupied |-> u.occupied + 1, size |-> u.size, tail |-> block]
    BY <1>1, <2>1, AllocTakesFree
  <2>3. /\ u.free \subseteq 1..u.size /\ u.size \in Nat
        /\ \A p \in 1..s.disk.size : p \in u.free => p \in s.disk.free
    BY <1>1, SearchedFields DEF Table
  <2>4. t.disk = r.oct /\ Counted(t.disk, 0)
    BY <1>1, <1>2, <1>7, <2>1, AllocCounted
  <2> HIDE DEF u
  <2>5. t.disk.size = u.size /\ t.disk.free = u.free \ {block}
    BY <2>2, <2>4
  <2>6. block \in 1..t.disk.size \ t.disk.free /\ block \in 0..(DISK_START - 1)
    BY <1>4, <2>2, <2>3, <2>5
  <2>7. block % DISK_START = block
    <3>1. DISK_START * 0 + block = block
      BY <2>6, <1>4
    <3>2. block \in Nat /\ DISK_START > 0
      BY <2>6, FrameAssumption
    <3> HIDE DEF block
    <3> QED BY <1>4, <2>6, <3>1, <3>2, RestOf
  <2>8. /\ t.swap = [s.swap EXCEPT ![block] = s.data[f]]
        /\ \A w \in PageId : s.page[w].frame_id = f
             => t.page[w].frame_id = block + DISK_START
    BY <1>3, <1>7, <2>7 DEF SwappedTo
  <2>9. ASSUME NEW w \in Live(s)
        PROVE  BlockIn(s, w) # block
    <3>1. BlockIn(s, w) # 0 => /\ BlockIn(s, w) \in 1..s.disk.size
                               /\ BlockIn(s, w) \notin s.disk.free
      BY BlockInUse
    <3> QED BY <2>1, <2>2, <2>3, <3>1
  <2> HIDE DEF block, owner, fr, r
  <2>10. \A b \in 1..s.disk.size : b \notin s.disk.free => b \notin t.disk.free
    BY <2>3, <2>5
  <2>11. /\ block = 0 =>
             /\ t.swap = s.swap
             /\ \A w \in PageId : s.page[w].frame_id = f => wr[w] = Unwritten
         /\ \A w \in PageId : s.page[w].frame_id = f =>
             t.page[w].frame_id = IF block = 0 THEN 0 ELSE block + DISK_START
    BY <2>1, <2>8
  <2>12. block # 0 => /\ block \in 1..t.disk.size \ t.disk.free
                      /\ \A w \in Live(s) :
                           s.page[w].frame_id # f => BlockIn(s, w) # block
    BY <2>6, <2>9
  <2> QED BY <1>2, <1>4, <2>4, <2>6, <2>8, <2>10, <2>11, <2>12, VacatedStores DEF t
<1>8. CASE ~ fr.dirty /\ fr.disk_id = 0
  <2>1. ASSUME NEW w \in PageId, s.page[w].frame_id = f
        PROVE  wr[w] = Unwritten
    <3>1. CASE w \in Live(s)
      BY <1>5, <1>8, <2>1, <3>1 DEF Stored, PageStored
    <3>2. CASE w \notin Live(s)
      BY <3>2 DEF Stored, RestBlank
    <3> QED BY <3>1, <3>2
  <2>2. /\ t.disk = s.disk /\ t.swap = s.swap
        /\ \A w \in PageId : s.page[w].frame_id = f => t.page[w].frame_id = 0
    BY <1>2, <1>8
  <2> DEFINE block == 0
  <2>3. block \in 0..(DISK_START - 1)
    BY FrameAssumption
  <2>4. /\ \A b \in 1..s.disk.size : b \notin s.disk.free => b \notin t.disk.free
        /\ Counted(t.disk, 0) /\ Vacated(s, t, f)
    BY <1>1, <1>2, <2>2
  <2>7. block = 0
    OBVIOUS
  <2> HIDE DEF block, fr, r, owner
  <2>5. \A w \in PageId : s.page[w].frame_id = f =>
             t.page[w].frame_id = IF block = 0 THEN 0 ELSE block + DISK_START
    BY <2>2, <2>7
  <2>6. /\ block # 0 => t.swap = [s.swap EXCEPT ![block] = s.data[f]]
        /\ block # 0 => /\ block \in 1..t.disk.size \ t.disk.free
                        /\ \A w \in Live(s) :
                             s.page[w].frame_id # f => BlockIn(s, w) # block
        /\ block = 0 =>
             /\ t.swap = s.swap
             /\ \A w \in PageId : s.page[w].frame_id = f => wr[w] = Unwritten
    BY <2>1, <2>2, <2>7
  <2> QED BY <1>4, <2>3, <2>4, <2>5, <2>6, VacatedStores DEF t
<1> QED BY <1>6, <1>7, <1>8

-----------------------------------------------------------------------------
(* Requesting frames and bringing pages into them *)

\* The step of the clock before the eviction only marks frames.
LEMMA SweepKeeps ==
  ASSUME NEW s, Sound(s), ~ HasFresh(s), CanServe(s)
  PROVE  /\ Sound(Sweep(s)) /\ Keeps(s, Sweep(s)) /\ Sweep(s).disk = s.disk
         /\ Victim(Sweep(s)) \in FrameId
         /\ RequestFrame(s).vm = Evict(Sweep(s), Victim(Sweep(s)))
<1> DEFINE u == Sweep(s)
<1>1. s \in VmRecord /\ s.disk.free \subseteq 1..s.disk.size
  BY DEF Sound
<1>2. /\ u \in VmRecord
      /\ u.page = s.page /\ u.lists = s.lists
      /\ u.nframes = s.nframes /\ u.disk = s.disk
      /\ u.cap = s.cap /\ u.data = s.data /\ u.swap = s.swap
      /\ Victim(u) = Hand(s, Stop(s))
      /\ \A g \in FrameId :
           /\ u.frame[g].virtual_id = s.frame[g].virtual_id
           /\ u.frame[g].disk_id = s.frame[g].disk_id
           /\ u.frame[g].dirty = s.frame[g].dirty
  BY <1>1, SweepFields
<1>3. Victim(u) \in FrameId
  BY <1>1, <1>2, SweepStops
<1>4. RequestFrame(s).vm = Evict(u, Victim(u))
  BY DEF RequestFrame
<1> HIDE DEF u
<1>5. Sound(u)
  <2>1. s.nframes <= u.nframes
    BY <1>1, <1>2, FrameAssumption DEF VmRecord
  <2>2. u.disk.free \subseteq 1..u.disk.size
    BY <1>1, <1>2
  <2> QED BY <1>2, <2>1, <2>2, StaysSound
<1>6. Keeps(s, u)
  BY <1>2 DEF Keeps
<1> QED BY <1>2, <1>3, <1>4, <1>5, <1>6 DEF u

LEMMA RequestFrameStores ==
  ASSUME NEW s, Sound(s), CanServe(s)
  PROVE  LET t == RequestFrame(s).vm
         IN  /\ s.disk.size \in Nat /\ t.disk.size \in Nat
             /\ s.disk.size <= t.disk.size
             /\ \A wr : Stored(s, wr) /\ t.disk.size < DISK_START => Stored(t, wr)
<1> DEFINE t == RequestFrame(s).vm
<1>1. s \in VmRecord /\ s.disk.size \in Nat /\ FramesPlaced(s)
  BY DEF Sound, VmRecord, Table
<1>2. CASE HasFresh(s)
  <2> DEFINE f == RequestFrame(s).frame
  <2>1. /\ f = s.nframes + 1 /\ f \in FrameId
        /\ t.frame[f] = NewFrame
        /\ \A g \in FrameId \ {f} : t.frame[g] = s.frame[g]
        /\ t.page = s.page /\ t.lists = s.lists
        /\ t.disk = s.disk /\ t.data = s.data /\ t.swap = s.swap
    BY <1>1, <1>2, FreshFrame
  <2> HIDE DEF t, f
  <2>2. s.frame[f].virtual_id = NULL_SLOT
    BY <1>1, <2>1, FrameAssumption DEF FramesPlaced, VmRecord
  <2>3. ASSUME NEW wr, Stored(s, wr)
        PROVE  Stored(t, wr)
    <3>1. s.frame[f].disk_id = 0 /\ NewFrame.disk_id = 0
      BY <2>1, <2>2, <2>3 DEF Stored, RestBlank, NewFrame
    <3>2. NewFrame.virtual_id = NULL_SLOT
      BY DEF NewFrame
    <3>3. ASSUME NEW g \in FrameId
          PROVE  t.frame[g].virtual_id = s.frame[g].virtual_id
                 /\ t.frame[g].disk_id = s.frame[g].disk_id
      <4>1. CASE g = f
        BY <2>1, <2>2, <3>1, <3>2, <4>1
      <4>2. CASE g # f
        BY <2>1, <4>2
      <4> QED BY <4>1, <4>2
    <3>4. ASSUME NEW v \in Live(s), Resident(s, v)
          PROVE  /\ s.page[v].frame_id \in FrameId \ {f}
                 /\ FrameOf(t, v) = FrameOf(s, v)
      <4>1. v \in PageId
        BY <1>1, LivePages
      <4>2. FrameOf(s, v).virtual_id \in Peers(s, v) /\ s.page[v].frame_id \in FrameId
        BY <3>4, <4>1 DEF Sound, FramesPlaced, PagesPlaced, Resident
      <4>3. FrameOf(s, v).virtual_id # NULL_SLOT
        BY <1>1, <4>2, LivePages
      <4>4. s.page[v].frame_id # f
        BY <2>2, <4>3 DEF FrameOf
      <4> QED BY <2>1, <4>1, <4>2, <4>4 DEF FrameOf
    <3>5. ASSUME NEW v \in Live(s)
          PROVE  /\ BlockIn(t, v) = BlockIn(s, v)
                 /\ t.page[v].frame_id # DISK_START
                 /\ Known(wr, v) => Contains(t, v) = Due(wr, v)
                 /\ wr[v] # Unwritten =>
                      /\ t.page[v].frame_id # 0
                      /\ Resident(t, v) => FrameOf(t, v).dirty
                                             \/ FrameOf(t, v).disk_id # 0
      <4>1. PageStored(s, wr, v) /\ v \in PageId /\ PagesPlaced(s)
        BY <1>1, <2>3, LivePages DEF Stored, Sound
      <4>2. \A g \in FrameId : t.frame[g].disk_id = s.frame[g].disk_id
        BY <3>3
      <4>3. /\ Resident(t, v) <=> Resident(s, v)
            /\ Contains(t, v) = Contains(s, v) /\ BlockIn(t, v) = BlockIn(s, v)
        BY <2>1, <4>1, <4>2, SamePlaces
      <4> QED BY <2>1, <3>4, <4>1, <4>3 DEF PageStored
    <3>6. \A g \in FrameId :
            t.frame[g].virtual_id = NULL_SLOT => t.frame[g].disk_id = 0
      BY <2>3, <3>3 DEF Stored, RestBlank
    <3> QED BY <2>1, <2>3, <3>5, <3>6, KeptStored
  <2> QED BY <1>1, <2>1, <2>3 DEF t
<1>3. CASE ~ HasFresh(s)
  <2> DEFINE u == Sweep(s)
             f == Victim(u)
  <2>1. /\ Sound(u) /\ Keeps(s, u) /\ f \in FrameId
        /\ t = Evict(u, f) /\ u.disk = s.disk
    BY <1>3, SweepKeeps
  <2> HIDE DEF u, f, t
  <2>2. /\ t.disk.size \in Nat /\ s.disk.size <= t.disk.size
    BY <2>1, EvictGrows
  <2>3. ASSUME NEW wr, Stored(s, wr), t.disk.size < DISK_START
        PROVE  Stored(t, wr)
    <3>1. Stored(u, wr)
      BY <2>1, <2>3, KeepsStored
    <3> QED BY <2>1, <2>3, <3>1, EvictStores
  <2> QED BY <1>1, <2>2, <2>3 DEF t
<1> QED BY <1>2, <1>3

\* The pages of a list that had no frame are on one that had none.
LEMMA SettledStores ==
  ASSUME NEW s, Sound(s), NEW wr, Stored(s, wr), NEW v \in Live(s),
         ~ Resident(s, v), NEW f \in FrameId, s.frame[f].virtual_id = NULL_SLOT,
         NEW fresh, fresh = Zero \/ ArrLengths # {},
         NEW t, Settled(s, t, f, v, fresh)
  PROVE  Stored(t, wr)
<1> DEFINE id == s.page[v].frame_id
<1>1. /\ s \in VmRecord /\ Live(s) \subseteq PageId /\ PagesPlaced(s)
      /\ ListsApart(s) /\ FramesPlaced(s) /\ v \in Peers(s, v) /\ v \in PageId
      /\ f \in Nat /\ f > 0 /\ f < DISK_START /\ DISK_START \in Nat
  BY LivePages, FrameNumbers, FrameAssumption DEF Sound
<1>2. /\ t.lists = s.lists /\ t.disk = s.disk /\ t.swap = s.swap
      /\ \A w \in PageId :
           IF w \in Peers(s, v) THEN t.page[w].frame_id = f
                                ELSE t.page[w] = s.page[w]
      /\ t.frame[f].virtual_id = v
      /\ t.frame[f].disk_id = IF id > DISK_START THEN id - DISK_START ELSE 0
      /\ t.data[f] = IF id > DISK_START THEN s.swap[id - DISK_START] ELSE fresh
      /\ \A g \in FrameId \ {f} : t.frame[g] = s.frame[g] /\ t.data[g] = s.data[g]
  BY DEF Settled
<1>3. id \in Nat /\ (id = 0 \/ id > DISK_START)
  <2>1. id \in Nat
    BY <1>1 DEF VmRecord, PageRecord
  <2>2. id # DISK_START
    BY DEF Stored, PageStored
  <2> QED BY <1>1, <2>1, <2>2 DEF Resident, HasFrame
<1>4. ASSUME NEW w \in Live(s)
      PROVE  /\ BlockIn(t, w) = BlockIn(s, w)
             /\ t.page[w].frame_id # DISK_START
             /\ Known(wr, w) => Contains(t, w) = Due(wr, w)
             /\ wr[w] # Unwritten =>
                  /\ t.page[w].frame_id # 0
                  /\ Resident(t, w) => FrameOf(t, w).dirty \/ FrameOf(t, w).disk_id # 0
  <2>1. PageStored(s, wr, w) /\ w \in PageId
    BY <1>1 DEF Stored
  <2>2. CASE w \in Peers(s, v)
    <3>1. /\ s.page[w].frame_id = id /\ t.page[w].frame_id = f
      BY <1>2, <2>1, <2>2, PeersShare
    <3>2. /\ Resident(t, w) /\ FrameOf(t, w) = t.frame[f]
          /\ BlockIn(t, w) = t.frame[f].disk_id /\ Contains(t, w) = t.data[f]
      BY <1>1, <3>1 DEF Resident, HasFrame, FrameOf, BlockIn, Contains
    <3>3. ~ Resident(s, w)
      BY <3>1 DEF Resident, HasFrame
    <3>4. CASE id = 0
      <4>1. BlockIn(s, w) = 0 /\ Contains(s, w) = Zero
        BY <1>1, <3>1, <3>3, <3>4 DEF BlockIn, Contains, OnDisk
      <4>2. wr[w] = Unwritten
        BY <2>1, <3>1, <3>4 DEF PageStored
      <4>3. Known(wr, w) => fresh = Due(wr, w)
        BY <4>2 DEF Known, Due
      <4> QED BY <1>1, <1>2, <3>1, <3>2, <3>4, <4>1, <4>2, <4>3
    <3>5. CASE id > DISK_START
      <4>1. /\ BlockIn(s, w) = id - DISK_START
            /\ Contains(s, w) = s.swap[id - DISK_START]
        BY <3>1, <3>3, <3>5 DEF BlockIn, Contains, OnDisk
      <4>2. BlockIn(t, w) = BlockIn(s, w) /\ Contains(t, w) = Contains(s, w)
        BY <1>2, <3>2, <3>5, <4>1
      <4>3. FrameOf(t, w).disk_id # 0
        BY <1>1, <1>2, <1>3, <3>2, <3>5
      <4> QED BY <1>1, <2>1, <3>1, <4>2, <4>3 DEF PageStored
    <3> QED BY <1>3, <3>4, <3>5
  <2>3. CASE w \notin Peers(s, v)
    <3>1. t.page[w] = s.page[w]
      BY <1>2, <2>1, <2>3
    <3>2. /\ Resident(t, w) <=> Resident(s, w)
          /\ OnDisk(t.page[w]) <=> OnDisk(s.page[w])
      BY <3>1 DEF Resident
    <3>3. Resident(s, w) => s.page[w].frame_id \in FrameId \ {f}
      <4> HAVE Resident(s, w)
      <4>1. FrameOf(s, w).virtual_id \in Peers(s, w) /\ s.page[w].frame_id \in FrameId
        BY <1>1, <2>1 DEF FramesPlaced, PagesPlaced, Resident
      <4>2. FrameOf(s, w).virtual_id # NULL_SLOT
        BY <1>1, <4>1, LivePages
      <4> QED BY <4>1, <4>2 DEF FrameOf
    <3>4. Resident(s, w) => /\ FrameOf(t, w) = FrameOf(s, w)
                            /\ t.data[t.page[w].frame_id] = s.data[s.page[w].frame_id]
      BY <1>2, <3>1, <3>3 DEF FrameOf
    <3>5. BlockIn(t, w) = BlockIn(s, w) /\ Contains(t, w) = Contains(s, w)
      BY <1>2, <3>1, <3>2, <3>4 DEF BlockIn, Contains
    <3> QED BY <2>1, <3>1, <3>2, <3>4, <3>5 DEF PageStored
  <2> QED BY <2>2, <2>3
<1>5. \A g \in FrameId :
        t.frame[g].virtual_id = NULL_SLOT => t.frame[g].disk_id = 0
  <2> TAKE g \in FrameId
  <2>1. t.frame[f].virtual_id # NULL_SLOT
    BY <1>1, <1>2, FrameAssumption
  <2>2. s.frame[g].virtual_id = NULL_SLOT => s.frame[g].disk_id = 0
    BY DEF Stored, RestBlank
  <2>3. g # f => t.frame[g] = s.frame[g]
    BY <1>2
  <2> QED BY <2>1, <2>2, <2>3
<1> QED BY <1>2, <1>4, <1>5, KeptStored

LEMMA RequestPageStores ==
  ASSUME NEW s, Sound(s), NEW v \in PageId, Servable(s, v)
  PROVE  LET t == RequestPage(s, v)
         IN  /\ s.disk.size \in Nat /\ t.disk.size \in Nat
             /\ s.disk.size <= t.disk.size
             /\ \A wr : Stored(s, wr) /\ t.disk.size < DISK_START => Stored(t, wr)
<1> DEFINE t == RequestPage(s, v)
<1>1. CASE Resident(s, v)
  <2>1. t = s
    BY <1>1 DEF RequestPage
  <2>2. s.disk.size \in Nat
    BY DEF Sound, VmRecord, Table
  <2> QED BY <2>1, <2>2
<1>2. CASE ~ Resident(s, v)
  <2> DEFINE a == RequestFrame(s).vm
             f == RequestFrame(s).frame
  <2>1. /\ Freed(s, a, f)
        /\ v \in Live(a) /\ ~ Resident(a, v)
        /\ Settled(a, t, f, v, Zero)
    BY <1>2, RequestPageSettles
  <2>2. CanServe(s)
    BY <1>2 DEF Servable
  <2>3. /\ s.disk.size \in Nat /\ a.disk.size \in Nat
        /\ s.disk.size <= a.disk.size
        /\ \A wr : Stored(s, wr) /\ a.disk.size < DISK_START => Stored(a, wr)
    BY <2>2, RequestFrameStores
  <2> HIDE DEF a, f, t
  <2>4. /\ Sound(a) /\ f \in FrameId /\ a.frame[f].virtual_id = NULL_SLOT
        /\ t.disk = a.disk
    BY <2>1 DEF Freed, Settled
  <2>5. ASSUME NEW wr, Stored(s, wr), t.disk.size < DISK_START
        PROVE  Stored(t, wr)
    <3>1. Stored(a, wr)
      BY <2>3, <2>4, <2>5
    <3> QED BY <2>1, <2>4, <3>1, SettledStores
  <2> QED BY <2>3, <2>4, <2>5 DEF t
<1> QED BY <1>1, <1>2

-----------------------------------------------------------------------------
(* What clients write, and pages that come *)

\* A write to a list, in a frame that is dirty.
LEMMA WriteStores ==
  ASSUME NEW s, Sound(s), NEW wr, Stored(s, wr), NEW v \in Live(s),
         Resident(s, v), FrameOf(s, v).dirty, NEW x \in Value,
         NEW t, t = [s EXCEPT !.data[s.page[v].frame_id] = x],
         NEW now, now = [w \in PageId |-> IF w \in Peers(s, v) THEN x ELSE wr[w]]
  PROVE  Stored(t, now)
<1> DEFINE f == s.page[v].frame_id
<1>1. /\ s \in VmRecord /\ Live(s) \subseteq PageId /\ PagesPlaced(s)
      /\ ListsApart(s) /\ f \in FrameId /\ v \in PageId /\ x # Unwritten
      /\ s.data \in [FrameId -> Content]
      /\ f \in Nat /\ f > 0 /\ f < DISK_START /\ DISK_START \in Nat
  <2>1. s \in VmRecord /\ Live(s) \subseteq PageId /\ PagesPlaced(s) /\ ListsApart(s)
    BY LivePages DEF Sound
  <2>2. f \in FrameId
    BY <2>1 DEF PagesPlaced, Resident
  <2> QED BY <2>1, <2>2, FrameNumbers, FrameAssumption DEF VmRecord
<1>2. /\ t.page = s.page /\ t.lists = s.lists /\ t.frame = s.frame
      /\ t.disk = s.disk /\ t.swap = s.swap /\ t.data = [s.data EXCEPT ![f] = x]
  BY <1>1, WriteIsSound
<1>3. /\ t.data[f] = x /\ \A g \in FrameId \ {f} : t.data[g] = s.data[g]
  BY <1>1, <1>2
<1>4. Live(t) = Live(s) /\ \A w : Peers(t, w) = Peers(s, w)
  BY <1>2 DEF Live, Peers
<1>5. \A w \in PageId : /\ Resident(t, w) <=> Resident(s, w)
                        /\ FrameOf(t, w) = FrameOf(s, w)
                        /\ BlockIn(t, w) = BlockIn(s, w)
  BY <1>2 DEF Resident, FrameOf, BlockIn
<1>6. ASSUME NEW w \in Live(s)
      PROVE  PageStored(t, now, w)
  <2>1. PageStored(s, wr, w) /\ w \in PageId /\ \A u \in Peers(s, w) : u \in PageId
    BY <1>1, LivePages DEF Stored
  <2>2. CASE w \in Peers(s, v)
    <3>1. /\ Peers(s, w) = Peers(s, v) /\ now[w] = x
          /\ \A u \in Peers(s, w) : now[u] = x
      BY <1>1, <2>1, <2>2, PeersSymmetric
    <3>2. /\ s.page[w].frame_id = f /\ FrameOf(t, w).dirty
          /\ Contains(t, w) = x /\ Due(now, w) = x
      <4>1. s.page[w].frame_id = f
        BY <2>1, <2>2, PeersShare
      <4>2. Contains(t, w) = x /\ FrameOf(s, w) = FrameOf(s, v)
        BY <1>1, <1>2, <1>3, <4>1 DEF Contains, Resident, HasFrame, FrameOf
      <4> QED BY <1>1, <1>5, <2>1, <3>1, <4>1, <4>2 DEF Due
    <3> QED BY <1>1, <1>2, <1>4, <1>5, <2>1, <3>1, <3>2 DEF PageStored
  <2>3. CASE w \notin Peers(s, v)
    <3>1. now[w] = wr[w] /\ \A u \in Peers(s, w) : now[u] = wr[u]
      <4>1. \A u \in Peers(s, w) : u \notin Peers(s, v)
        BY <1>1, <2>3, PeersSymmetric
      <4> QED BY <2>1, <2>3, <4>1
    <3>2. s.page[w].frame_id # f
      BY <1>1, <2>1, <2>3, SharersOnFrame
    <3>3. Contains(t, w) = Contains(s, w)
      BY <1>1, <1>2, <1>3, <1>5, <2>1, <3>2 DEF Contains, PagesPlaced, Resident
    <3> QED BY <1>2, <1>4, <1>5, <2>1, <3>1, <3>3 DEF PageStored, Known, Due
  <2> QED BY <2>2, <2>3
<1>7. BlocksApart(t)
  BY <1>1, <1>4, <1>5 DEF Stored, BlocksApart
<1>8. RestBlank(t, now)
  <2>1. \A w \in PageId \ Live(s) : now[w] = wr[w]
    BY <1>1, LivePages
  <2> QED BY <1>2, <1>4, <2>1 DEF Stored, RestBlank
<1> QED BY <1>2, <1>4, <1>6, <1>7, <1>8 DEF Stored

\* VirtualFrame__allocPage: a new list has no frame, and nobody wrote to it.
LEMMA AllocStores ==
  ASSUME NEW s, Sound(s), NEW wr, Stored(s, wr), NEW v \in PageId, v \notin Live(s)
  PROVE  Stored(Allocated(s, v), wr)
<1> DEFINE t == Allocated(s, v)
<1>1. /\ t.page = s.page /\ t.frame = s.frame
      /\ Live(t) = Live(s) \cup {v}
      /\ \A u \in Live(s) : Peers(t, u) = Peers(s, u)
      /\ Peers(t, v) = {v}
      /\ t.disk = s.disk /\ t.data = s.data /\ t.swap = s.swap
  BY AllocIsSound
<1>2. Live(s) \subseteq PageId /\ s.page[v] = NewPage /\ wr[v] = Unwritten
  BY LivePages DEF Sound, PagesPlaced, Stored, RestBlank
<1> HIDE DEF t
<1>3. \A w : /\ Resident(t, w) <=> Resident(s, w)
             /\ FrameOf(t, w) = FrameOf(s, w)
             /\ BlockIn(t, w) = BlockIn(s, w)
             /\ Contains(t, w) = Contains(s, w)
  BY <1>1 DEF Resident, FrameOf, BlockIn, Contains
<1>4. /\ s.page[v].frame_id = 0 /\ BlockIn(s, v) = 0 /\ Contains(s, v) = Zero
      /\ DISK_START # 0
  <2>1. s.page[v].frame_id = 0
    BY <1>2 DEF NewPage
  <2> QED BY <2>1, FrameAssumption DEF BlockIn, Contains, Resident, HasFrame, OnDisk
<1>5. ASSUME NEW w \in Live(t)
      PROVE  PageStored(t, wr, w)
  <2>1. CASE w = v
    BY <1>1, <1>2, <1>3, <1>4, <2>1 DEF PageStored, Due
  <2>2. CASE w \in Live(s)
    <3>1. PageStored(s, wr, w)
      BY <2>2 DEF Stored
    <3> QED BY <1>1, <1>3, <2>2, <3>1 DEF PageStored
  <2> QED BY <1>1, <2>1, <2>2
<1>6. BlocksApart(t)
  BY <1>1, <1>3, <1>4 DEF Stored, BlocksApart
<1>7. RestBlank(t, wr)
  BY <1>1 DEF Stored, RestBlank
<1>8. Stored(t, wr)
  BY <1>1, <1>5, <1>6, <1>7 DEF Stored
<1> QED BY <1>8 DEF t

\* VirtualFrame__dupPageMap: w holds what the list of v does.
LEMMA LinkStores ==
  ASSUME NEW s, Sound(s), NEW wr, Stored(s, wr), wr \in [PageId -> Value \cup {Unwritten}],
         NEW v \in Live(s), NEW w \in PageId, w \notin Live(s)
  PROVE  Stored(Link(s, v, w), [wr EXCEPT ![w] = wr[v]])
<1> DEFINE t   == Link(s, v, w)
           now == [wr EXCEPT ![w] = wr[v]]
<1>1. /\ Sound(t) /\ t.frame = s.frame
      /\ \A u \in PageId \ {w} : t.page[u] = s.page[u]
      /\ Live(t) = Live(s) \cup {w}
      /\ \A u, x \in Live(s) : x \in Peers(t, u) <=> x \in Peers(s, u)
      /\ t.disk = s.disk /\ t.data = s.data /\ t.swap = s.swap
      /\ w \in Peers(t, v)
      /\ t.page[w].frame_id = s.page[v].frame_id
  BY LinkIsSound
<1>2. /\ Live(s) \subseteq PageId /\ v \in PageId /\ v # w /\ ListsApart(t)
      /\ ListsApart(s)
  BY <1>1, LivePages DEF Sound
<1>3. /\ now[w] = wr[v] /\ \A u \in PageId \ {w} : now[u] = wr[u]
  BY <1>2
<1> HIDE DEF t, now
<1>4. \A u \in Live(t) : Peers(t, u) \subseteq Live(t)
  BY <1>1, LivePages DEF Sound
\* In t, a page has the place and the contents of one that was there before.
<1>5. ASSUME NEW u \in Live(s), NEW y \in Live(t), y = u \/ (y = w /\ u = v)
      PROVE  /\ t.page[y].frame_id = s.page[u].frame_id
             /\ Resident(t, y) <=> Resident(s, u)
             /\ FrameOf(t, y) = FrameOf(s, u)
             /\ BlockIn(t, y) = BlockIn(s, u)
             /\ Contains(t, y) = Contains(s, u) /\ now[y] = wr[u]
  <2>1. t.page[y].frame_id = s.page[u].frame_id /\ now[y] = wr[u]
    BY <1>1, <1>2, <1>3, <1>5
  <2> QED BY <1>1, <2>1 DEF Resident, HasFrame, OnDisk, FrameOf, BlockIn, Contains
<1>6. ASSUME NEW y \in Live(t)
      PROVE  \E u \in Live(s) : /\ y = u \/ (y = w /\ u = v)
                                /\ u \in Peers(t, y)
  <2>1. CASE y = w
    <3>1. v \in Peers(t, w)
      BY <1>1, <1>2, PeersSymmetric
    <3> QED BY <2>1, <3>1
  <2>2. CASE y # w
    <3>1. y \in Peers(t, y)
      BY <1>1, LivePages DEF Sound
    <3> QED BY <1>1, <2>2, <3>1
  <2> QED BY <2>1, <2>2
\* The pages that share a list in t are copies of such that did in s.
<1>7. ASSUME NEW y \in Live(t), NEW u \in Live(s), y = u \/ (y = w /\ u = v),
             NEW z \in Live(t), NEW x \in Live(s), z = x \/ (z = w /\ x = v)
      PROVE  z \in Peers(t, y) <=> x \in Peers(s, u)
  <2>1. u \in Peers(t, y) /\ x \in Peers(t, z)
    <3>1. v \in Peers(t, w)
      BY <1>1, <1>2, PeersSymmetric
    <3>2. y \in Peers(t, y) /\ z \in Peers(t, z)
      BY <1>1, LivePages DEF Sound
    <3> QED BY <1>7, <3>1, <3>2
  <2>2. z \in Peers(t, y) <=> x \in Peers(t, u)
    BY <1>2, <2>1, PeersSymmetric
  <2> QED BY <1>1, <2>2
<1>8. ASSUME NEW y \in Live(t)
      PROVE  PageStored(t, now, y)
  <2>1. PICK u \in Live(s) : y = u \/ (y = w /\ u = v)
    BY <1>6
  <2>2. PageStored(s, wr, u)
    BY DEF Stored
  <2>3. ASSUME NEW z \in Peers(t, y)
        PROVE  now[z] = now[y]
    <3>1. z \in Live(t)
      BY <1>4
    <3>2. PICK x \in Live(s) : z = x \/ (z = w /\ x = v)
      BY <1>6, <3>1
    <3>3. x \in Peers(s, u)
      BY <1>7, <2>1, <3>1, <3>2
    <3>4. now[z] = wr[x] /\ now[y] = wr[u]
      BY <1>5, <2>1, <3>1, <3>2
    <3> QED BY <2>2, <3>3, <3>4 DEF PageStored
  <2>4. /\ t.page[y].frame_id = s.page[u].frame_id
        /\ Resident(t, y) <=> Resident(s, u)
        /\ FrameOf(t, y) = FrameOf(s, u)
        /\ BlockIn(t, y) = BlockIn(s, u)
        /\ Contains(t, y) = Contains(s, u) /\ now[y] = wr[u]
    BY <1>5, <2>1
  <2> QED BY <1>1, <2>2, <2>3, <2>4 DEF PageStored, Known, Due
<1>9. BlocksApart(t)
  <2> SUFFICES ASSUME NEW y \in Live(t), BlockIn(t, y) # 0,
                      NEW z \in Live(t) \ Peers(t, y)
               PROVE  BlockIn(t, z) # BlockIn(t, y)
    BY DEF BlocksApart
  <2>1. PICK u \in Live(s) : y = u \/ (y = w /\ u = v)
    BY <1>6
  <2>2. PICK x \in Live(s) : z = x \/ (z = w /\ x = v)
    BY <1>6
  <2>3. BlockIn(t, y) = BlockIn(s, u) /\ BlockIn(t, z) = BlockIn(s, x)
    BY <1>5, <2>1, <2>2
  <2>4. x \notin Peers(s, u)
    BY <1>7, <2>1, <2>2
  <2> QED BY <2>3, <2>4 DEF Stored, BlocksApart
<1>10. RestBlank(t, now)
  BY <1>1, <1>3 DEF Stored, RestBlank
<1>11. Stored(t, now)
  BY <1>1, <1>8, <1>9, <1>10 DEF Stored
<1> QED BY <1>11 DEF t, now

-----------------------------------------------------------------------------
(* The calls *)

\* From s to t the swap file does not shrink, and t stores `now` if s stored
\* `wr` and the numbers of its blocks fit their bit field.
Storing(s, wr, t, now) ==
  /\ s.disk.size \in Nat /\ t.disk.size \in Nat /\ s.disk.size <= t.disk.size
  /\ Stored(s, wr) /\ t.disk.size < DISK_START => Stored(t, now)

LEMMA KeepsStoring ==
  ASSUME NEW s, Sound(s), NEW t, Keeps(s, t), NEW wr
  PROVE  Storing(s, wr, t, wr)
<1>1. s.disk.size \in Nat /\ t.disk = s.disk
  BY DEF Sound, VmRecord, Table, Keeps
<1> QED BY <1>1, KeepsStored DEF Storing

LEMMA StoringOn ==
  ASSUME NEW s, NEW a, NEW t, NEW wr, NEW now,
         Storing(s, wr, a, wr), Storing(a, wr, t, now)
  PROVE  Storing(s, wr, t, now)
<1> DEFINE i == s.disk.size
           j == a.disk.size
           k == t.disk.size
<1>1. i \in Nat /\ j \in Nat /\ k \in Nat /\ i <= j /\ j <= k
  BY DEF Storing
<1>2. DISK_START \in Nat
  BY FrameAssumption
<1> HIDE DEF i, j, k
<1>3. i <= k /\ (k < DISK_START => j < DISK_START)
  BY <1>1, <1>2
<1> QED BY <1>1, <1>3 DEF Storing, i, j, k

\* After RequestPage, a mark.
LEMMA BringStores ==
  ASSUME NEW s, Sound(s), NEW v \in PageId, Servable(s, v), NEW wr
  PROVE  LET u == RequestPage(s, v)
         IN  /\ Sound(u) /\ u.page[v].frame_id \in FrameId /\ Resident(u, v)
             /\ u.lists = s.lists
             /\ Storing(s, wr, u, wr)
             /\ Storing(s, wr, Pinned(u, v), wr)
             /\ Storing(s, wr, Dirtied(u, v), wr)
             /\ Storing(s, wr, Renewed(u, v), wr)
<1> DEFINE u == RequestPage(s, v)
<1>1. Sound(u) /\ u.page[v].frame_id \in FrameId /\ Resident(u, v) /\ u.lists = s.lists
  BY RequestPageBrings DEF Brought
<1>2. Storing(s, wr, u, wr)
  BY RequestPageStores DEF Storing
<1> HIDE DEF u
<1>3. /\ Storing(u, wr, Pinned(u, v), wr) /\ Storing(u, wr, Dirtied(u, v), wr)
      /\ Storing(u, wr, Renewed(u, v), wr)
  BY <1>1, MarksKeep, KeepsStoring
<1>4. /\ Storing(s, wr, Pinned(u, v), wr) /\ Storing(s, wr, Dirtied(u, v), wr)
      /\ Storing(s, wr, Renewed(u, v), wr)
  BY <1>2, <1>3, StoringOn
<1> QED BY <1>1, <1>2, <1>4 DEF u

LEMMA PageCallStores ==
  ASSUME Inv, NEW v \in PageId,
         \/ AllocPage(v) \/ PinPage(v) \/ UnpinPage(v) \/ MarkPageDirty(v)
         \/ GetVaddrByPageRef(v) \/ GetMapContext(v)
  PROVE  Storing(vm, written, vm', written')
<1>1. Sound(vm) /\ vm \in VmRecord /\ vm.disk.size \in Nat /\ PagesPlaced(vm)
  BY DEF Inv, Sound, VmRecord, Table
<1>2. CASE AllocPage(v)
  <2>1. v \notin Live(vm) /\ vm' = Allocated(vm, v) /\ written' = written
    BY <1>2 DEF AllocPage, Allocated
  <2>2. vm'.disk = vm.disk
    BY <1>1, <2>1, AllocIsSound
  <2>3. Stored(vm, written) => Stored(vm', written)
    BY <1>1, <2>1, AllocStores
  <2> QED BY <1>1, <2>1, <2>2, <2>3 DEF Storing
<1>3. CASE PinPage(v)
  <2>1. /\ Servable(vm, v) /\ vm' = Pinned(RequestPage(vm, v), v)
        /\ written' = written
    BY <1>3 DEF PinPage, Pinned
  <2> QED BY <1>1, <2>1, BringStores
<1>4. CASE UnpinPage(v)
  <2>1. /\ vm' = IF Resident(vm, v) THEN Released(vm, v) ELSE vm
        /\ written' = written
    BY <1>4 DEF UnpinPage, Released
  <2>2. CASE Resident(vm, v)
    <3>1. vm.page[v].frame_id \in FrameId
      BY <1>1, <2>2 DEF PagesPlaced, Resident
    <3> QED BY <1>1, <2>1, <2>2, <3>1, MarksKeep, KeepsStoring
  <2>3. CASE ~ Resident(vm, v)
    BY <1>1, <2>1, <2>3 DEF Storing
  <2> QED BY <2>2, <2>3
<1>5. CASE MarkPageDirty(v)
  <2>1. /\ Servable(vm, v) /\ vm' = Dirtied(RequestPage(vm, v), v)
        /\ written' = written
    BY <1>5 DEF MarkPageDirty, Dirtied
  <2> QED BY <1>1, <2>1, BringStores
<1>6. CASE GetVaddrByPageRef(v)
  <2>1. Servable(vm, v) /\ vm' = RequestPage(vm, v) /\ written' = written
    BY <1>6 DEF GetVaddrByPageRef
  <2> QED BY <1>1, <2>1, BringStores
<1>7. CASE GetMapContext(v)
  <2> DEFINE u == RequestPage(vm, v)
             x == Renewed(u, v)
  <2>1. /\ Servable(vm, v) /\ v \in Live(vm) /\ vm' = Mapped(x, v)
        /\ written' = written
    BY <1>7 DEF GetMapContext, Mapped, Renewed, Servable
  <2>2. /\ Sound(u) /\ u.page[v].frame_id \in FrameId /\ Resident(u, v)
        /\ u.lists = vm.lists /\ Storing(vm, written, x, written)
    BY <1>1, <2>1, BringStores
  <2> HIDE DEF u
  <2>3. Sound(x) /\ x.page = u.page /\ x.lists = u.lists
    BY <2>2, RenewFrame
  <2> HIDE DEF x
  <2>4. v \in Live(x) /\ Resident(x, v)
    BY <2>1, <2>2, <2>3 DEF Live, Resident
  <2>5. Keeps(x, vm')
    BY <2>1, <2>3, <2>4, MappedIsSound DEF Keeps
  <2>6. Storing(x, written, vm', written)
    BY <2>3, <2>5, KeepsStoring
  <2> QED BY <2>1, <2>2, <2>6, StoringOn
<1> QED BY <1>2, <1>3, <1>4, <1>5, <1>6, <1>7

LEMMA StoreStores ==
  ASSUME Inv, NEW v \in PageId, NEW x \in Value, Store(v, x) \/ AppStore(v, x)
  PROVE  Storing(vm, written, vm', written')
<1>1. Sound(vm) /\ vm.disk.size \in Nat
  BY DEF Inv, Sound, VmRecord, Table
<1>2. CASE Store(v, x)
  <2> DEFINE u == RequestPage(vm, v)
             s == Dirtied(u, v)
  <2>1. /\ Servable(vm, v) /\ v \in Live(vm)
        /\ vm' = [s EXCEPT !.data[s.page[v].frame_id] = x]
        /\ written' = [w \in PageId |-> IF w \in Peers(vm, v) THEN x ELSE written[w]]
    BY <1>2 DEF Store, Dirtied, Servable, Wrote
  <2>2. /\ Sound(u) /\ u.page[v].frame_id \in FrameId /\ Resident(u, v)
        /\ u.lists = vm.lists /\ Storing(vm, written, s, written)
    BY <1>1, <2>1, BringStores
  <2> HIDE DEF u
  <2>3. /\ Sound(s) /\ s.page = u.page /\ s.lists = u.lists
        /\ s.frame[u.page[v].frame_id].dirty
    BY <2>2, DirtyFrame
  <2> HIDE DEF s
  <2>4. /\ v \in Live(s) /\ Resident(s, v) /\ FrameOf(s, v).dirty
        /\ Peers(vm, v) = Peers(s, v)
    BY <2>1, <2>2, <2>3 DEF Live, Resident, FrameOf, Peers
  <2>5. s.page[v].frame_id \in FrameId
    BY <2>2, <2>3
  <2>6. vm'.disk = s.disk
    BY <2>1, <2>3, <2>5, WriteIsSound
  <2>7. Stored(s, written) => Stored(vm', written')
    BY <2>1, <2>3, <2>4, WriteStores
  <2>8. Storing(s, written, vm', written')
    BY <2>2, <2>6, <2>7 DEF Storing
  <2> QED BY <2>2, <2>8, StoringOn
<1>3. CASE AppStore(v, x)
  <2>1. /\ vm.cap[v].write /\ vm' = [vm EXCEPT !.data[vm.cap[v].to] = x]
        /\ written' = [w \in PageId |-> IF w \in Peers(vm, v) THEN x ELSE written[w]]
    BY <1>3 DEF AppStore, Wrote
  <2>2. /\ Resident(vm, v) /\ vm.cap[v].to = vm.page[v].frame_id
        /\ FrameOf(vm, v).dirty /\ vm.page[v].frame_id \in FrameId
    BY <1>1, <2>1 DEF Sound, CapsTracked, PagesPlaced, Resident
  <2>3. v \in Live(vm)
    <3>1. v \notin Live(vm) => vm.page[v].frame_id = 0
      BY <1>1 DEF Sound, PagesPlaced, NewPage
    <3> QED BY <2>2, <3>1, FrameNumbers
  <2>4. vm'.disk = vm.disk
    BY <1>1, <2>1, <2>2, WriteIsSound
  <2>5. Stored(vm, written) => Stored(vm', written')
    BY <1>1, <2>1, <2>2, <2>3, WriteStores
  <2> QED BY <1>1, <2>4, <2>5 DEF Storing
<1> QED BY <1>2, <1>3

LEMMA DupStores ==
  ASSUME Inv, NEW v \in PageId, NEW w \in PageId, DupPageMap(v, w)
  PROVE  Storing(vm, written, vm', written')
<1>1. /\ Sound(vm) /\ vm.disk.size \in Nat
      /\ written \in [PageId -> Value \cup {Unwritten}]
  BY DEF Inv, Sound, VmRecord, Table, VariablesTyped
<1>2. /\ v \in Live(vm) /\ w \notin Live(vm)
      /\ vm' = Link(vm, v, w) /\ written' = [written EXCEPT ![w] = written[v]]
  BY DEF DupPageMap
<1>3. vm'.disk = vm.disk
  BY <1>1, <1>2, LinkIsSound
<1>4. Stored(vm, written) => Stored(vm', written')
  BY <1>1, <1>2, LinkStores
<1> QED BY <1>1, <1>3, <1>4 DEF Storing

\* VirtualFrame__pinPageArr fills frames with what they held, so that nothing
\* can be said of pages that nobody wrote.
LEMMA ArrStores ==
  ASSUME Inv, ArrLengths # {} \/ loop.phase = "idle",
         \/ \E n \in ArrLengths : \E arr \in [1..n -> PageId] : PinPageArr(arr)
         \/ RequestFrameStep \/ SwapInPageStep \/ UnpinPageArr
  PROVE  Storing(vm, written, vm', written')
<1>1. /\ Sound(vm) /\ vm.disk.size \in Nat /\ LoopRuns /\ FramesQueued /\ PinnedApart
      /\ loop \in LoopState
  BY DEF Inv, Sound, VmRecord, Table, VariablesTyped, LoopState
<1> DEFINE v == Head(loop.todo)
<1>2. loop.phase \in {"request", "swapin"} => v \in Live(vm) /\ v \in PageId
  <2> HAVE loop.phase \in {"request", "swapin"}
  <2>1. loop.todo \in Seq(PageId) /\ loop.todo # <<>> /\ SeqSet(loop.todo) \subseteq Arr
    BY <1>1 DEF LoopRuns, LoopState
  <2>2. v \in SeqSet(loop.todo) /\ v \in PageId
    BY <1>1, <2>1, TailOfDistinct DEF LoopRuns
  <2> QED BY <1>1, <2>1, <2>2 DEF PinnedApart, PinnedPages
<1>3. CASE \E n \in ArrLengths : \E arr \in [1..n -> PageId] : PinPageArr(arr)
  <2>1. vm' = vm /\ written' = written
    BY <1>3 DEF PinPageArr
  <2> QED BY <1>1, <2>1 DEF Storing
<1>4. CASE RequestFrameStep
  <2>1. written' = written /\ loop.phase = "request"
    BY <1>4 DEF RequestFrameStep
  <2>2. CASE Resident(vm, v) /\ vm' = Renewed(Pinned(vm, v), v)
    <3> DEFINE p == Pinned(vm, v)
    <3>1. vm.page[v].frame_id \in FrameId
      BY <1>1, <1>2, <2>1, <2>2 DEF Sound, PagesPlaced, Resident
    <3>2. Keeps(vm, p) /\ Sound(p) /\ p.page = vm.page
      BY <1>1, <3>1, MarksKeep, PinFrame
    <3> HIDE DEF p
    <3>3. p.page[v].frame_id \in FrameId
      BY <3>1, <3>2
    <3>4. Keeps(p, Renewed(p, v))
      BY <3>2, <3>3, MarksKeep
    <3>5. Keeps(vm, vm')
      BY <2>2, <3>2, <3>4, KeepsOn DEF p
    <3> QED BY <1>1, <2>1, <3>5, KeepsStoring
  <2>3. CASE CanServe(vm) /\ vm' = RequestFrame(vm).vm
    BY <1>1, <2>1, <2>3, RequestFrameStores DEF Storing
  <2> QED BY <1>4, <2>2, <2>3 DEF RequestFrameStep, Renewed, Pinned
<1>5. CASE SwapInPageStep
  <2>1. written' = written /\ loop.phase = "swapin" /\ ArrLengths # {}
    BY <1>5 DEF SwapInPageStep
  <2>2. CASE vm' = vm
    BY <1>1, <2>1, <2>2 DEF Storing
  <2>3. CASE /\ ~ Resident(vm, v) /\ loop.frames # <<>>
             /\ vm' = SwapInPage(vm, v, Head(loop.frames))
    <3> DEFINE f == Head(loop.frames)
    <3>1. f \in Queued /\ f \in FrameId
      BY <1>1, <2>3, TailOfDistinct DEF FramesQueued, Queued, LoopState
    <3>2. vm.frame[f].virtual_id = NULL_SLOT /\ f <= vm.nframes
      BY <1>1, <3>1 DEF FramesQueued
    <3>3. Settled(vm, vm', f, v, vm.data[f])
      BY <1>1, <1>2, <2>1, <2>3, <3>1, <3>2, SwapInSettles
    <3> HIDE DEF f
    <3>4. Stored(vm, written) => Stored(vm', written)
      BY <1>1, <1>2, <2>1, <2>3, <3>1, <3>2, <3>3, SettledStores
    <3>5. vm'.disk = vm.disk
      BY <3>3 DEF Settled
    <3> QED BY <1>1, <2>1, <3>4, <3>5 DEF Storing
  <2> QED BY <1>5, <2>2, <2>3 DEF SwapInPageStep
<1>6. CASE UnpinPageArr
  <2>1. vm' = Unpinned(vm, loop.arr) /\ written' = written
    BY <1>6 DEF UnpinPageArr
  <2>2. Keeps(vm, vm')
    BY <1>1, <2>1, UnpinnedFields DEF Keeps
  <2> QED BY <1>1, <2>1, <2>2, KeepsStoring
<1> QED BY <1>3, <1>4, <1>5, <1>6

-----------------------------------------------------------------------------
(* The theorems about data *)

\* Two positions of a fresh table are never counted, and all are free.
LEMMA EmptyTableCounted == Counted(EmptyTable(0), 0)
<1> DEFINE n == SLOT_SIZE
           F == 1..n
<1>1. n \in Nat /\ n > 2
  BY SlotSizeAssumption
<1>2. Cardinality(F) = n
  <2>1. 1 \in Int /\ n \in Int
    BY <1>1
  <2>2. Cardinality(1..n) = IF 1 > n THEN 0 ELSE n - 1 + 1
    BY <2>1, FS_Interval
  <2> QED BY <1>1, <2>2
<1>3. EmptyTable(0) = [free |-> F, data |-> {}, occupied |-> 0, size |-> n, tail |-> 0]
  BY DEF EmptyTable
<1> HIDE DEF n, F
<1> DEFINE t == EmptyTable(0)
<1>4. t.free = F /\ t.size = n /\ t.occupied = 0
  BY <1>3
<1> HIDE DEF t
<1>5. 1 \in Nat /\ t.size = SLOT_SIZE * 1
  BY <1>1, <1>4 DEF n
<1>6. t.free \subseteq 1..t.size
  BY <1>4 DEF F
<1>7. Cardinality(t.free) = t.size - t.occupied - 0 /\ t.occupied <= t.size - 2
  BY <1>1, <1>2, <1>4
<1>8. Counted(t, 0)
  BY <1>5, <1>6, <1>7 DEF Counted
<1> QED BY <1>8 DEF t

LEMMA InitStored ==
  ASSUME Init
  PROVE  DataInv
<1>1. /\ vm.disk = EmptyTable(0) /\ vm.lists = {}
      /\ \A f \in FrameId : vm.frame[f] = NewFrame
      /\ \A v \in PageId : written[v] = Unwritten
      /\ loop.phase = "idle"
  BY DEF Init, Idle
<1>2. Counted(vm.disk, 0)
  BY <1>1, EmptyTableCounted
<1>3. Live(vm) = {}
  BY <1>1 DEF Live
<1>4. BlocksApart(vm) /\ RestBlank(vm, written)
  BY <1>1, <1>3 DEF BlocksApart, RestBlank, NewFrame
<1> QED BY <1>1, <1>2, <1>3, <1>4 DEF DataInv, Stored

\* A call changes what is stored as it should, or deletes a page.
LEMMA NextStores ==
  ASSUME Inv, DataInv, [Next]_vars
  PROVE  DataInv'
<1>1. ArrLengths # {} \/ loop.phase = "idle"
  BY DEF DataInv
<1>2. ASSUME NEW v \in PageId, DelPage(v)
      PROVE  deletes' # 0 /\ loop' = loop
  BY <1>2 DEF DelPage, Inv, VariablesTyped
<1>3. \/ Storing(vm, written, vm', written') /\ deletes' = deletes
      \/ deletes' # 0
  <2>1. CASE \E v \in PageId : PageCall(v)
    <3>1. PICK v \in PageId : PageCall(v)
      BY <2>1
    <3>2. CASE DelPage(v)
      BY <1>2, <3>2
    <3>3. CASE ~ DelPage(v)
      <4>1. Storing(vm, written, vm', written')
        BY <3>1, <3>3, PageCallStores DEF PageCall
      <4>2. deletes' = deletes
        BY <3>1, <3>3 DEF PageCall, AllocPage, PinPage, UnpinPage, MarkPageDirty,
           GetVaddrByPageRef, GetMapContext
      <4> QED BY <4>1, <4>2
    <3> QED BY <3>2, <3>3
  <2>2. CASE \E v \in PageId, x \in Value : Store(v, x) \/ AppStore(v, x)
    BY <2>2, StoreStores DEF Store, AppStore
  <2>3. CASE \E v, w \in PageId : DupPageMap(v, w)
    BY <2>3, DupStores DEF DupPageMap
  <2>4. CASE \/ \E n \in ArrLengths : \E arr \in [1..n -> PageId] : PinPageArr(arr)
             \/ RequestFrameStep \/ SwapInPageStep \/ UnpinPageArr
    <3>1. Storing(vm, written, vm', written')
      BY <1>1, <2>4, ArrStores
    <3>2. deletes' = deletes
      BY <2>4 DEF PinPageArr, RequestFrameStep, SwapInPageStep, UnpinPageArr
    <3> QED BY <3>1, <3>2
  <2>5. CASE UNCHANGED vars
    <3>1. vm.disk.size \in Nat
      BY DEF Inv, Sound, VmRecord, Table
    <3> QED BY <2>5, <3>1 DEF vars, Storing
  <2> QED BY <2>1, <2>2, <2>3, <2>4, <2>5 DEF Next
<1>4. Accountable' => Stored(vm', written')
  <2> HAVE Accountable'
  <2>1. /\ Storing(vm, written, vm', written') /\ deletes = 0
        /\ vm'.disk.size < DISK_START
    BY <1>3 DEF Accountable
  <2> DEFINE i == vm.disk.size
             j == vm'.disk.size
  <2>2. i \in Nat /\ j \in Nat /\ i <= j /\ j < DISK_START
    BY <2>1 DEF Storing
  <2> HIDE DEF i, j
  <2>3. i < DISK_START
    BY <2>2, FrameAssumption
  <2>4. Stored(vm, written)
    BY <2>1, <2>3 DEF DataInv, Accountable, i
  <2> QED BY <2>1, <2>4 DEF Storing
<1>5. ArrLengths = {} => loop'.phase = "idle"
  <2> HAVE ArrLengths = {}
  <2>1. loop.phase = "idle"
    BY <1>1
  <2>2. loop' = loop
    BY <2>1 DEF Next, vars, PageCall, AllocPage, PinPage, UnpinPage,
       MarkPageDirty, GetVaddrByPageRef, GetMapContext, DelPage, Store,
       AppStore, DupPageMap, RequestFrameStep, SwapInPageStep, UnpinPageArr
  <2> QED BY <2>1, <2>2
<1> QED BY <1>4, <1>5 DEF DataInv

THEOREM DataHolds == Spec => []DataInv
<1>1. Init => DataInv
  BY InitStored
<1>2. Inv /\ DataInv /\ [Next]_vars => DataInv'
  BY NextStores
<1> QED BY <1>1, <1>2, InvHolds, PTL DEF Spec

(***************************************************************************)
(* Until a page is deleted, every page holds what was last written to it   *)
(* or a sharer of it, however often __requestFrame took its frame.         *)
(***************************************************************************)
THEOREM WritesAreKept == Spec => [](Accountable => DataKept)
<1>1. DataInv => (Accountable => DataKept)
  <2> SUFFICES ASSUME Stored(vm, written), NEW v \in Live(vm), written[v] # Unwritten
               PROVE  Contents(v) = written[v]
    BY DEF DataInv, DataKept, Reads
  <2>1. Contains(vm, v) = written[v]
    BY DEF Stored, PageStored, Known, Due
  <2> QED BY <2>1 DEF Contents, Contains
<1> QED BY <1>1, DataHolds, PTL

(***************************************************************************)
(* Until a page is deleted, no page is recorded at block 0 of the swap     *)
(* file, so __requestPage never reaches its assert(1 == 0).                *)
(***************************************************************************)
THEOREM PagesAreServed == Spec => [](Accountable => NeverRefused)
<1>1. DataInv => (Accountable => NeverRefused)
  <2> SUFFICES ASSUME Stored(vm, written), NEW v \in Live(vm)
               PROVE  ~ Refused(vm.page[v])
    BY DEF DataInv, NeverRefused
  <2>1. PageStored(vm, written, v)
    BY DEF Stored
  <2> QED BY <2>1 DEF PageStored, Refused
<1> QED BY <1>1, DataHolds, PTL

(***************************************************************************)
(* Until a page is deleted, no block of the swap file is that of two lists *)
(* of pages, resident or not.                                              *)
(***************************************************************************)
THEOREM BlocksAreExclusive == Spec => [](Accountable => BlockExclusive)
<1>1. DataInv => (Accountable => BlockExclusive)
  <2> SUFFICES ASSUME Stored(vm, written)
               PROVE  BlockExclusive
    BY DEF DataInv
  <2>1. \A v \in Live(vm) : BlockOf(v) = BlockIn(vm, v)
    BY DEF BlockOf, BlockIn
  <2> QED BY <2>1 DEF Stored, BlocksApart, BlockExclusive
<1> QED BY <1>1, DataHolds, PTL

(***************************************************************************)
(* If clients pin no arrays, whose frames are not cleaned, a page that     *)
(* nobody wrote reads as zero until a page is deleted.                     *)
(***************************************************************************)
THEOREM UnwrittenPagesAreClean ==
  Spec => [](ArrLengths = {} /\ Accountable => UnwrittenReadsZero)
<1>1. DataInv => (ArrLengths = {} /\ Accountable => UnwrittenReadsZero)
  <2> SUFFICES ASSUME ArrLengths = {}, Stored(vm, written), NEW v \in Live(vm),
                      written[v] = Unwritten
               PROVE  Contents(v) = Zero
    BY DEF DataInv, UnwrittenReadsZero, Reads
  <2>1. Contains(vm, v) = Zero
    BY DEF Stored, PageStored, Known, Due
  <2> QED BY <2>1 DEF Contents, Contains
<1> QED BY <1>1, DataHolds, PTL
=============================================================================
