--------------------------- MODULE ContinueRegion ---------------------------
(***************************************************************************)
(* A table of contRegion.c and the clients that hold runs of its cells.    *)
(***************************************************************************)
EXTENDS ContRegion

CONSTANTS
  Holder,       \* one for each run that is granted at a time
  None,         \* of a holder that has none
  MaxRequest,   \* bound: the cells of a run
  MaxSize       \* bound: no request that would grow the table further

ASSUME RequestAssumption ==
  /\ None \notin [start : Nat, size : Nat]
  /\ MaxRequest \in Nat /\ MaxSize \in Nat

VARIABLES
  cr,    \* the table
  held   \* the run of each holder, the ContinueRegion_Region_t

vars == <<cr, held>>

TypeOK ==
  /\ cr.size \in Nat \ {0}
  /\ cr \in [occupied : SUBSET (0..(cr.size - 1)), size : Nat,
             allocated : 0..cr.size, last_index : 0..cr.size]
  /\ held \in [Holder -> [start : Nat, size : Nat] \cup {None}]

Init == cr = EmptyRegions /\ held = [h \in Holder |-> None]

Request(h, n) ==
  LET r == RequestRegion(cr, n)
  IN  /\ held[h] = None
      /\ r.cr.size <= MaxSize
      /\ cr' = r.cr
      /\ held' = [held EXCEPT ![h] = [start |-> r.start, size |-> n]]

GiveBack(h) ==
  /\ held[h] # None
  /\ cr' = Release(cr, held[h].start, held[h].size)
  /\ held' = [held EXCEPT ![h] = None]

Next == \E h \in Holder :
          (\E n \in 0..MaxRequest : Request(h, n)) \/ GiveBack(h)

Spec == Init /\ [][Next]_vars
-----------------------------------------------------------------------------
CellsOf(h) == IF held[h] = None THEN {} ELSE Cells(held[h].start, held[h].size)

(***************************************************************************)
(* The occupied cells are those of the runs that are held, none is in two  *)
(* runs, and `allocated` counts them: with the range TypeOK gives them the *)
(* assertions of __alloc that a cell is inside and free, and that of       *)
(* ContinueRegion__release that it is in use, do not fail.                 *)
(***************************************************************************)
OccupiedExactly ==
  /\ TypeOK
  /\ cr.occupied = UNION {CellsOf(h) : h \in Holder}
  /\ \A g, h \in Holder : g # h => CellsOf(g) \cap CellsOf(h) = {}
  /\ cr.allocated = Cardinality(cr.occupied)

(***************************************************************************)
(* The recursion of ContinueRegion__requestRegion ends: whatever is held   *)
(* and wherever the last search stopped, the search after a growth finds a *)
(* run, although it skips cell 0 and does not look behind last_index.      *)
(***************************************************************************)
SearchEnds ==
  \A n \in 0..MaxRequest : Rounds(Searched(cr, n), n) # {}

FreeRuns(n) ==
  {s \in 0..(cr.size - n) : Cells(s, n) \cap cr.occupied = {}}

(***************************************************************************)
(* The table grows only for want of a run: every free run that is long     *)
(* enough then begins with cell 0, lies across last_index, or ends just    *)
(* before it, where the loop stops before it compares again.               *)
(***************************************************************************)
GrowsForWantOfRun ==
  \A n \in 1..MaxRequest :
    Searched(cr, n) # cr =>
      \A s \in FreeRuns(n) :
        \/ s = 0
        \/ s < cr.last_index /\ cr.last_index < s + n
        \/ (s + n) % cr.size = cr.last_index % cr.size

Runs == INSTANCE DisjointRuns
          WITH granted <- {CellsOf(h) : h \in Holder} \ {{}}

(***************************************************************************)
(* Each request grants a run that is apart from all others.                *)
(***************************************************************************)
ImplementsRuns == Runs!Spec
-----------------------------------------------------------------------------
(***************************************************************************)
(* The loop itself, for comparison: this_start and clean before each round.*)
(***************************************************************************)
LoopStart(t, n) ==
  LET state[k \in 0..t.size] ==
        IF k = 0 THEN [this_start |-> t.last_index, clean |-> 0]
        ELSE LET s  == state[k - 1]
                 at == s.this_start + s.clean
             IN  IF s.clean = n THEN s
                 ELSE IF at = t.size \/ at \in t.occupied
                 THEN [this_start |-> (at + 1) % t.size, clean |-> 0]
                 ELSE [s EXCEPT !.clean = @ + 1]
      found == {k \in 0..(t.size - 1) : state[k].clean = n}
  IN  IF found = {} THEN -1 ELSE state[Min(found)].this_start

(***************************************************************************)
(* Rounds and StartOf, which have no loop, find what the loop of           *)
(* ContinueRegion__requestRegion finds, in every table and for every       *)
(* length, and nothing when it finds nothing.                              *)
(***************************************************************************)
FindsAsTheLoop ==
  \A n \in 0..MaxRequest :
    LET found == Rounds(cr, n)
    IN  LoopStart(cr, n) = IF found = {} THEN -1 ELSE StartOf(cr, n, Min(found))
=============================================================================
