------------------------------ MODULE ContRegion ------------------------------
(***************************************************************************)
(* The table of contRegion.c that hands out runs of consecutive cells, as  *)
(* operators on a record [occupied, size, allocated, last_index] with      *)
(* occupied the set of the cells 0..size-1 that are in use.                *)
(***************************************************************************)
EXTENDS Integers, FiniteSets, FiniteSetsExt

\* ContinueRegion__init
EmptyRegions == [occupied |-> {}, size |-> 4, allocated |-> 0, last_index |-> 0]

Cells(start, n) == start..(start + n - 1)

\* __resize as ContinueRegion__requestRegion calls it; the cells added are free.
Grown(cr, n) == [cr EXCEPT !.size = (n + @) * 2]

\* Mutant of Blocked: a run goes on from the last cell to the first.
BlockedRound(cr, k) ==
  LET at == cr.last_index + k
  IN  (IF at < cr.size THEN at ELSE at - cr.size) \in cr.occupied

(***************************************************************************)
(* Does the k-th cell the search touches end a run?  From last_index it    *)
(* goes on cell by cell; it comes back to cell 0 only if the last cell is  *)
(* occupied, otherwise the round at the end of the table is the one of the *)
(* "over flow prevention", and cell 1 is next.                             *)
(***************************************************************************)
Blocked(cr, k) ==
  LET at == cr.last_index + k
  IN  IF at < cr.size THEN at \in cr.occupied
      ELSE \/ at - cr.size \in cr.occupied
           \/ at = cr.size /\ (k = 0 \/ cr.size - 1 \notin cr.occupied)

\* Mutant of Rounds: one cell too many is enough.
RoundsShort(cr, n) ==
  {k \in n..(cr.size - 1) : \A j \in (k - n + 1)..(k - 1) : ~ Blocked(cr, j)}

\* The rounds that begin with `clean == size`: behind n cells that end no run.
\* The loop sees the first.
Rounds(cr, n) ==
  {k \in n..(cr.size - 1) : \A j \in (k - n)..(k - 1) : ~ Blocked(cr, j)}

\* Where the run begins that the loop has found before round k.
StartOf(cr, n, k) ==
  LET at == cr.last_index + k - n
  IN  IF at < cr.size \/ n = 0 THEN at ELSE at - cr.size

\* __alloc, and what the caller notes.
Take(cr, start, n) ==
  [cr EXCEPT !.occupied = @ \cup Cells(start, n), !.allocated = @ + n,
             !.last_index = start + n]

\* The table that is searched first.
Roomy(cr, n) == IF n + cr.allocated > cr.size THEN Grown(cr, n) ELSE cr

\* Mutant of Searched: a search that failed is not repeated.
SearchedOnce(cr, n) == Roomy(cr, n)

(***************************************************************************)
(* ContinueRegion__requestRegion: if the search fails the table grows and  *)
(* the function calls itself; the second search does not fail              *)
(* (SearchEnds in ContinueRegion).                                         *)
(***************************************************************************)
Searched(cr, n) ==
  LET t == Roomy(cr, n)
  IN  IF Rounds(t, n) = {} THEN Grown(t, n) ELSE t

RequestRegion(cr, n) ==
  LET t     == Searched(cr, n)
      start == StartOf(t, n, Min(Rounds(t, n)))
  IN  [cr |-> Take(t, start, n), start |-> start]

\* Mutant of Release: the count stays.
ReleaseUncounted(cr, start, n) == [cr EXCEPT !.occupied = @ \ Cells(start, n)]

\* ContinueRegion__release
Release(cr, start, n) ==
  [cr EXCEPT !.occupied = @ \ Cells(start, n), !.allocated = @ - n]
=============================================================================
