---------------------------- MODULE DisjointRuns ----------------------------
(***************************************************************************)
(* What contRegion.c promises: every run of cells it grants is apart from  *)
(* those granted and not yet given back.  A run is the set of its cells;   *)
(* where it lies, and how large the table is, is open.                     *)
(***************************************************************************)
EXTENDS Integers

VARIABLE granted

vars == <<granted>>

IsRun(r) == \E lo, hi \in r : r = lo..hi

Init == granted = {}

Grant(r) == /\ IsRun(r)
            /\ r \cap UNION granted = {}
            /\ granted' = granted \cup {r}

GiveBack(r) == granted' = granted \ {r}

Next == \/ \E r \in granted' \ granted : Grant(r)
        \/ \E r \in granted : GiveBack(r)

Spec == Init /\ [][Next]_vars
=============================================================================
