---------------------------- MODULE ResumeStack ----------------------------
(***************************************************************************)
(* What picoro.h promises: resume gives the CPU to a coroutine that is     *)
(* suspended, and when it yields or is done the CPU goes back to the one   *)
(* that resumed it.  A coroutine that is done may serve again as another.  *)
(***************************************************************************)
EXTENDS Integers, Sequences

CONSTANT First

VARIABLES
  calls,      \* who has the CPU, who resumed it, and so on down to First
  suspended   \* who waits in yield(), or has not begun

vars == <<calls, suspended>>

Range(s) == {s[i] : i \in DOMAIN s}

Init == calls = <<First>> /\ suspended = {}

Create(c) == /\ c \notin suspended \cup Range(calls)
             /\ suspended' = suspended \cup {c}
             /\ UNCHANGED calls

Resume(c) == /\ c \in suspended
             /\ calls' = <<c>> \o calls
             /\ suspended' = suspended \ {c}

Yield == /\ Len(calls) > 1
         /\ calls' = Tail(calls)
         /\ suspended' = suspended \cup {Head(calls)}

Finish == /\ Len(calls) > 1
          /\ calls' = Tail(calls)
          /\ UNCHANGED suspended

Next == \/ \E c \in suspended' : Create(c)
        \/ \E c \in suspended : Resume(c)
        \/ Yield \/ Finish

Spec == Init /\ [][Next]_vars
=============================================================================
