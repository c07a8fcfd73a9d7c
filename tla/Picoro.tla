------------------------------- MODULE Picoro -------------------------------
(***************************************************************************)
(* The coroutines of picoro.c, as operators on a record                    *)
(*   [next, running, idle, ctx].                                           *)
(* A coroutine is the frame of coroutine_main that it runs in; k is the    *)
(* k-th on the stack, and FirstCo the program's own.  ctx tells where the  *)
(* jmp_buf of a coroutine was set, and so where control goes on when it is *)
(* jumped to:                                                              *)
(*   none    there is no such frame yet                                    *)
(*   fresh   in coroutine_main, no function was ever run                   *)
(*   start   in coroutine_main, about to call its function                 *)
(*   resume  in resume(), called by its function                           *)
(*   yield   in yield(), called by its function                            *)
(*   sleep   in the yield() of SleepQ__sleep                               *)
(*   done    in coroutine_main, its function has returned                  *)
(* and it is "run" for the one that has the CPU.  The bytes of the stacks, *)
(* and with them the stack_size of coroutine(), are left out.              *)
(***************************************************************************)
EXTENDS SeqFilter, FiniteSets, Functions

CONSTANTS
  NCoro,   \* bound: the frames of coroutine_main
  NULL

Coro  == 1..NCoro
FirstCo == 0

ASSUME CoroAssumption == NCoro \in Nat \ {0} /\ NULL \notin 0..NCoro

Context == {"none", "fresh", "start", "resume", "yield", "sleep", "done", "run"}

NoCoros ==
  [next |-> [c \in 0..NCoro |-> NULL], running |-> FirstCo, idle |-> NULL,
   ctx |-> [c \in 0..NCoro |-> IF c = FirstCo THEN "run" ELSE "none"]]

\* resumable() of a coroutine.
Resumable(p, c) == p.next[c] = NULL

Push(p, list, c) ==
  [p EXCEPT !.next = [@ EXCEPT ![c] = p[list]], ![list] = c]

Pop(p, list) ==
  [p EXCEPT !.next = [@ EXCEPT ![p[list]] = NULL], ![list] = p.next[p[list]]]

\* pass(): `me` goes on `there`, once it is jumped to.
Pass(p, me, there) ==
  [p EXCEPT !.ctx = [@ EXCEPT ![me] = there, ![p.running] = "run"]]

\* Mutant of Resume: the state is saved in the target.
ResumeSaved(p, c) == Pass(Push(p, "running", c), c, "resume")

Resume(p, c) ==
  LET q == Push(p, "running", c) IN Pass(q, q.next[c], "resume")

Yield(p, there) == Pass(Pop(p, "running"), p.running, there)

Frames(p) == {c \in Coro : p.ctx[c] # "none"}

\* coroutine_start(), and coroutine_main() down to its first pass(): the one
\* that has the CPU goes on.
Fork(p) ==
  LET c == Cardinality(Frames(p)) + 1
  IN  [Push(p, "idle", c) EXCEPT !.ctx = [@ EXCEPT ![c] = "fresh"]]

\* Mutant of Activated: the function is called at once.
ActivatedAtOnce(p, c) ==
  LET q == Resume(Pop(p, "idle"), c)
  IN  IF p.ctx[c] = "fresh" THEN Fork(q) ELSE q

\* An idle coroutine is resumed in coroutine_main, forks another if it is
\* fresh, and yields its address.
Activated(p, c) ==
  LET q == Resume(Pop(p, "idle"), c)
  IN  Yield(IF p.ctx[c] = "fresh" THEN Fork(q) ELSE q, "start")

\* coroutine(); what it returns is what was at the head of the idle list.
Coroutine(p) ==
  LET ready == IF p.idle = NULL THEN Fork(p) ELSE p
  IN  Activated(ready, ready.idle)

\* The function of the coroutine that has the CPU returns.
Finish(p) ==
  Pass(Push(Pop(p, "running"), "idle", p.running), p.running, "done")

\* How many frames coroutine() adds.
Forks(p) == IF p.idle = NULL THEN 2 ELSE IF p.ctx[p.idle] = "fresh" THEN 1 ELSE 0
-----------------------------------------------------------------------------
\* A list from its head on; a list that does not end is cut, with a coroutine
\* in it twice.
Chain(p, head) ==
  LET next == [c \in 0..NCoro \cup {NULL} |->
                 IF c = NULL THEN NULL ELSE p.next[c]]
      at[k \in 0..(NCoro + 1)] == IF k = 0 THEN head ELSE next[at[k - 1]]
  IN  Among([i \in 1..(NCoro + 2) |-> at[i - 1]], 0..NCoro)

Suspended(p) == {c \in Coro : p.ctx[c] \in {"start", "yield", "sleep"}}

\* The coroutines whose function has not returned.
Active(p) == {c \in Coro : p.ctx[c] \notin {"none", "fresh", "done"}}
=============================================================================
