----------------------------- MODULE Coroutines -----------------------------
(***************************************************************************)
(* picoro.c and the functions its coroutines run: the one that has the CPU *)
(* creates others, resumes one it finds resumable, yields, or returns.     *)
(* There is one thread, so each call is a step.  Module SleepQ puts the    *)
(* sleep queue on top of it.                                               *)
(***************************************************************************)
EXTENDS Picoro

VARIABLE p   \* the static state of picoro.c and the frames

CoroOK ==
  p \in [next : [0..NCoro -> 0..NCoro \cup {NULL}], running : 0..NCoro,
         idle : Coro \cup {NULL}, ctx : [0..NCoro -> Context]]

CoInit == p = NoCoros

CoCreate == /\ Cardinality(Frames(p)) + Forks(p) <= NCoro
            /\ p' = Coroutine(p)

\* resume() asserts that it may.
CoResume(c) == Resumable(p, c) /\ p' = Resume(p, c)

\* The program itself has nobody to yield to.
CoYield(c, there) ==
  /\ p.running = c /\ c # FirstCo
  /\ p' = Yield(p, there)

CoReturn(c) ==
  /\ p.running = c /\ c # FirstCo
  /\ p' = Finish(p)
-----------------------------------------------------------------------------
(***************************************************************************)
(* picoro.h of resumable(): "Returns false when the coroutine has run to   *)
(* completion or when it is blocked inside resume()"; and it is true of    *)
(* one that waits in yield() or has not begun.  Nor can the one that has   *)
(* the CPU be resumed, unless it is FirstCo, whose handle get_running()    *)
(* would have to give away.                                                *)
(***************************************************************************)
ResumableIffSuspended ==
  \A c \in Active(p) : Resumable(p, c) <=> c \in Suspended(p)

(***************************************************************************)
(* picoro.c on its lists: the coroutine at the head of the running list    *)
(* has the CPU and all others on it are suspended inside resume(), down to *)
(* FirstCo; none is on it twice, or on the idle list too, and none that    *)
(* waits for a resume() to return is missing, which would never return.    *)
(***************************************************************************)
RunningInResume ==
  LET r == Chain(p, p.running)
  IN  /\ IsInjective(r) /\ r[Len(r)] = FirstCo
      /\ \A c \in 0..NCoro :
           /\ p.ctx[c] = "run" <=> c = p.running
           /\ p.ctx[c] = "resume" <=> c \in Range(Tail(r))
      /\ Range(r) \cap Range(Chain(p, p.idle)) = {}

(***************************************************************************)
(* "The idle list contains coroutines that are suspended in                *)
(* coroutine_main().  After initialization it is never NULL"; and when a   *)
(* fresh coroutine is resumed "the idle list is empty again": the fresh    *)
(* one is the last, and coroutine() never forks where a fork would lie on  *)
(* the stack of one that is suspended.                                     *)
(***************************************************************************)
FreshIsLast ==
  LET i == Chain(p, p.idle)
  IN  /\ IsInjective(i)
      /\ Range(i) = {c \in Coro : p.ctx[c] \in {"fresh", "done"}}
      /\ Frames(p) # {} =>
           {c \in Coro : p.ctx[c] = "fresh"} = {Cardinality(Frames(p))}
           /\ i[Len(i)] = Cardinality(Frames(p))

(***************************************************************************)
(* The list a coroutine is on says what it is doing: with the lists of     *)
(* picoro.c as above, resumable(), which looks at nothing else, is right.  *)
(***************************************************************************)
ListsTellStates == ResumableIffSuspended /\ RunningInResume /\ FreshIsLast

Stack == INSTANCE ResumeStack
           WITH First <- FirstCo, calls <- Chain(p, p.running),
                suspended <- Suspended(p)

(***************************************************************************)
(* The linked lists and jumps do what the header says: control goes to the *)
(* coroutine that is resumed and comes back to the one that resumed it.    *)
(***************************************************************************)
ImplementsStack == Stack!Spec
=============================================================================
