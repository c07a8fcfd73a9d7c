------------------------------- MODULE SleepQ -------------------------------
(***************************************************************************)
(* sleepQ.c over picoro.c: coroutines that sleep are queued, and whoever   *)
(* calls SleepQ__tryWake resumes the first; the entry leaves the queue     *)
(* when that resume() returns.  The queue is that of dynamicQ.c, here a    *)
(* sequence (ImplementsFifo in DynamicQueue).                              *)
(***************************************************************************)
EXTENDS Coroutines

VARIABLES
  sleeping,   \* the queue
  waking      \* who is inside resume() in SleepQ__tryWake

sleepVars == <<p, sleeping, waking>>

SleepTypeOK ==
  /\ CoroOK
  /\ sleeping \in Seq(Coro)
  /\ waking \subseteq 0..NCoro

SleepInit == CoInit /\ sleeping = <<>> /\ waking = {}

\* The one that has the CPU is not in the middle of SleepQ__tryWake.
Free == p.running \notin waking

Create == Free /\ CoCreate /\ UNCHANGED <<sleeping, waking>>

\* One that sleeps is left to tryWake.
ResumeOther(c) ==
  /\ Free /\ c \in Active(p) /\ p.ctx[c] # "sleep"
  /\ CoResume(c)
  /\ UNCHANGED <<sleeping, waking>>

YieldUp(c) == Free /\ CoYield(c, "yield") /\ UNCHANGED <<sleeping, waking>>

Return(c) == Free /\ CoReturn(c) /\ UNCHANGED <<sleeping, waking>>

\* SleepQ__sleep: "@pre: the running is a coroutine thread".
Sleep(c) ==
  /\ Free /\ CoYield(c, "sleep")
  /\ sleeping' = Append(sleeping, c)
  /\ UNCHANGED waking

\* Mutant of Target: the one that went to sleep last.
TargetLast == sleeping[Len(sleeping)]

Target == Head(sleeping)

\* One call of SleepQ__tryWake is under way at a time: it would fail in the
\* coroutine it has woken.  With an empty queue it does nothing.
MayWake == waking = {} /\ sleeping # <<>>

\* SleepQ__tryWake up to its resume().
TryWake(c) ==
  /\ p.running = c /\ MayWake
  /\ CoResume(Target)
  /\ waking' = waking \cup {c}
  /\ UNCHANGED sleeping

\* Mutant of Remaining: the entry that was woken stays.
RemainingAll == sleeping

Remaining == Tail(sleeping)

\* The rest of SleepQ__tryWake.
Awoken(c) ==
  /\ p.running = c /\ c \in waking
  /\ sleeping' = Remaining
  /\ waking' = waking \ {c}
  /\ UNCHANGED p

SleepNext ==
  \/ Create
  \/ \E c \in Coro : ResumeOther(c)
  \/ \E c \in 0..NCoro :
       YieldUp(c) \/ Return(c) \/ Sleep(c) \/ TryWake(c) \/ Awoken(c)

SleepSpec == SleepInit /\ [][SleepNext]_sleepVars

\* A coroutine that has the CPU again and again gives it up, a call of
\* SleepQ__tryWake goes on when it can, and the program, whenever it comes to
\* have the CPU, calls it again, as in the loop of main.
Fairness ==
  /\ \A c \in Coro : SF_sleepVars(YieldUp(c) \/ Return(c) \/ Sleep(c))
  /\ \A c \in 0..NCoro : WF_sleepVars(Awoken(c))
  /\ SF_sleepVars(TryWake(FirstCo))

FairSleepSpec == SleepSpec /\ Fairness
-----------------------------------------------------------------------------
\* The queue behind the entry that is being woken.
Behind == IF waking = {} THEN sleeping ELSE Tail(sleeping)

(***************************************************************************)
(* The queue lists each coroutine that sleeps once, and no other: behind   *)
(* an entry that is being woken, whatever its coroutine does before the    *)
(* entry leaves, sleeping again included.  So the assertion of resume()    *)
(* does not fail in SleepQ__tryWake.                                       *)
(***************************************************************************)
SleepersQueued ==
  /\ SleepTypeOK
  /\ IsInjective(Behind)
  /\ Range(Behind) = {c \in Coro : p.ctx[c] = "sleep"}
  /\ MayWake => Resumable(p, Target)

Sleepers == Among(Behind, {c \in Coro : p.ctx[c] = "sleep"})

Queue == INSTANCE Fifo WITH Item <- Coro, queue <- Sleepers, kept <- <<>>

(***************************************************************************)
(* Those who sleep are woken in the order they went to sleep.              *)
(***************************************************************************)
WokenInOrder == Queue!Spec

(***************************************************************************)
(* Whoever sleeps is woken.                                                *)
(***************************************************************************)
EverySleeperWakes ==
  \A c \in Coro : p.ctx[c] = "sleep" ~> p.ctx[c] # "sleep"
=============================================================================
