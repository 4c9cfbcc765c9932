------------------------------ MODULE EventLoop ------------------------------
(***************************************************************************)
(* The asyncio event loop as the programs of benchmarks.py use it, with    *)
(* the structural facts cpython_version_diff.py looks for in CPython:      *)
(*                                                                         *)
(*   SNF-1  the ready queue is a FIFO and one iteration takes a snapshot   *)
(*          of its length (ntodo = len(self._ready));                      *)
(*   SNF-2  the iteration runs exactly that many handles, so a handle      *)
(*          that is added while it runs waits for the next one;            *)
(*   SNF-3  a handle runs to its next suspension point in one step.        *)
(*                                                                         *)
(* A timer is kept as the time it still has to wait, so that no absolute   *)
(* clock is needed.  It becomes negative when the loop is late: a busy     *)
(* loop (a long handle, a process that gets no CPU) polls its timers only  *)
(* after they are due.                                                     *)
(***************************************************************************)
EXTENDS Integers, Sequences, FiniteSets

CONSTANT
  MaxLate   \* bound: how late a timer may be polled.  0 is the ideal loop,
            \* in which time passes only while nothing is ready.

ASSUME MaxLateAssumption == MaxLate \in Nat

VARIABLES
  ready,    \* BaseEventLoop._ready: the handles to run, oldest first
  todo,     \* handles of the current iteration's snapshot not yet run
  timers    \* BaseEventLoop._scheduled: records [left, handle]

loopVars == <<ready, todo, timers>>

(***************************************************************************)
(* Handles.  Step(t) runs task t to its next suspension point, Fire(x) is  *)
(* the callback of a timer, DoneCb(t) the callbacks of the finished task.  *)
(***************************************************************************)
Step(t)   == <<"step", t>>
Fire(x)   == <<"fire", x>>
DoneCb(t) == <<"done", t>>

\* loop.call_later(d, h)
Timer(d, h) == [left |-> d, handle |-> h]

Due == {t \in timers : t.left <= 0}

\* The orders in which a poll may move the timers of D to the ready queue:
\* by deadline, ties in either order (the heap compares deadlines only).
ByDeadline(D) ==
  {q \in [1..Cardinality(D) -> D] :
     \A i, j \in DOMAIN q : i < j => q[i] # q[j] /\ q[i].left <= q[j].left}

Idle == ready = <<>> /\ Due = {}

(***************************************************************************)
(* The start of one iteration: timers that are due go behind the handles   *)
(* that are ready already, then the length of the queue is the snapshot.   *)
(* An idle loop sleeps in select() instead.                                *)
(***************************************************************************)
StartIteration ==
  /\ todo = 0
  /\ ~Idle
  /\ \E q \in ByDeadline(Due) :
       /\ ready' = ready \o [i \in DOMAIN q |-> q[i].handle]
       /\ todo' = Len(ready) + Len(q)
  /\ timers' = timers \ Due

\* Mutant of RunHandle: the snapshot is not counted down.
RunHandleUncounted(h, new) ==
  /\ todo > 0 /\ Head(ready) = h
  /\ ready' = Tail(ready) \o new
  /\ UNCHANGED todo

\* The iteration runs its next handle h, which schedules the handles of new.
RunHandle(h, new) ==
  /\ todo > 0
  /\ Head(ready) = h
  /\ ready' = Tail(ready) \o new
  /\ todo' = todo - 1

\* Time passes: while the loop sleeps, or while it is busy and late.
Tick ==
  /\ timers # {}
  /\ \/ Idle
     \/ MaxLate > 0 /\ \A t \in timers : t.left > -MaxLate
  /\ timers' = {Timer(t.left - 1, t.handle) : t \in timers}
  /\ UNCHANGED <<ready, todo>>

LoopInit(h) == ready = <<h>> /\ todo = 0 /\ timers = {}

IsReady(h)   == \E i \in 1..Len(ready) : ready[i] = h
IsPending(h) == \E t \in timers : t.handle = h

\* asyncio.run() has nothing left to run.
LoopDone == ready = <<>> /\ todo = 0 /\ timers = {}
=============================================================================
