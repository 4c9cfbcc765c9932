--------------------------- MODULE MutexContention ---------------------------
(***************************************************************************)
(* b3_mutex_contention_scaled of benchmarks.py: num_tasks tasks each read  *)
(* a shared counter, sleep, and write the value plus one back, all of it   *)
(* inside one asyncio.Lock; the caller gathers them and returns the        *)
(* counter.  Every read-sleep-write would lose updates without the lock.   *)
(*                                                                         *)
(* The lock is asyncio.Lock, whose fairness is what SNF-4 names: a FIFO    *)
(* of waiter futures, release() completes the first one, and the waiter    *)
(* stays in the FIFO until it has run.  Between release() and that moment  *)
(* the lock is free, but nobody may take it.                               *)
(***************************************************************************)
EXTENDS EventLoop, SequencesExt

CONSTANTS
  num_tasks,   \* parameter of the benchmark
  Delay        \* asyncio.sleep inside the critical section, in ticks

ASSUME NumTasksAssumption == num_tasks \in Nat \ {0}
ASSUME DelayAssumption == Delay \in Nat \ {0}

Main  == 0
Tasks == 1..num_tasks

VARIABLES
  pc,               \* where each task is suspended
  current,          \* local variable of critical_section
  shared_resource,  \* the nonlocal counter
  locked,           \* Lock._locked
  waiters,          \* Lock._waiters, the tasks whose futures they are
  woken,            \* the waiters whose future has a result already
  gathered,         \* the children whose done callback gather has seen
  returned          \* what the benchmark returned, -1 before

programVars == <<pc, current, shared_resource, locked, waiters, woken,
                 gathered, returned>>
vars == <<loopVars, programVars>>

Init ==
  /\ LoopInit(Step(Main))
  /\ pc = [t \in {Main} \union Tasks |-> "start"]
  /\ current = [t \in Tasks |-> 0]
  /\ shared_resource = 0
  /\ locked = FALSE
  /\ waiters = <<>>
  /\ woken = {}
  /\ gathered = {}
  /\ returned = -1
-----------------------------------------------------------------------------
\* create_task for every task, then the caller waits for gather.
MainStart ==
  /\ pc[Main] = "start"
  /\ RunHandle(Step(Main), [t \in Tasks |-> Step(t)])
  /\ pc' = [pc EXCEPT ![Main] = "gather"]
  /\ UNCHANGED <<timers, current, shared_resource, locked, waiters, woken,
                 gathered, returned>>

\* Mutant of Enter: the lock is not taken.
EnterUnlocked(t) ==
  /\ locked' = FALSE
  /\ current' = [current EXCEPT ![t] = shared_resource]
  /\ timers' = timers \union {Timer(Delay, Fire(t))}
  /\ pc' = [pc EXCEPT ![t] = "sleeping"]

\* Lock.acquire has succeeded: read the counter and fall asleep.
Enter(t) ==
  /\ locked' = TRUE
  /\ current' = [current EXCEPT ![t] = shared_resource]
  /\ timers' = timers \union {Timer(Delay, Fire(t))}
  /\ pc' = [pc EXCEPT ![t] = "sleeping"]

\* Mutant of AcquireFree: _locked is not tested.
AcquireUntested(t) ==
  /\ pc[t] = "start"
  /\ RunHandle(Step(t), <<>>)
  /\ waiters = <<>>
  /\ Enter(t)
  /\ UNCHANGED <<shared_resource, waiters, woken, gathered, returned>>

\* The fast path of acquire: free, and nobody is waiting.
AcquireFree(t) ==
  /\ pc[t] = "start"
  /\ RunHandle(Step(t), <<>>)
  /\ ~locked
  /\ waiters = <<>>
  /\ Enter(t)
  /\ UNCHANGED <<shared_resource, waiters, woken, gathered, returned>>

\* The slow path: queue a future and suspend on it.
AcquireWait(t) ==
  /\ pc[t] = "start"
  /\ RunHandle(Step(t), <<>>)
  /\ locked \/ waiters # <<>>
  /\ waiters' = Append(waiters, t)
  /\ pc' = [pc EXCEPT ![t] = "waiting"]
  /\ UNCHANGED <<timers, current, shared_resource, locked, woken, gathered,
                 returned>>

\* A waiter runs after its future was completed.  acquire does not test
\* _locked again.
AcquireWoken(t) ==
  /\ pc[t] = "waiting"
  /\ RunHandle(Step(t), <<>>)
  /\ \E i \in 1..Len(waiters) : waiters[i] = t /\ waiters' = RemoveAt(waiters, i)
  /\ woken' = woken \ {t}
  /\ Enter(t)
  /\ UNCHANGED <<shared_resource, gathered, returned>>

\* The sleep's timer completes the future task t is suspended on.
SleepOver(t) ==
  /\ RunHandle(Fire(t), <<Step(t)>>)
  /\ UNCHANGED <<timers, programVars>>

\* Mutants of ToWake: release() wakes nobody; release() wakes the newest.
ToWakeNobody == <<>>
ToWakeNewest == IF waiters # <<>> /\ Last(waiters) \notin woken
                THEN <<Last(waiters)>>
                ELSE <<>>

\* The first waiter, unless it has been woken before.
ToWake == IF waiters # <<>> /\ Head(waiters) \notin woken
          THEN <<Head(waiters)>>
          ELSE <<>>

\* Write the counter back, release the lock, wake the first waiter, and
\* finish; the done callback is scheduled last.
Leave(t) ==
  /\ pc[t] = "sleeping"
  /\ RunHandle(Step(t), [i \in DOMAIN ToWake |-> Step(ToWake[i])] \o <<DoneCb(t)>>)
  /\ shared_resource' = current[t] + 1
  /\ locked' = FALSE
  /\ woken' = woken \union {ToWake[i] : i \in DOMAIN ToWake}
  /\ pc' = [pc EXCEPT ![t] = "done"]
  /\ UNCHANGED <<timers, current, waiters, gathered, returned>>

\* gather's callback on child t; the last one completes the outer future.
GatherChild(t) ==
  /\ gathered' = gathered \union {t}
  /\ RunHandle(DoneCb(t), IF gathered' = Tasks THEN <<Step(Main)>> ELSE <<>>)
  /\ UNCHANGED <<timers, pc, current, shared_resource, locked, waiters, woken,
                 returned>>

MainReturn ==
  /\ pc[Main] = "gather"
  /\ RunHandle(Step(Main), <<>>)
  /\ pc' = [pc EXCEPT ![Main] = "done"]
  /\ returned' = shared_resource
  /\ UNCHANGED <<timers, current, shared_resource, locked, waiters, woken,
                 gathered>>

\* asyncio.run has returned.
Finished == LoopDone /\ pc[Main] = "done" /\ UNCHANGED vars

Loop == (StartIteration \/ Tick) /\ UNCHANGED programVars

TaskStep(t) ==
  \/ AcquireFree(t)
  \/ AcquireWait(t)
  \/ AcquireWoken(t)
  \/ SleepOver(t)
  \/ Leave(t)
  \/ GatherChild(t)

Next ==
  \/ Loop
  \/ MainStart
  \/ \E t \in Tasks : TaskStep(t)
  \/ MainReturn
  \/ Finished

Spec == Init /\ [][Next]_vars

\* A thread runs the loop until it is done: some step is always taken.
FairSpec == Spec /\ WF_vars(Next)
-----------------------------------------------------------------------------
Inside(t) == pc[t] = "sleeping"
Done == {t \in Tasks : pc[t] = "done"}

Handles == {Step(t) : t \in {Main} \union Tasks}
             \union {Fire(t) : t \in Tasks} \union {DoneCb(t) : t \in Tasks}

TypeOK ==
  /\ ready \in Seq(Handles)
  /\ todo \in 0..Len(ready)
  /\ timers \subseteq [left : Int, handle : Handles]
  /\ pc \in [{Main} \union Tasks ->
               {"start", "gather", "waiting", "sleeping", "done"}]
  /\ current \in [Tasks -> Nat]
  /\ shared_resource \in Nat
  /\ locked \in BOOLEAN
  /\ waiters \in Seq(Tasks)
  /\ woken \subseteq Tasks
  /\ gathered \subseteq Tasks
  /\ returned \in Nat \union {-1}

(***************************************************************************)
(* The critical sections exclude each other, although a woken waiter takes *)
(* the lock without testing it: nothing else may take it in the gap        *)
(* between release() and that waiter's step.                               *)
(***************************************************************************)
MutualExclusion ==
  /\ \A t, u \in Tasks : Inside(t) /\ Inside(u) => t = u
  /\ locked <=> \E t \in Tasks : Inside(t)

(***************************************************************************)
(* "no lost updates under mutex": at every moment, not only at the end,    *)
(* the counter is the number of tasks that have left the critical section. *)
(***************************************************************************)
NoLostUpdate == shared_resource = Cardinality(Done)

(***************************************************************************)
(* The lock is never free with a waiter forgotten: if it is free and tasks *)
(* wait, the first of them has been woken and its step is on its way.      *)
(***************************************************************************)
NoLostWakeup ==
  ~locked /\ waiters # <<>> =>
     Head(waiters) \in woken /\ IsReady(Step(Head(waiters)))

(***************************************************************************)
(* SNF-4: the lock is granted in the order in which the tasks were         *)
(* created, a late task never overtakes a waiting one.                     *)
(***************************************************************************)
FifoGrant ==
  [][\A t \in Tasks : ~Inside(t) /\ Inside(t)' =>
        \A u \in Tasks : u < t => pc[u] = "done"]_vars

\* The benchmark's property: it returns, and what it returns is num_tasks.
ReturnsNumTasks == <>[](returned = num_tasks)

Counter == INSTANCE AtomicCounter
             WITH Clients <- Tasks, done <- Done, count <- shared_resource

\* Seen from outside, every task increments the counter once, atomically.
ImplementsAtomicCounter == Counter!Spec
=============================================================================
