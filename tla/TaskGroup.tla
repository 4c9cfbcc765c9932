------------------------------ MODULE TaskGroup ------------------------------
(***************************************************************************)
(* b1_structured_task_group_scaled of benchmarks.py: workers with distinct *)
(* delays in one asyncio.TaskGroup; worker 1 raises at once if             *)
(* fail_trigger is set, and the group then cancels the others and its      *)
(* parent.  The benchmark returns how many workers counted.                *)
(***************************************************************************)
EXTENDS AsyncTask

CONSTANTS
  NumWorkers,
  Delay(_)      \* the sleep of a worker, in ticks

Workers == 1..NumWorkers

ASSUME WorkersAssumption == NumWorkers \in Nat \ {0, 1}
ASSUME DelayAssumption == \A w \in Workers : Delay(w) \in Nat \ {0}

VARIABLES
  fail_trigger,
  pc,         \* "start", "sleep", "ok", "error", "cancelled"; Main: "start",
              \* "exit" (waiting in TaskGroup.__aexit__), "done"
  count,      \* shared_state["count"]
  tasks,      \* TaskGroup._tasks
  aborting    \* TaskGroup._aborting, set together with the parent's cancel

programVars == <<fail_trigger, pc, count, tasks, aborting>>
vars == <<loopVars, taskVars, programVars>>

Over(w) == pc[w] \in {"ok", "error", "cancelled"}
Goto(t, l) == pc' = [pc EXCEPT ![t] = l]

Init ==
  /\ LoopInit(Step(Main))
  /\ TasksInit({Main} \union Workers)
  /\ fail_trigger \in BOOLEAN
  /\ pc = [t \in {Main} \union Workers |-> "start"]
  /\ count = 0
  /\ tasks = {}
  /\ aborting = FALSE
-----------------------------------------------------------------------------
\* tg.create_task for every worker, then __aexit__ waits for them.
MainStart ==
  /\ pc[Main] = "start"
  /\ RunHandle(Step(Main), [w \in Workers |-> Step(w)])
  /\ tasks' = Workers
  /\ Suspend(Main)
  /\ Goto(Main, "exit")
  /\ UNCHANGED <<timers, fail_trigger, count, aborting>>

\* Mutant of Raises: the trigger is not tested.
RaisesAlways(w) == w = 1

\* worker_id == 1 and fail_trigger
Raises(w) == w = 1 /\ fail_trigger

WorkerSleeps(w) ==
  /\ pc[w] = "start"
  /\ ~Raises(w)
  /\ RunHandle(Step(w), <<>>)
  /\ timers' = timers \union {Timer(Delay(w), Fire(w))}
  /\ Suspend(w)
  /\ Goto(w, "sleep")
  /\ UNCHANGED <<fail_trigger, count, tasks, aborting>>

WorkerRaises(w) ==
  /\ pc[w] = "start"
  /\ Raises(w)
  /\ RunHandle(Step(w), <<DoneCb(w)>>)
  /\ Goto(w, "error")
  /\ UNCHANGED <<timers, taskVars, fail_trigger, count, tasks, aborting>>

WorkerCounts(w) ==
  /\ pc[w] = "sleep"
  /\ ~Throws(w)
  /\ RunHandle(Step(w), <<DoneCb(w)>>)
  /\ count' = count + 1
  /\ Clear(w)
  /\ Goto(w, "ok")
  /\ UNCHANGED <<timers, fail_trigger, tasks, aborting>>

\* CancelledError out of the worker's sleep.
WorkerCancelled(w) ==
  /\ pc[w] = "sleep"
  /\ Throws(w)
  /\ RunHandle(Step(w), <<DoneCb(w)>>)
  /\ timers' = WithoutTimer(Fire(w))
  /\ Clear(w)
  /\ Goto(w, "cancelled")
  /\ UNCHANGED <<fail_trigger, count, tasks, aborting>>

(***************************************************************************)
(* TaskGroup._on_task_done of a child that counted or was cancelled: the   *)
(* last child completes the future its parent waits for.                   *)
(***************************************************************************)
ChildDone(w) ==
  /\ pc[w] # "error"
  /\ tasks' = tasks \ {w}
  /\ LET wakes == tasks' = {} /\ fut[Main] = "pending"
     IN /\ RunHandle(DoneCb(w), IF wakes THEN <<Step(Main)>> ELSE <<>>)
        /\ fut' = [fut EXCEPT ![Main] = IF wakes THEN "result" ELSE @]
  /\ UNCHANGED <<timers, must_cancel, fail_trigger, pc, count, aborting>>

(***************************************************************************)
(* TaskGroup._on_task_done of the child that raised: _abort() cancels      *)
(* every child that is not done (a set: in any order), then the parent is  *)
(* cancelled to leave whatever it waits for.                               *)
(***************************************************************************)
ChildFailed(w) ==
  /\ pc[w] = "error"
  /\ ~aborting
  /\ tasks' = tasks \ {w}
  /\ LET live  == {u \in tasks' : ~Over(u)}
         woken == Interrupted(live)
     IN /\ \E order \in [1..Cardinality(woken) -> woken] :
             /\ \A u \in woken : \E i \in DOMAIN order : order[i] = u
             /\ RunHandle(DoneCb(w),
                  [i \in DOMAIN order |-> Step(order[i])]
                    \o (IF fut[Main] = "pending" THEN <<Step(Main)>> ELSE <<>>))
        /\ fut' = FutAfterCancel(live \union {Main})
        /\ must_cancel' = MarkedAfterCancel(live \union {Main})
  /\ aborting' = TRUE
  /\ UNCHANGED <<timers, fail_trigger, pc, count>>

\* __aexit__ is resumed (a CancelledError of its own making is swallowed)
\* and children are left: it waits for a new future.
MainWaitsOn ==
  /\ pc[Main] = "exit"
  /\ tasks # {}
  /\ RunHandle(Step(Main), <<>>)
  /\ Suspend(Main)
  /\ UNCHANGED <<timers, programVars>>

\* Mutant of MainReturn: the parent's cancellation ends the wait early.
MainReturnEarly ==
  /\ pc[Main] = "exit"
  /\ RunHandle(Step(Main), <<>>)
  /\ Clear(Main)
  /\ Goto(Main, "done")
  /\ UNCHANGED <<timers, fail_trigger, count, tasks, aborting>>

\* No children are left; `except* ValueError` swallows the group's errors.
MainReturn ==
  /\ pc[Main] = "exit"
  /\ tasks = {}
  /\ RunHandle(Step(Main), <<>>)
  /\ Clear(Main)
  /\ Goto(Main, "done")
  /\ UNCHANGED <<timers, fail_trigger, count, tasks, aborting>>

Finished == LoopDone /\ pc[Main] = "done" /\ UNCHANGED vars

Loop == (StartIteration \/ Tick) /\ UNCHANGED <<taskVars, programVars>>

Sleeps(w) == SleepFires(w) /\ UNCHANGED programVars

Next ==
  \/ Loop
  \/ MainStart
  \/ \E w \in Workers :
       \/ Sleeps(w)
       \/ WorkerSleeps(w)
       \/ WorkerRaises(w)
       \/ WorkerCounts(w)
       \/ WorkerCancelled(w)
       \/ ChildDone(w)
       \/ ChildFailed(w)
  \/ MainWaitsOn
  \/ MainReturn
  \/ Finished

Spec == Init /\ [][Next]_vars

\* A thread runs the loop until it is done: some step is always taken.
FairSpec == Spec /\ WF_vars(Next)
-----------------------------------------------------------------------------
TypeOK ==
  /\ todo \in 0..Len(ready)
  /\ fut \in [{Main} \union Workers -> FutureStates]
  /\ must_cancel \subseteq {Main} \union Workers
  /\ fail_trigger \in BOOLEAN
  /\ pc \in [{Main} \union Workers ->
        {"start", "sleep", "ok", "error", "cancelled", "exit", "done"}]
  /\ count \in 0..NumWorkers
  /\ tasks \subseteq Workers
  /\ aborting \in BOOLEAN

(***************************************************************************)
(* "if fail_trigger=1 then shared_count=0", at every moment and however    *)
(* late the loop is: worker 1 fails in the iteration in which the others   *)
(* begin to sleep, and its done callback is ahead of every timer.          *)
(***************************************************************************)
FailureCountsNothing == fail_trigger => count = 0

(***************************************************************************)
(* An abort reaches everybody: once the group is aborting, a worker that   *)
(* is not over has a CancelledError and the step that throws it coming.    *)
(***************************************************************************)
AbortReachesAll ==
  aborting => \A w \in Workers : ~Over(w) => Throws(w) /\ IsReady(Step(w))

(***************************************************************************)
(* Structured concurrency: when the benchmark returns every worker is over *)
(* and the group has seen it, so no worker can count afterwards.           *)
(***************************************************************************)
NoOrphan ==
  pc[Main] = "done" => tasks = {} /\ \A w \in Workers : Over(w)

\* A group that fails ends with nothing counted, one that does not with all.
ReturnsCount ==
  <>[](pc[Main] = "done" /\ count = IF fail_trigger THEN 0 ELSE NumWorkers)
=============================================================================
