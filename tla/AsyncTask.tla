------------------------------ MODULE AsyncTask ------------------------------
(***************************************************************************)
(* asyncio.Task on top of the event loop, as far as cancellation goes: the *)
(* future a task is suspended on, task.cancel(), and asyncio.sleep.        *)
(*                                                                         *)
(* cancel() on a task whose future is still pending cancels that future,   *)
(* which schedules the task's step.  If the future is done already the     *)
(* step has been scheduled before, and cancel() can only mark the task:    *)
(* the step that is on its way then throws CancelledError although its     *)
(* future has a result.                                                    *)
(***************************************************************************)
EXTENDS EventLoop

Main == 0   \* the task that asyncio.run() makes of the benchmark

VARIABLES
  fut,          \* per task: state of the future it is suspended on
  must_cancel   \* the tasks with Task._must_cancel set

taskVars == <<fut, must_cancel>>

FutureStates == {"none", "pending", "result", "cancelled"}

TasksInit(S) == fut = [t \in S |-> "none"] /\ must_cancel = {}

\* Mutant of Interrupted: cancel() only marks its task.
InterruptedNone(S) == {}

\* Of the tasks of S, those whose pending future a cancel() cancels.
Interrupted(S) == {t \in S : fut[t] = "pending"}

\* t.cancel() for every t of S, none of which is done: the futures and the
\* marks that result.  The caller schedules the steps of Interrupted(S).
FutAfterCancel(S) ==
  [t \in DOMAIN fut |-> IF t \in Interrupted(S) THEN "cancelled" ELSE fut[t]]
MarkedAfterCancel(S) == must_cancel \union (S \ Interrupted(S))

\* Mutants of Throws: the mark, or the cancelled future, is ignored.
ThrowsUnlessMarked(t)  == fut[t] = "cancelled"
ThrowsOnlyIfMarked(t)  == t \in must_cancel

\* The next step of t throws CancelledError into its coroutine.
Throws(t) == t \in must_cancel \/ fut[t] = "cancelled"

\* A step of t that begins a new wait, or that ends without one.
Suspend(t) == /\ fut' = [fut EXCEPT ![t] = "pending"]
              /\ must_cancel' = must_cancel \ {t}
Clear(t)   == /\ fut' = [fut EXCEPT ![t] = "none"]
              /\ must_cancel' = must_cancel \ {t}

(***************************************************************************)
(* The timer of t's sleep completes the future, unless it was cancelled.   *)
(* A handle that was itself cancelled after it became ready is skipped,    *)
(* which for a sleep is the same thing.                                    *)
(***************************************************************************)
SleepFires(t) ==
  /\ RunHandle(Fire(t), IF fut[t] = "pending" THEN <<Step(t)>> ELSE <<>>)
  /\ fut' = [fut EXCEPT ![t] = IF @ = "pending" THEN "result" ELSE @]
  /\ UNCHANGED <<timers, must_cancel>>

\* `finally: h.cancel()` of a sleep that is interrupted.
WithoutTimer(h) == {t \in timers : t.handle # h}
=============================================================================
