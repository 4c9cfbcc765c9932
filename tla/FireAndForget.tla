---------------------------- MODULE FireAndForget ----------------------------
(***************************************************************************)
(* b2_fire_and_forget of benchmarks.py: a background job sleeps and then   *)
(* sets a flag; the caller sleeps less, cancels the job if fail_trigger is *)
(* set, awaits it and returns the flag.                                    *)
(***************************************************************************)
EXTENDS AsyncTask

CONSTANTS
  MainDelay,   \* asyncio.sleep(0.1) of the caller, in ticks
  JobDelay     \* asyncio.sleep(0.2) of background_job

ASSUME DelayAssumption ==
  MainDelay \in Nat \ {0} /\ JobDelay \in Nat /\ MainDelay < JobDelay

Job == 1

VARIABLES fail_trigger, pc, processed, returned

programVars == <<fail_trigger, pc, processed, returned>>
vars == <<loopVars, taskVars, programVars>>

Init ==
  /\ LoopInit(Step(Main))
  /\ TasksInit({Main, Job})
  /\ fail_trigger \in BOOLEAN
  /\ pc = [t \in {Main, Job} |-> "start"]
  /\ processed = FALSE
  /\ returned = FALSE

Goto(t, l) == pc' = [pc EXCEPT ![t] = l]

\* create_task(background_job()), then sleep.
MainStart ==
  /\ pc[Main] = "start"
  /\ RunHandle(Step(Main), <<Step(Job)>>)
  /\ timers' = timers \union {Timer(MainDelay, Fire(Main))}
  /\ Suspend(Main)
  /\ Goto(Main, "sleep")
  /\ UNCHANGED <<fail_trigger, processed, returned>>

JobStart ==
  /\ pc[Job] = "start"
  /\ ~Throws(Job)
  /\ RunHandle(Step(Job), <<>>)
  /\ timers' = timers \union {Timer(JobDelay, Fire(Job))}
  /\ Suspend(Job)
  /\ Goto(Job, "sleep")
  /\ UNCHANGED <<fail_trigger, processed, returned>>

\* Mutant of WakesMain: the caller is forgotten.
WakesNobody == <<>>

\* What a finished job schedules: the step of the caller that awaits it.
WakesMain == IF pc[Main] = "await" THEN <<Step(Main)>> ELSE <<>>

\* The job after its sleep.
JobCompletes ==
  /\ pc[Job] = "sleep"
  /\ ~Throws(Job)
  /\ RunHandle(Step(Job), WakesMain)
  /\ processed' = TRUE
  /\ Clear(Job)
  /\ Goto(Job, "completed")
  /\ UNCHANGED <<timers, fail_trigger, returned>>

\* CancelledError out of the job's sleep.
JobCancelled ==
  /\ pc[Job] = "sleep"
  /\ Throws(Job)
  /\ RunHandle(Step(Job), WakesMain)
  /\ timers' = WithoutTimer(Fire(Job))
  /\ Clear(Job)
  /\ Goto(Job, "cancelled")
  /\ UNCHANGED <<fail_trigger, processed, returned>>

\* The caller after its sleep: cancel the job if told to, then await it.  The
\* job is never over by then; if it were, this step would be missing.
MainAwaits ==
  /\ pc[Main] = "sleep"
  /\ pc[Job] \in {"start", "sleep"}
  /\ LET victims == IF fail_trigger THEN {Job} ELSE {}
     IN /\ RunHandle(Step(Main),
                     IF Interrupted(victims) # {} THEN <<Step(Job)>> ELSE <<>>)
        /\ fut' = [FutAfterCancel(victims) EXCEPT ![Main] = "pending"]
        /\ must_cancel' = MarkedAfterCancel(victims)
  /\ Goto(Main, "await")
  /\ UNCHANGED <<timers, fail_trigger, processed, returned>>

\* The await is over: the job completed, or its CancelledError is caught.
MainReturn ==
  /\ pc[Main] = "await"
  /\ RunHandle(Step(Main), <<>>)
  /\ returned' = processed
  /\ Clear(Main)
  /\ Goto(Main, "done")
  /\ UNCHANGED <<timers, fail_trigger, processed>>

Finished == LoopDone /\ pc[Main] = "done" /\ UNCHANGED vars

Loop == (StartIteration \/ Tick) /\ UNCHANGED <<taskVars, programVars>>

Sleeps == \E t \in {Main, Job} : SleepFires(t) /\ UNCHANGED programVars

Next ==
  \/ Loop
  \/ Sleeps
  \/ MainStart
  \/ JobStart
  \/ JobCompletes
  \/ JobCancelled
  \/ MainAwaits
  \/ MainReturn
  \/ Finished

Spec == Init /\ [][Next]_vars

\* A thread runs the loop until it is done: some step is always taken.
FairSpec == Spec /\ WF_vars(Next)
-----------------------------------------------------------------------------
TypeOK ==
  /\ todo \in 0..Len(ready)
  /\ fut \in [{Main, Job} -> FutureStates]
  /\ must_cancel \subseteq {Main, Job}
  /\ fail_trigger \in BOOLEAN
  /\ pc \in [{Main, Job} ->
               {"start", "sleep", "await", "completed", "cancelled", "done"}]
  /\ processed \in BOOLEAN
  /\ returned \in BOOLEAN

(***************************************************************************)
(* A cancelled job never sets the flag, however late the loop polls: even  *)
(* when both sleeps are over in the same poll, the caller's step comes     *)
(* first and marks the job, whose step then throws instead of running on.  *)
(***************************************************************************)
CancelWins == fail_trigger => ~processed

\* The caller returns, TRUE exactly when it did not cancel the job.
ReturnsProcessed ==
  <>[](pc[Main] = "done" /\ returned = ~fail_trigger)
=============================================================================
