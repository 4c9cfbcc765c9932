---------------------------- MODULE EventBroadcast ----------------------------
(***************************************************************************)
(* b4_event_broadcast_scaled of benchmarks.py: tasks wait for one          *)
(* asyncio.Event, the caller sleeps, sets it and gathers the tasks; each   *)
(* appends its index to a list.                                            *)
(***************************************************************************)
EXTENDS EventLoop, Selection, SequencesExt

CONSTANTS
  NumWaiters,
  Delay         \* asyncio.sleep(0.05) of the caller, in ticks

ASSUME NumWaitersAssumption == NumWaiters \in Nat \ {0}
ASSUME DelayAssumption == Delay \in Nat \ {0}

Main    == 0
Waiters == 1..NumWaiters

VARIABLES
  pc,        \* "start", "wait", "done"; Main: "start", "sleep", "gather", "done"
  is_set,    \* Event._value
  waiters,   \* Event._waiters: the tasks whose futures are queued
  woken,     \* the tasks of them whose future has a result
  results,   \* the list the waiters append to
  gathered,  \* children whose done callback gather has seen
  returned   \* what the benchmark returned, -1 before

programVars == <<pc, is_set, waiters, woken, results, gathered, returned>>
vars == <<loopVars, programVars>>

Init ==
  /\ LoopInit(Step(Main))
  /\ pc = [t \in {Main} \union Waiters |-> "start"]
  /\ is_set = FALSE
  /\ waiters = <<>>
  /\ woken = {}
  /\ results = <<>>
  /\ gathered = {}
  /\ returned = -1
-----------------------------------------------------------------------------
MainStart ==
  /\ pc[Main] = "start"
  /\ RunHandle(Step(Main), [w \in Waiters |-> Step(w)])
  /\ timers' = timers \union {Timer(Delay, Fire(Main))}
  /\ pc' = [pc EXCEPT ![Main] = "sleep"]
  /\ UNCHANGED <<is_set, waiters, woken, results, gathered, returned>>

\* await event.wait() while the event is not set, which it never is when a
\* waiter begins; if it were, this step would be missing.
Wait(w) ==
  /\ pc[w] = "start"
  /\ ~is_set
  /\ RunHandle(Step(w), <<>>)
  /\ waiters' = Append(waiters, w)
  /\ pc' = [pc EXCEPT ![w] = "wait"]
  /\ UNCHANGED <<timers, is_set, woken, results, gathered, returned>>

\* The waiter is resumed and leaves the queue of the event.
Continue(w) ==
  /\ pc[w] = "wait"
  /\ RunHandle(Step(w), <<DoneCb(w)>>)
  /\ \E i \in DOMAIN waiters :
       waiters[i] = w /\ waiters' = RemoveAt(waiters, i)
  /\ woken' = woken \ {w}
  /\ results' = Append(results, w)
  /\ pc' = [pc EXCEPT ![w] = "done"]
  /\ UNCHANGED <<timers, is_set, gathered, returned>>

SleepOver ==
  /\ RunHandle(Fire(Main), <<Step(Main)>>)
  /\ UNCHANGED <<timers, programVars>>

\* Mutants of Asleep: the first waiter only; the waiters in reverse.
AsleepFirst    == IF waiters = <<>> THEN <<>> ELSE <<Head(waiters)>>
AsleepReversed == Reverse(SelectIn(waiters, Waiters \ woken))

\* The waiters whose future set() completes, in the order of the queue.
Asleep == SelectIn(waiters, Waiters \ woken)

\* event.set() completes the future of every waiter; then gather.
MainSets ==
  /\ pc[Main] = "sleep"
  /\ RunHandle(Step(Main), [i \in DOMAIN Asleep |-> Step(Asleep[i])])
  /\ woken' = woken \union ToSet(Asleep)
  /\ is_set' = TRUE
  /\ pc' = [pc EXCEPT ![Main] = "gather"]
  /\ UNCHANGED <<timers, waiters, results, gathered, returned>>

GatherChild(w) ==
  /\ gathered' = gathered \union {w}
  /\ RunHandle(DoneCb(w), IF gathered' = Waiters THEN <<Step(Main)>> ELSE <<>>)
  /\ UNCHANGED <<timers, pc, is_set, waiters, woken, results, returned>>

MainReturn ==
  /\ pc[Main] = "gather"
  /\ RunHandle(Step(Main), <<>>)
  /\ pc' = [pc EXCEPT ![Main] = "done"]
  /\ returned' = Len(results)
  /\ UNCHANGED <<timers, is_set, waiters, woken, results, gathered>>

Finished == LoopDone /\ pc[Main] = "done" /\ UNCHANGED vars

Loop == (StartIteration \/ Tick) /\ UNCHANGED programVars

Next ==
  \/ Loop
  \/ MainStart
  \/ \E w \in Waiters : Wait(w) \/ Continue(w) \/ GatherChild(w)
  \/ SleepOver
  \/ MainSets
  \/ MainReturn
  \/ Finished

Spec == Init /\ [][Next]_vars

\* A thread runs the loop until it is done: some step is always taken.
FairSpec == Spec /\ WF_vars(Next)
-----------------------------------------------------------------------------
TypeOK ==
  /\ todo \in 0..Len(ready)
  /\ pc \in [{Main} \union Waiters ->
               {"start", "sleep", "gather", "wait", "done"}]
  /\ is_set \in BOOLEAN
  /\ waiters \in Seq(Waiters)
  /\ woken \subseteq Waiters
  /\ results \in Seq(Waiters)
  /\ gathered \subseteq Waiters
  /\ returned \in -1..NumWaiters

(***************************************************************************)
(* "all waiters unblock atomically": the set() that releases one waiter    *)
(* releases all of them, whatever the loop's delay -- from then on nobody  *)
(* is left asleep in the event's queue, and nobody came too late for it.   *)
(***************************************************************************)
SetReleasesAll ==
  is_set => \A w \in Waiters :
              pc[w] = "done" \/ (w \in woken /\ IsReady(Step(w)))

\* No waiter passes the event before it is set, and they pass it in the
\* order in which they queued.
ReleasedInOrder ==
  /\ results # <<>> => is_set
  /\ results = [i \in 1..Len(results) |-> i]

\* len(results) = NumWaiters is returned.
ReturnsAll == <>[](returned = NumWaiters)
=============================================================================
