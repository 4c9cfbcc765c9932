----------------------------- MODULE RaceTimeout -----------------------------
(***************************************************************************)
(* b5_race_and_timeout_scaled of benchmarks.py: one task runs a list of    *)
(* races, each an asyncio.wait_for of a service that only sleeps.          *)
(*                                                                         *)
(* wait_for is the one of CPython 3.12 and later, which awaits the         *)
(* coroutine inside `async with timeout(...)`, in the caller's own task:   *)
(* one future (the sleep's), two timers, and a timer that expires cancels  *)
(* the caller.  Leaving the block turns the CancelledError into            *)
(* TimeoutError if the block's own timer has caused it.                    *)
(***************************************************************************)
EXTENDS AsyncTask

CONSTANT races   \* the list of the benchmark: a sequence of [sleep, timeout]

ASSUME RacesAssumption ==
  races \in Seq([sleep : Nat \ {0}, timeout : Nat \ {0}]) /\ races # <<>>

SleepTimer(i)   == Fire(<<"sleep", i>>)
TimeoutTimer(i) == Fire(<<"timeout", i>>)

VARIABLES
  race,      \* the race in progress; 0 before the first
  expiring,  \* the races whose Timeout is in state EXPIRING or EXPIRED
  results,   \* outcomes of the races that are over
  finished   \* the benchmark has returned

raceVars == <<race, expiring, results, finished>>
allRaceVars == <<loopVars, taskVars, raceVars>>

RaceInit ==
  /\ LoopInit(Step(Main))
  /\ TasksInit({Main})
  /\ race = 0
  /\ expiring = {}
  /\ results = <<>>
  /\ finished = FALSE
-----------------------------------------------------------------------------
\* wait_for begins race i: the timeout's timer, then the service's sleep.
Begin(i, remaining) ==
  /\ race' = i
  /\ timers' = remaining \union {Timer(races[i].timeout, TimeoutTimer(i)),
                                 Timer(races[i].sleep, SleepTimer(i))}
  /\ Suspend(Main)

RacesStart ==
  /\ race = 0
  /\ RunHandle(Step(Main), <<>>)
  /\ Begin(1, timers)
  /\ UNCHANGED <<expiring, results, finished>>

\* Mutant of Stale: the timers of an earlier race still act.
StaleAtTheEnd(i) == finished

\* A timer that was cancelled when its race ended has become ready before
\* that: the loop skips it.
Stale(i) == finished \/ i # race

\* Mutant of SleepExpires: a cancelled future gets a result all the same.
SleepOverrides(i) ==
  /\ RunHandle(SleepTimer(i), IF Stale(i) THEN <<>> ELSE <<Step(Main)>>)
  /\ fut' = [fut EXCEPT ![Main] = IF Stale(i) THEN @ ELSE "result"]
  /\ UNCHANGED <<timers, must_cancel, raceVars>>

\* The service's sleep is over.
SleepExpires(i) ==
  /\ LET wakes == ~Stale(i) /\ fut[Main] = "pending"
     IN /\ RunHandle(SleepTimer(i), IF wakes THEN <<Step(Main)>> ELSE <<>>)
        /\ fut' = [fut EXCEPT ![Main] = IF wakes THEN "result" ELSE @]
  /\ UNCHANGED <<timers, must_cancel, raceVars>>

\* Timeout._on_timeout: cancel the task, state EXPIRING.
TimeoutExpires(i) ==
  /\ LET victims == IF Stale(i) THEN {} ELSE {Main}
     IN /\ RunHandle(TimeoutTimer(i),
                     IF Interrupted(victims) # {} THEN <<Step(Main)>> ELSE <<>>)
        /\ fut' = FutAfterCancel(victims)
        /\ must_cancel' = MarkedAfterCancel(victims)
        /\ expiring' = IF Stale(i) THEN expiring ELSE expiring \union {i}
  /\ UNCHANGED <<timers, race, results, finished>>

\* Both timers of the race are cancelled when its block is left.
Remaining == {t \in timers : t.handle \notin {SleepTimer(race), TimeoutTimer(race)}}

\* Mutant of Decide: the last race is left out.
DecideButLast(outcome) ==
  /\ RunHandle(Step(Main), <<>>)
  /\ results' = Append(results, outcome)
  /\ IF race + 1 < Len(races)
     THEN Begin(race + 1, Remaining) /\ UNCHANGED finished
     ELSE timers' = Remaining /\ Clear(Main) /\ finished' = TRUE /\ UNCHANGED race
  /\ UNCHANGED expiring

\* The race is over; the next one begins in the same step.
Decide(outcome) ==
  /\ RunHandle(Step(Main), <<>>)
  /\ results' = Append(results, outcome)
  /\ IF race < Len(races)
     THEN Begin(race + 1, Remaining) /\ UNCHANGED finished
     ELSE /\ timers' = Remaining
          /\ Clear(Main)
          /\ finished' = TRUE
          /\ UNCHANGED race
  /\ UNCHANGED expiring

MainSucceeds == race > 0 /\ ~Throws(Main) /\ Decide("SUCCESS")

\* except asyncio.TimeoutError: the block's own timer threw.
MainTimesOut ==
  race > 0 /\ Throws(Main) /\ race \in expiring /\ Decide("TIMEOUT")

RacesOver == LoopDone /\ finished /\ UNCHANGED allRaceVars

RaceLoop == (StartIteration \/ Tick) /\ UNCHANGED <<taskVars, raceVars>>

RaceNext ==
  \/ RaceLoop
  \/ RacesStart
  \/ \E i \in 1..Len(races) : SleepExpires(i) \/ TimeoutExpires(i)
  \/ MainSucceeds
  \/ MainTimesOut
  \/ RacesOver

RaceSpec == RaceInit /\ [][RaceNext]_allRaceVars

\* A thread runs the loop until it is done: some step is always taken.
FairRaceSpec == RaceSpec /\ WF_allRaceVars(RaceNext)
-----------------------------------------------------------------------------
RaceTypeOK ==
  /\ todo \in 0..Len(ready)
  /\ fut \in [{Main} -> FutureStates]
  /\ must_cancel \subseteq {Main}
  /\ race \in 0..Len(races)
  /\ expiring \subseteq 1..Len(races)
  /\ results \in Seq({"SUCCESS", "TIMEOUT"}) /\ Len(results) <= Len(races)
  /\ finished \in BOOLEAN

(***************************************************************************)
(* What the program guarantees of "exactly the services with sleep <       *)
(* timeout return SUCCESS" on a loop that polls its timers late, in        *)
(* whatever order they are polled: a service that sleeps longer than       *)
(* its timeout never succeeds, and one that is faster than its timeout by  *)
(* more than the loop is late always does.                                 *)
(***************************************************************************)
FastEnoughSucceed ==
  \A i \in DOMAIN results :
    /\ races[i].timeout < races[i].sleep => results[i] = "TIMEOUT"
    /\ races[i].sleep + MaxLate < races[i].timeout => results[i] = "SUCCESS"

(***************************************************************************)
(* No race is disturbed by a timer of an earlier one: a cancellation of    *)
(* the caller is always its current block's own, so that it ends as a      *)
(* TimeoutError and never escapes as a CancelledError, and no timer of a   *)
(* race that is over is pending.                                           *)
(***************************************************************************)
NoLeakedCancel ==
  /\ Throws(Main) => race \in expiring
  /\ \A t \in timers :
       ~finished /\ t.handle \in {SleepTimer(race), TimeoutTimer(race)}

\* Every race is decided and the benchmark returns.
AllDecided == <>[](finished /\ Len(results) = Len(races))
=============================================================================
