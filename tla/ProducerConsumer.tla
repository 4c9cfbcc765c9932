--------------------------- MODULE ProducerConsumer ---------------------------
(***************************************************************************)
(* b6_producer_consumer_queue_scaled of benchmarks.py: producers put       *)
(* numbered items into one bounded asyncio.Queue, consumers each collect   *)
(* a fixed number of them into the list `state`, and the caller gathers    *)
(* all of them.                                                            *)
(*                                                                         *)
(* A task that does not have to wait goes on without giving up the loop:   *)
(* one handle of a producer puts items until the queue is full, one of a   *)
(* consumer takes items until it is empty.  `running` names the task whose *)
(* handle is in progress; nothing else moves until it suspends (SNF-3).    *)
(*                                                                         *)
(* asyncio.Queue keeps a FIFO of suspended getters and one of putters.     *)
(* put_nowait completes the first getter's future, get_nowait the first    *)
(* putter's (SNF-4), but the woken task only tests the queue again: a      *)
(* task that was ready before it may have used the item or the slot, and   *)
(* then it queues once more, at the end.                                   *)
(***************************************************************************)
EXTENDS EventLoop, Selection, SequencesExt

CONSTANTS
  NumProducers,
  NumConsumers,
  ItemsEach,    \* `count` of producer
  Target,       \* `target` of consumer
  maxsize,      \* of the queue
  Orders        \* the orders in which the tasks may be created

Main      == 0
Producers == 1..NumProducers
Consumers == NumProducers + 1 .. NumProducers + NumConsumers
Tasks     == Producers \union Consumers
Nobody    == -1

ASSUME SizeAssumption ==
  /\ NumProducers \in Nat \ {0}
  /\ NumConsumers \in Nat \ {0}
  /\ ItemsEach \in Nat \ {0}
  /\ Target \in Nat \ {0}
  /\ maxsize \in Nat \ {0}
ASSUME BalanceAssumption == NumProducers * ItemsEach = NumConsumers * Target
ASSUME OrdersAssumption ==
  Orders # {} /\ Orders \subseteq SetToSeqs(Tasks)

VARIABLES
  running,     \* the task whose handle is in progress, or Nobody
  pc,          \* "start", "loop" (inside the body), "done"; "gather" for Main
  progress,    \* items a producer has put, items a consumer has collected
  queue,       \* Queue._queue: items <<producer, number>>
  getters,     \* Queue._getters
  putters,     \* Queue._putters
  unfinished,  \* Queue._unfinished_tasks
  state,       \* the list the consumers append to
  gathered     \* children whose done callback gather has seen

queueVars   == <<queue, getters, putters, unfinished>>
programVars == <<running, pc, progress, queueVars, state, gathered>>
vars == <<loopVars, programVars>>

Init ==
  /\ LoopInit(Step(Main))
  /\ running = Nobody
  /\ pc = [t \in {Main} \union Tasks |-> "start"]
  /\ progress = [t \in Tasks |-> 0]
  /\ queue = <<>> /\ getters = <<>> /\ putters = <<>>
  /\ unfinished = 0
  /\ state = <<>>
  /\ gathered = {}
-----------------------------------------------------------------------------
MainStart ==
  /\ running = Nobody
  /\ pc[Main] = "start"
  /\ \E order \in Orders :
       RunHandle(Step(Main), [i \in DOMAIN order |-> Step(order[i])])
  /\ pc' = [pc EXCEPT ![Main] = "gather"]
  /\ UNCHANGED <<timers, running, progress, queueVars, state, gathered>>

\* A task is resumed: at its start, or inside `while self.full()` or
\* `while self.empty()`, whose condition is tested again.
Resume(t) ==
  /\ running = Nobody
  /\ pc[t] \in {"start", "loop"}
  /\ RunHandle(Step(t), <<>>)
  /\ running' = t
  /\ pc' = [pc EXCEPT ![t] = "loop"]
  /\ UNCHANGED <<timers, progress, queueVars, state, gathered>>

\* The running task schedules the handles of new.
Schedule(new) == ready' = ready \o new /\ UNCHANGED <<todo, timers>>

\* Mutant of WakeFirst: the wake-up is forgotten.
WakeNobody(waiters) == <<>>

\* Queue._wakeup_next: the step of the first waiter, and who still waits.
WakeFirst(waiters) == IF waiters = <<>> THEN <<>> ELSE <<Step(Head(waiters))>>
StillWaiting(waiters) == IF waiters = <<>> THEN <<>> ELSE Tail(waiters)

\* After an operation that did not block: go on, or finish when the loop of
\* the body has made `total` rounds.
Advance(t, total, woken) ==
  /\ progress' = [progress EXCEPT ![t] = @ + 1]
  /\ IF progress[t] + 1 = total
     THEN /\ running' = Nobody
          /\ pc' = [pc EXCEPT ![t] = "done"]
          /\ Schedule(woken \o <<DoneCb(t)>>)
     ELSE /\ UNCHANGED <<running, pc>>
          /\ Schedule(woken)

\* Mutant of Full: one item too many.
FullTooLate == Len(queue) > maxsize

Full  == Len(queue) >= maxsize
Empty == queue = <<>>

\* Mutant of Put: a stack instead of a FIFO.
PutOnTop(p) ==
  /\ running = p
  /\ ~Full
  /\ queue' = <<<<p, progress[p] + 1>>>> \o queue
  /\ unfinished' = unfinished + 1
  /\ getters' = StillWaiting(getters)
  /\ Advance(p, ItemsEach, WakeFirst(getters))
  /\ UNCHANGED <<putters, state, gathered>>

\* await queue.put(item), the queue has room.
Put(p) ==
  /\ running = p
  /\ ~Full
  /\ queue' = Append(queue, <<p, progress[p] + 1>>)
  /\ unfinished' = unfinished + 1
  /\ getters' = StillWaiting(getters)
  /\ Advance(p, ItemsEach, WakeFirst(getters))
  /\ UNCHANGED <<putters, state, gathered>>

\* Mutant of PutWait: the producer suspends without being queued.
PutWaitUnqueued(p) ==
  /\ running = p
  /\ Full
  /\ running' = Nobody
  /\ UNCHANGED <<loopVars, pc, progress, queueVars, state, gathered>>

\* await queue.put(item), the queue is full: suspend.
PutWait(p) ==
  /\ running = p
  /\ Full
  /\ putters' = Append(putters, p)
  /\ running' = Nobody
  /\ UNCHANGED <<loopVars, pc, progress, queue, getters, unfinished, state,
                 gathered>>

\* item = await queue.get(); state.append(item); queue.task_done()
Get(c) ==
  /\ running = c
  /\ ~Empty
  /\ queue' = Tail(queue)
  /\ putters' = StillWaiting(putters)
  /\ state' = Append(state, Head(queue))
  /\ unfinished' = unfinished - 1
  /\ Advance(c, Target, WakeFirst(putters))
  /\ UNCHANGED <<getters, gathered>>

\* await queue.get(), the queue is empty: suspend.
GetWait(c) ==
  /\ running = c
  /\ Empty
  /\ getters' = Append(getters, c)
  /\ running' = Nobody
  /\ UNCHANGED <<loopVars, pc, progress, queue, putters, unfinished, state,
                 gathered>>

GatherChild(t) ==
  /\ running = Nobody
  /\ gathered' = gathered \union {t}
  /\ RunHandle(DoneCb(t), IF gathered' = Tasks THEN <<Step(Main)>> ELSE <<>>)
  /\ UNCHANGED <<timers, running, pc, progress, queueVars, state>>

\* return len(state)
MainReturn ==
  /\ running = Nobody
  /\ pc[Main] = "gather"
  /\ RunHandle(Step(Main), <<>>)
  /\ pc' = [pc EXCEPT ![Main] = "done"]
  /\ UNCHANGED <<timers, running, progress, queueVars, state, gathered>>

Finished == LoopDone /\ pc[Main] = "done" /\ UNCHANGED vars

Loop == running = Nobody /\ StartIteration /\ UNCHANGED programVars

Next ==
  \/ Loop
  \/ MainStart
  \/ \E t \in Tasks : Resume(t) \/ GatherChild(t)
  \/ \E p \in Producers : Put(p) \/ PutWait(p)
  \/ \E c \in Consumers : Get(c) \/ GetWait(c)
  \/ MainReturn
  \/ Finished

Spec == Init /\ [][Next]_vars

\* A thread runs the loop until it is done: some step is always taken.
FairSpec == Spec /\ WF_vars(Next)
-----------------------------------------------------------------------------
Items == Producers \X (1..ItemsEach)

TypeOK ==
  /\ todo \in 0..Len(ready)
  /\ running \in Tasks \union {Nobody}
  /\ pc \in [{Main} \union Tasks -> {"start", "gather", "loop", "done"}]
  /\ \A p \in Producers : progress[p] \in 0..ItemsEach
  /\ \A c \in Consumers : progress[c] \in 0..Target
  /\ queue \in Seq(Items) /\ Len(queue) <= maxsize
  /\ getters \in Seq(Consumers) /\ putters \in Seq(Producers)
  /\ unfinished \in Nat        \* task_done() never raises ValueError
  /\ state \in Seq(Items)
  /\ gathered \subseteq Tasks

(***************************************************************************)
(* "all 8 items are consumed exactly once": what has been consumed,        *)
(* followed by what is queued, holds every item each producer has put      *)
(* exactly once, and in the order in which it put them.                    *)
(***************************************************************************)
ExactlyOnceInOrder ==
  \A p \in Producers :
    SelectIn(state \o queue, {p} \X (1..ItemsEach))
      = [i \in 1..progress[p] |-> <<p, i>>]

Moving(S) == Cardinality({t \in S : running = t \/ IsReady(Step(t))})

(***************************************************************************)
(* No wake-up is lost, although a woken task may find that a faster one    *)
(* has taken its item or its slot: while a getter waits there is an awake  *)
(* consumer for every queued item, and while a putter waits there is an    *)
(* awake producer for every free slot.                                     *)
(***************************************************************************)
NoLostWakeup ==
  /\ getters # <<>> => Len(queue) <= Moving(Consumers)
  /\ putters # <<>> => maxsize - Len(queue) <= Moving(Producers)

\* "should always be 8": everybody finishes, with every item in the list.
AllCollected ==
  <>[](pc[Main] = "done" /\ Len(state) = NumProducers * ItemsEach)

Channel == INSTANCE BoundedChannel

\* Under the waiters and wake-ups this is a bounded FIFO channel in which
\* every put that has room and every get that has an item happens at last.
ImplementsChannel == Channel!Spec
=============================================================================
