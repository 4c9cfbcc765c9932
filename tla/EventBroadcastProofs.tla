------------------------- MODULE EventBroadcastProofs -------------------------
(***************************************************************************)
(* Benchmark b4 for any number of waiters, any delay and a loop that is    *)
(* late by any amount: every waiter queues before the event is set, set()  *)
(* schedules all of them, and they pass in the order of the queue.         *)
(***************************************************************************)
EXTENDS EventBroadcast, EventLoopProofs

Handles == {Step(t) : t \in {Main} \union Waiters}
             \union {DoneCb(t) : t \in Waiters} \union {Fire(Main)}

(***************************************************************************)
(* The shape of a state in each phase.  A task runs once per phase and in  *)
(* the order of creation, so a phase is described by how many have run.    *)
(***************************************************************************)
\* The first k entries of the ready queue step the waiters from a + 1 on.
StepsFirst(k, a) == \A i \in 1..k : ready[i] = Step(a + i)

\* The event's queue holds the waiters a + 1, ..., b.
Queued(a, b) ==
  /\ waiters \in Seq(Waiters) /\ Len(waiters) = b - a
  /\ \A i \in 1..Len(waiters) : waiters[i] = a + i

\* The waiters 1, ..., r have passed the event.
Passed(r) ==
  /\ results \in Seq(Waiters) /\ Len(results) = r
  /\ \A i \in 1..r : results[i] = i

Untouched == ~is_set /\ woken = {} /\ Passed(0) /\ gathered = {} /\ returned = -1

Starting ==
  /\ pc[Main] = "start" /\ \A w \in Waiters : pc[w] = "start"
  /\ Untouched /\ Queued(0, 0)
  /\ Len(ready) = 1 /\ ready[1] = Step(Main) /\ timers = {}

\* k waiters have queued; what wakes the caller is behind the other waiters.
Sleeping(k) ==
  /\ pc[Main] = "sleep"
  /\ \A w \in Waiters : pc[w] = IF w <= k THEN "wait" ELSE "start"
  /\ Untouched /\ Queued(0, k)
  /\ StepsFirst(NumWaiters - k, k)
  /\ \/ /\ Len(ready) = NumWaiters - k
        /\ \E d \in Int : timers = {Timer(d, Fire(Main))}
     \/ /\ Len(ready) = NumWaiters - k + 1
        /\ timers = {}
        /\ \/ ready[Len(ready)] = Fire(Main)
           \/ k = NumWaiters /\ ready[Len(ready)] = Step(Main)

\* r waiters have passed, and the caller has heard of g of them.
Gathering(r, g) ==
  /\ pc[Main] = "gather"
  /\ \A w \in Waiters : pc[w] = IF w <= r THEN "done" ELSE "wait"
  /\ is_set /\ woken = r + 1 .. NumWaiters /\ Queued(r, NumWaiters) /\ Passed(r)
  /\ gathered = 1..g /\ returned = -1 /\ timers = {}
  /\ g > 0 => r = NumWaiters
  /\ g < NumWaiters => /\ Len(ready) = NumWaiters - g
                       /\ StepsFirst(NumWaiters - r, r)
                       /\ \A i \in 1..r - g :
                            ready[NumWaiters - r + i] = DoneCb(g + i)
  /\ g = NumWaiters => Len(ready) = 1 /\ ready[1] = Step(Main)

Over ==
  /\ pc[Main] = "done" /\ \A w \in Waiters : pc[w] = "done"
  /\ is_set /\ woken = {} /\ Queued(NumWaiters, NumWaiters) /\ Passed(NumWaiters)
  /\ gathered = Waiters /\ returned = NumWaiters
  /\ ready = <<>> /\ timers = {}

Types ==
  /\ ready \in Seq(Handles)
  /\ todo \in 0..Len(ready)
  /\ pc \in [{Main} \union Waiters ->
               {"start", "sleep", "gather", "wait", "done"}]
  /\ is_set \in BOOLEAN

IInv ==
  /\ Types
  /\ \/ Starting
     \/ \E k \in 0..NumWaiters : Sleeping(k)
     \/ \E r \in 0..NumWaiters, g \in 0..NumWaiters : Gathering(r, g)
     \/ Over
-----------------------------------------------------------------------------
USE NumWaitersAssumption

LEMMA HandleFacts ==
  /\ \A t \in {Main} \union Waiters : Step(t) \in Handles
  /\ \A w \in Waiters : DoneCb(w) \in Handles
  /\ Fire(Main) \in Handles
  /\ Main \notin Waiters /\ \A i \in 1..NumWaiters : i \in Waiters
BY DEF Handles, Main, Waiters

(* The invariant holds initially. *)
LEMMA InitIInv == Init => IInv
<1> SUFFICES ASSUME Init PROVE IInv
  OBVIOUS
<1>1. Step(Main) \in Handles /\ Main \notin Waiters
  BY HandleFacts
<1>2. ready = <<Step(Main)>> /\ todo = 0 /\ timers = {}
  BY DEF Init, LoopInit
<1>3. Types
  <2>1. ready \in Seq(Handles) /\ Len(ready) = 1
    BY <1>1, <1>2
  <2>2. todo \in 0..Len(ready)
    BY <1>2, <2>1
  <2> QED
    BY <2>1, <2>2 DEF Types, Init
<1>4. Starting
  BY <1>1, <1>2 DEF Starting, Init, Untouched, Queued, Passed
<1> QED
  BY <1>3, <1>4 DEF IInv

(* The handle that runs is the first of the queue. *)
LEMMA Runs ==
  ASSUME Types, NEW h, NEW new \in Seq(Handles), RunHandle(h, new)
  PROVE  /\ Len(ready) \in Nat \ {0} /\ ready[1] = h
         /\ ready' \in Seq(Handles)
         /\ Len(ready') = Len(ready) - 1 + Len(new)
         /\ todo' \in 0..Len(ready')
         /\ \A i \in 1..Len(ready) - 1 : ready'[i] = ready[i + 1]
         /\ \A i \in 1..Len(new) : ready'[Len(ready) - 1 + i] = new[i]
BY RunPositions DEF Types

(* It schedules nothing, or one other. *)
LEMMA RunsAlone ==
  ASSUME Types, NEW h, RunHandle(h, <<>>)
  PROVE  /\ Len(ready) \in Nat \ {0} /\ ready[1] = h
         /\ ready' \in Seq(Handles)
         /\ Len(ready') = Len(ready) - 1
         /\ todo' \in 0..Len(ready')
         /\ \A i \in 1..Len(ready) - 1 : ready'[i] = ready[i + 1]
<1> DEFINE new == <<>>
<1>1. new \in Seq(Handles) /\ Len(new) = 0 /\ RunHandle(h, new)
  OBVIOUS
<1> HIDE DEF new
<1>2. /\ Len(ready) \in Nat \ {0} /\ ready[1] = h
      /\ ready' \in Seq(Handles)
      /\ Len(ready') = Len(ready) - 1 + Len(new)
      /\ todo' \in 0..Len(ready')
      /\ \A i \in 1..Len(ready) - 1 : ready'[i] = ready[i + 1]
      /\ \A i \in 1..Len(new) : ready'[Len(ready) - 1 + i] = new[i]
  BY <1>1, Runs
<1> QED
  BY <1>1, <1>2

LEMMA RunsForOne ==
  ASSUME Types, NEW h, NEW k \in Handles, RunHandle(h, <<k>>)
  PROVE  /\ Len(ready) \in Nat \ {0} /\ ready[1] = h
         /\ ready' \in Seq(Handles)
         /\ Len(ready') = Len(ready)
         /\ todo' \in 0..Len(ready')
         /\ \A i \in 1..Len(ready) - 1 : ready'[i] = ready[i + 1]
         /\ ready'[Len(ready)] = k
<1> DEFINE new == <<k>>
<1>1. new \in Seq(Handles) /\ Len(new) = 1 /\ new[1] = k /\ RunHandle(h, new)
  OBVIOUS
<1> HIDE DEF new
<1>2. /\ Len(ready) \in Nat \ {0} /\ ready[1] = h
      /\ ready' \in Seq(Handles)
      /\ Len(ready') = Len(ready) - 1 + Len(new)
      /\ todo' \in 0..Len(ready')
      /\ \A i \in 1..Len(ready) - 1 : ready'[i] = ready[i + 1]
      /\ \A i \in 1..Len(new) : ready'[Len(ready) - 1 + i] = new[i]
  BY <1>1, Runs
<1>3. 1 \in 1..Len(new) /\ Len(ready) - 1 + 1 = Len(ready)
  BY <1>1, <1>2
<1> QED
  BY <1>1, <1>2, <1>3

(* The caller creates the waiters, in the order of their numbers. *)
LEMMA MainStartIInv ==
  ASSUME IInv, MainStart
  PROVE  IInv'
<1> DEFINE new == [w \in Waiters |-> Step(w)]
<1>1. Types /\ Starting
  BY DEF IInv, MainStart, Sleeping, Gathering, Over
<1>2. /\ new \in Seq(Handles) /\ Len(new) = NumWaiters
      /\ \A i \in 1..NumWaiters : new[i] = Step(i)
  BY HandleFacts DEF Waiters
<1>3. /\ RunHandle(Step(Main), new)
      /\ timers' = timers \union {Timer(Delay, Fire(Main))}
      /\ pc' = [pc EXCEPT ![Main] = "sleep"]
      /\ UNCHANGED <<is_set, waiters, woken, results, gathered, returned>>
  BY DEF MainStart
<1> HIDE DEF new
<1>4. /\ ready' \in Seq(Handles) /\ todo' \in 0..Len(ready')
      /\ Len(ready') = NumWaiters
      /\ \A i \in 1..NumWaiters : ready'[i] = Step(i)
  BY <1>1, <1>2, <1>3, Runs DEF Starting
<1>5. Types'
  BY <1>1, <1>3, <1>4 DEF Types
<1>6. timers' = {Timer(Delay, Fire(Main))} /\ Delay \in Int
  BY <1>1, <1>3, DelayAssumption DEF Starting
<1>7. \A w \in Waiters : pc'[w] = "start" /\ ~(w <= 0)
  BY <1>1, <1>3, HandleFacts DEF Starting, Types, Waiters
<1>8. Sleeping(0)'
  BY <1>1, <1>3, <1>4, <1>6, <1>7
     DEF Starting, Sleeping, Types, StepsFirst, Untouched, Passed, Queued
<1> QED
  BY <1>5, <1>8 DEF IInv

(* The next waiter queues; all of them do so before the caller runs. *)
LEMMA WaitIInv ==
  ASSUME IInv, NEW w \in Waiters, Wait(w)
  PROVE  IInv'
<1>1. /\ Types /\ pc[w] = "start" /\ RunHandle(Step(w), <<>>)
      /\ waiters' = Append(waiters, w)
      /\ pc' = [pc EXCEPT ![w] = "wait"]
      /\ UNCHANGED <<timers, is_set, woken, results, gathered, returned>>
  BY DEF IInv, Wait
<1>2. /\ Len(ready) \in Nat \ {0} /\ ready[1] = Step(w)
      /\ ready' \in Seq(Handles) /\ todo' \in 0..Len(ready')
      /\ Len(ready') = Len(ready) - 1
      /\ \A i \in 1..Len(ready) - 1 : ready'[i] = ready[i + 1]
  BY <1>1, RunsAlone
<1>3. w # Main /\ Step(w) # Step(Main) /\ Step(w) # Fire(Main) /\ w \in 1..NumWaiters
  BY HandlesDiffer, HandleFacts DEF Waiters
<1>4. PICK k \in 0..NumWaiters : Sleeping(k)
  <2>1. ~Starting
    BY <1>2, <1>3 DEF Starting
  <2>2. \A r, g : ~Gathering(r, g)
    BY <1>1 DEF Gathering
  <2> QED
    BY <1>1, <2>1, <2>2 DEF IInv, Over
<1>5. k < NumWaiters
  BY <1>2, <1>3, <1>4 DEF Sleeping
<1>6. w = k + 1
  <2>1. ready[1] = Step(k + 1)
    BY <1>4, <1>5 DEF Sleeping, StepsFirst
  <2> QED
    BY <1>2, <2>1, HandlesDiffer
<1>7. Types'
  BY <1>1, <1>2 DEF Types
<1>8. Sleeping(k + 1)'
  <2>1. pc'[Main] = "sleep" /\ \A v \in Waiters : pc'[v] = IF v <= k + 1 THEN "wait" ELSE "start"
    BY <1>1, <1>3, <1>4, <1>5, <1>6 DEF Sleeping, Types, Waiters
  <2>2. Untouched'
    BY <1>1, <1>4 DEF Sleeping, Untouched, Passed
  <2>3. Queued(0, k + 1)'
    BY <1>1, <1>4, <1>6 DEF Sleeping, Queued
  <2>4. StepsFirst(NumWaiters - (k + 1), k + 1)'
    <3>1. SUFFICES ASSUME NEW i \in 1..NumWaiters - (k + 1)
                   PROVE  ready'[i] = Step(k + 1 + i)
      BY DEF StepsFirst
    <3>2. i \in 1..Len(ready) - 1 /\ i + 1 \in 1..NumWaiters - k /\ k + (i + 1) = k + 1 + i
      BY <1>2, <1>4 DEF Sleeping
    <3> QED
      BY <1>2, <1>4, <3>2 DEF Sleeping, StepsFirst
  <2>5. \/ /\ Len(ready') = NumWaiters - (k + 1)
           /\ \E d \in Int : timers' = {Timer(d, Fire(Main))}
        \/ /\ Len(ready') = NumWaiters - (k + 1) + 1
           /\ timers' = {}
           /\ ready'[Len(ready')] = Fire(Main)
    <3>1. CASE Len(ready) = NumWaiters - k /\ \E d \in Int : timers = {Timer(d, Fire(Main))}
      BY <1>1, <1>2, <3>1
    <3>2. CASE /\ Len(ready) = NumWaiters - k + 1 /\ timers = {}
               /\ ready[Len(ready)] = Fire(Main)
      BY <1>1, <1>2, <1>5, <3>2
    <3> QED
      BY <1>4, <1>5, <3>1, <3>2 DEF Sleeping
  <2> QED
    BY <2>1, <2>2, <2>3, <2>4, <2>5 DEF Sleeping
<1> QED
  BY <1>5, <1>7, <1>8 DEF IInv

(* The caller's sleep is over: by then every waiter has queued. *)
LEMMA SleepOverIInv ==
  ASSUME IInv, SleepOver
  PROVE  IInv'
<1>1. Types /\ RunHandle(Fire(Main), <<Step(Main)>>) /\ UNCHANGED <<timers, programVars>>
  BY DEF IInv, SleepOver
<1>2. /\ Len(ready) \in Nat \ {0} /\ ready[1] = Fire(Main)
      /\ ready' \in Seq(Handles) /\ todo' \in 0..Len(ready')
      /\ Len(ready') = Len(ready)
      /\ ready'[Len(ready)] = Step(Main)
  <2>1. Step(Main) \in Handles
    BY HandleFacts
  <2> QED
    BY <1>1, <2>1, RunsForOne
<1>3. \A t : Fire(Main) # Step(t) /\ Fire(Main) # DoneCb(t)
  BY HandlesDiffer
<1>4. PICK k \in 0..NumWaiters : Sleeping(k)
  <2>1. ~Starting /\ ~Over
    BY <1>2, <1>3 DEF Starting, Over
  <2>2. \A r, g \in 0..NumWaiters : ~Gathering(r, g)
    <3>1. SUFFICES ASSUME NEW r \in 0..NumWaiters, NEW g \in 0..NumWaiters, Gathering(r, g)
                   PROVE  FALSE
      OBVIOUS
    <3>2. CASE g = NumWaiters
      BY <1>2, <1>3, <3>1, <3>2 DEF Gathering
    <3>3. CASE g < NumWaiters /\ r < NumWaiters
      <4>1. ready[1] = Step(r + 1)
        BY <3>1, <3>3 DEF Gathering, StepsFirst
      <4> QED
        BY <1>2, <1>3, <4>1
    <3>4. CASE g < NumWaiters /\ r = NumWaiters
      <4>1. 1 \in 1..r - g /\ NumWaiters - r + 1 = 1
        BY <3>4
      <4>2. ready[1] = DoneCb(g + 1)
        BY <3>1, <3>4, <4>1 DEF Gathering
      <4> QED
        BY <1>2, <1>3, <4>2
    <3> QED
      BY <3>2, <3>3, <3>4
  <2> QED
    BY <2>1, <2>2 DEF IInv
<1>5. k = NumWaiters
  <2>1. SUFFICES ASSUME k < NumWaiters PROVE FALSE
    OBVIOUS
  <2>2. ready[1] = Step(k + 1)
    BY <1>4, <2>1 DEF Sleeping, StepsFirst
  <2> QED
    BY <1>2, <1>3, <2>2
<1>6. Types'
  BY <1>1, <1>2 DEF Types, programVars
<1>7. Sleeping(NumWaiters)'
  BY <1>1, <1>2, <1>4, <1>5
     DEF Sleeping, StepsFirst, Untouched, Passed, Queued, programVars
<1> QED
  BY <1>6, <1>7 DEF IInv

(* set() finds every waiter in the queue, with none of them woken before. *)
LEMMA MainSetsIInv ==
  ASSUME IInv, MainSets
  PROVE  IInv'
<1> DEFINE new == [i \in DOMAIN Asleep |-> Step(Asleep[i])]
<1>1. /\ Types /\ pc[Main] = "sleep" /\ RunHandle(Step(Main), new)
      /\ woken' = woken \union ToSet(Asleep)
      /\ is_set' = TRUE
      /\ pc' = [pc EXCEPT ![Main] = "gather"]
      /\ UNCHANGED <<timers, waiters, results, gathered, returned>>
  BY DEF IInv, MainSets
<1>2. PICK k \in 0..NumWaiters : Sleeping(k)
  BY <1>1 DEF IInv, Starting, Gathering, Over
<1>3. waiters \in Seq(Waiters) /\ Len(waiters) = k
      /\ \A i \in 1..k : waiters[i] = i
  BY <1>2 DEF Sleeping, Queued
<1>4. Asleep = waiters
  <2>1. Waiters \ woken = Waiters
    BY <1>2 DEF Sleeping, Untouched
  <2> QED
    BY <1>3, <2>1, SelectAll DEF Asleep
<1>5. /\ new \in Seq(Handles) /\ Len(new) = k
      /\ \A i \in 1..k : new[i] = Step(i)
  <2>1. new = [i \in 1..k |-> Step(i)] /\ \A i \in 1..k : Step(i) \in Handles
    BY <1>3, <1>4, HandleFacts
  <2> QED
    BY <2>1
<1> HIDE DEF new
<1>6. /\ Len(ready) \in Nat \ {0} /\ ready[1] = Step(Main)
      /\ ready' \in Seq(Handles)
      /\ Len(ready') = Len(ready) - 1 + Len(new)
      /\ todo' \in 0..Len(ready')
      /\ \A i \in 1..Len(new) : ready'[Len(ready) - 1 + i] = new[i]
  BY <1>1, <1>5, Runs
<1>7. k = NumWaiters
  <2>1. SUFFICES ASSUME k < NumWaiters PROVE FALSE
    OBVIOUS
  <2>2. ready[1] = Step(k + 1)
    BY <1>2, <2>1 DEF Sleeping, StepsFirst
  <2>3. Main = k + 1
    BY <1>6, <2>2, HandlesDiffer
  <2> QED
    BY <2>3 DEF Main
<1>8. Len(ready) = 1 /\ timers = {}
  <2>1. Step(Main) # Fire(Main)
    BY HandlesDiffer
  <2> QED
    BY <1>2, <1>6, <1>7, <2>1 DEF Sleeping
<1>9. Types'
  BY <1>1, <1>6 DEF Types
<1>10. Gathering(0, 0)'
  <2>1. pc'[Main] = "gather" /\ \A w \in Waiters : pc'[w] = "wait" /\ ~(w <= 0)
    BY <1>1, <1>2, <1>7, HandleFacts DEF Types, Sleeping, Waiters
  <2>2. woken' = 1..NumWaiters
    <3>1. ToSet(waiters) = Waiters
      BY <1>3, <1>7 DEF ToSet, Waiters
    <3> QED
      BY <1>1, <1>2, <1>4, <3>1 DEF Sleeping, Untouched, Waiters
  <2>3. Queued(0, NumWaiters)' /\ Passed(0)'
    BY <1>1, <1>2, <1>7 DEF Sleeping, Untouched, Queued, Passed
  <2>4. gathered' = 1..0 /\ returned' = -1 /\ timers' = {}
    BY <1>1, <1>2, <1>8 DEF Sleeping, Untouched
  <2>5. Len(ready') = NumWaiters /\ \A i \in 1..NumWaiters : ready'[i] = Step(i)
    BY <1>5, <1>6, <1>7, <1>8
  <2> QED
    BY <1>1, <2>1, <2>2, <2>3, <2>4, <2>5 DEF Gathering, StepsFirst
<1> QED
  BY <1>9, <1>10 DEF IInv

(* The first waiter of the queue passes the event. *)
LEMMA ContinueIInv ==
  ASSUME IInv, NEW w \in Waiters, Continue(w)
  PROVE  IInv'
<1>1. /\ Types /\ pc[w] = "wait" /\ RunHandle(Step(w), <<DoneCb(w)>>)
      /\ \E i \in DOMAIN waiters : waiters[i] = w /\ waiters' = RemoveAt(waiters, i)
      /\ woken' = woken \ {w}
      /\ results' = Append(results, w)
      /\ pc' = [pc EXCEPT ![w] = "done"]
      /\ UNCHANGED <<timers, is_set, gathered, returned>>
  BY DEF IInv, Continue
<1>2. /\ Len(ready) \in Nat \ {0} /\ ready[1] = Step(w)
      /\ ready' \in Seq(Handles) /\ todo' \in 0..Len(ready')
      /\ Len(ready') = Len(ready)
      /\ \A i \in 1..Len(ready) - 1 : ready'[i] = ready[i + 1]
      /\ ready'[Len(ready)] = DoneCb(w)
  BY <1>1, HandleFacts, RunsForOne
<1>3. w # Main /\ Step(w) # Step(Main) /\ Step(w) # Fire(Main) /\ w \in 1..NumWaiters
  BY HandlesDiffer, HandleFacts DEF Waiters
<1>4. PICK r \in 0..NumWaiters, g \in 0..NumWaiters : Gathering(r, g)
  <2>1. \A k \in 0..NumWaiters : ~Sleeping(k)
    <3>1. SUFFICES ASSUME NEW k \in 0..NumWaiters, Sleeping(k) PROVE FALSE
      OBVIOUS
    <3>2. w <= k
      BY <1>1, <1>3, <3>1 DEF Sleeping
    <3>3. k < NumWaiters
      BY <1>2, <1>3, <3>1 DEF Sleeping
    <3>4. ready[1] = Step(k + 1)
      BY <3>1, <3>3 DEF Sleeping, StepsFirst
    <3>5. w = k + 1
      BY <1>2, <3>4, HandlesDiffer
    <3> QED
      BY <1>3, <3>2, <3>5
  <2> QED
    BY <1>1, <2>1 DEF IInv, Starting, Over
<1>5. r < NumWaiters /\ g = 0 /\ r < w
  BY <1>1, <1>3, <1>4 DEF Gathering
<1>6. w = r + 1
  <2>1. ready[1] = Step(r + 1)
    BY <1>4, <1>5 DEF Gathering, StepsFirst
  <2> QED
    BY <1>2, <2>1, HandlesDiffer
<1>7. Types'
  BY <1>1, <1>2 DEF Types
<1>8. Gathering(r + 1, 0)'
  <2>1. /\ pc'[Main] = "gather"
        /\ \A v \in Waiters : pc'[v] = IF v <= r + 1 THEN "done" ELSE "wait"
    BY <1>1, <1>3, <1>4, <1>5, <1>6 DEF Gathering, Types, Waiters
  <2>2. is_set' /\ woken' = r + 2 .. NumWaiters /\ timers' = {}
        /\ gathered' = 1..0 /\ returned' = -1
    BY <1>1, <1>4, <1>5, <1>6 DEF Gathering
  <2>3. Queued(r + 1, NumWaiters)'
    <3>1. PICK i \in 1..Len(waiters) : waiters[i] = w /\ waiters' = RemoveAt(waiters, i)
      BY <1>1, <1>4 DEF Gathering, Queued
    <3>2. /\ waiters \in Seq(Waiters) /\ Len(waiters) = NumWaiters - r
          /\ \A j \in 1..Len(waiters) : waiters[j] = r + j
      BY <1>4 DEF Gathering, Queued
    <3>3. i = 1
      BY <1>6, <3>1, <3>2
    <3>4. SubSeq(waiters, 1, 0) = <<>>
      BY <3>2
    <3>5. /\ SubSeq(waiters, 2, Len(waiters)) \in Seq(Waiters)
          /\ Len(SubSeq(waiters, 2, Len(waiters))) = Len(waiters) - 1
          /\ \A j \in 1..Len(waiters) - 1 :
               SubSeq(waiters, 2, Len(waiters))[j] = waiters[j + 1]
      BY <3>2, <1>5
    <3>6. waiters' = SubSeq(waiters, 2, Len(waiters))
      BY <3>1, <3>3, <3>4, <3>5 DEF RemoveAt
    <3> QED
      BY <3>2, <3>5, <3>6 DEF Queued
  <2>4. Passed(r + 1)'
    BY <1>1, <1>4, <1>6 DEF Gathering, Passed
  <2>5. Len(ready') = NumWaiters
    BY <1>2, <1>4, <1>5 DEF Gathering
  <2>6. StepsFirst(NumWaiters - (r + 1), r + 1)'
    <3>1. SUFFICES ASSUME NEW i \in 1..NumWaiters - (r + 1)
                   PROVE  ready'[i] = Step(r + 1 + i)
      BY DEF StepsFirst
    <3>2. i \in 1..NumWaiters - 1 /\ i + 1 \in 1..NumWaiters - r /\ r + (i + 1) = r + 1 + i
      OBVIOUS
    <3> QED
      BY <1>2, <1>4, <1>5, <3>2, SMTT(40) DEF Gathering, StepsFirst
  <2>7. ASSUME NEW i \in 1..r + 1
        PROVE  ready'[NumWaiters - (r + 1) + i] = DoneCb(i)
    <3>1. CASE i = r + 1
      BY <1>2, <1>6, <2>5, <3>1
    <3>2. CASE i <= r
      <4>1. /\ NumWaiters - (r + 1) + i \in 1..NumWaiters - 1
            /\ NumWaiters - (r + 1) + i + 1 = NumWaiters - r + i
            /\ i \in 1..r - 0
        BY <1>5, <3>2
      <4>2. ready[NumWaiters - r + i] = DoneCb(i)
        BY <1>4, <1>5, <4>1 DEF Gathering
      <4> QED
        BY <1>2, <2>5, <4>1, <4>2
    <3> QED
      BY <3>1, <3>2
  <2> QED
    BY <1>5, <2>1, <2>2, <2>3, <2>4, <2>5, <2>6, <2>7 DEF Gathering
<1> QED
  BY <1>5, <1>7, <1>8 DEF IInv

(* Once the caller gathers, the handle that runs tells how far it is. *)
LEMMA GatheringHead ==
  ASSUME NEW r \in 0..NumWaiters, NEW g \in 0..NumWaiters, Gathering(r, g)
  PROVE  /\ r < NumWaiters => ready[1] = Step(r + 1) /\ g < NumWaiters
         /\ r = NumWaiters /\ g < NumWaiters => ready[1] = DoneCb(g + 1)
         /\ g = NumWaiters => ready[1] = Step(Main)
<1>1. CASE r < NumWaiters
  BY <1>1 DEF Gathering, StepsFirst
<1>2. CASE r = NumWaiters /\ g < NumWaiters
  <2>1. 1 \in 1..r - g /\ NumWaiters - r + 1 = 1
    BY <1>2
  <2> QED
    BY <1>2, <2>1 DEF Gathering
<1>3. CASE g = NumWaiters
  BY <1>3 DEF Gathering
<1> QED
  BY <1>1, <1>2, <1>3

(* gather() hears of the next child, and of the last one resumes the caller. *)
LEMMA GatherChildIInv ==
  ASSUME IInv, NEW w \in Waiters, GatherChild(w)
  PROVE  IInv'
<1>1. /\ Types
      /\ gathered' = gathered \union {w}
      /\ RunHandle(DoneCb(w), IF gathered' = Waiters THEN <<Step(Main)>> ELSE <<>>)
      /\ UNCHANGED <<timers, pc, is_set, waiters, woken, results, returned>>
  BY DEF IInv, GatherChild
<1>2. /\ Len(ready) \in Nat \ {0} /\ ready[1] = DoneCb(w)
      /\ ready' \in Seq(Handles) /\ todo' \in 0..Len(ready')
      /\ gathered' = Waiters => Len(ready') = Len(ready) /\ ready'[Len(ready)] = Step(Main)
      /\ gathered' # Waiters => Len(ready') = Len(ready) - 1
      /\ \A i \in 1..Len(ready) - 1 : ready'[i] = ready[i + 1]
  <2>1. CASE gathered' = Waiters
    <3>1. Step(Main) \in Handles /\ RunHandle(DoneCb(w), <<Step(Main)>>)
      BY <1>1, <2>1, HandleFacts
    <3> QED
      BY <1>1, <2>1, <3>1, RunsForOne
  <2>2. CASE gathered' # Waiters
    <3>1. RunHandle(DoneCb(w), <<>>)
      BY <1>1, <2>2
    <3> QED
      BY <1>1, <2>2, <3>1, RunsAlone
  <2> QED
    BY <2>1, <2>2
<1>3. \A t : DoneCb(w) # Step(t) /\ DoneCb(w) # Fire(t)
  BY HandlesDiffer
<1>4. PICK r \in 0..NumWaiters, g \in 0..NumWaiters : Gathering(r, g)
  <2>1. ~Starting /\ ~Over
    BY <1>2, <1>3 DEF Starting, Over
  <2>2. \A k \in 0..NumWaiters : ~Sleeping(k)
    <3>1. SUFFICES ASSUME NEW k \in 0..NumWaiters, Sleeping(k) PROVE FALSE
      OBVIOUS
    <3>2. CASE k < NumWaiters
      <4>1. ready[1] = Step(k + 1)
        BY <3>1, <3>2 DEF Sleeping, StepsFirst
      <4> QED
        BY <1>2, <1>3, <4>1
    <3>3. CASE k = NumWaiters
      BY <1>2, <1>3, <3>1, <3>3 DEF Sleeping
    <3> QED
      BY <3>2, <3>3
  <2> QED
    BY <2>1, <2>2 DEF IInv
<1>5. r = NumWaiters /\ g < NumWaiters /\ w = g + 1
  <2>1. r = NumWaiters /\ g < NumWaiters
    BY <1>2, <1>3, <1>4, GatheringHead
  <2>2. DoneCb(w) = DoneCb(g + 1)
    BY <1>2, <1>4, <2>1, GatheringHead
  <2> QED
    BY <2>1, <2>2, HandlesDiffer
<1>6. gathered' = 1..g + 1
  BY <1>1, <1>4, <1>5 DEF Gathering
<1>7. gathered' = Waiters <=> g + 1 = NumWaiters
  BY <1>6, <1>5 DEF Waiters
<1>8. Types'
  BY <1>1, <1>2 DEF Types
<1>9. /\ g + 1 < NumWaiters =>
           /\ Len(ready') = NumWaiters - (g + 1)
           /\ \A i \in 1..NumWaiters - (g + 1) : ready'[i] = DoneCb(g + 1 + i)
      /\ g + 1 = NumWaiters => Len(ready') = 1 /\ ready'[1] = Step(Main)
  <2>1. Len(ready) = NumWaiters - g
    BY <1>4, <1>5 DEF Gathering
  <2>2. ASSUME NEW i \in 1..NumWaiters - (g + 1)
        PROVE  ready'[i] = DoneCb(g + 1 + i)
    <3>1. /\ i + 1 \in 1..NumWaiters - g /\ g + (i + 1) = g + 1 + i
          /\ NumWaiters - NumWaiters + (i + 1) = i + 1
          /\ i \in 1..Len(ready) - 1
      BY <2>1
    <3>2. ready[i + 1] = DoneCb(g + 1 + i)
      BY <1>4, <1>5, <3>1 DEF Gathering
    <3> QED
      BY <1>2, <3>1, <3>2
  <2>3. g + 1 < NumWaiters => Len(ready') = NumWaiters - (g + 1)
    BY <1>2, <1>7, <2>1
  <2>4. ASSUME g + 1 = NumWaiters
        PROVE  Len(ready') = 1 /\ ready'[1] = Step(Main)
    <3>1. Len(ready) = 1
      BY <2>1, <2>4
    <3>2. Len(ready') = Len(ready) /\ ready'[Len(ready)] = Step(Main)
      BY <1>2, <1>7, <2>4
    <3> QED
      BY <3>1, <3>2
  <2> QED
    BY <2>2, <2>3, <2>4
<1>10. Gathering(NumWaiters, g + 1)'
  <2>1. g + 1 < NumWaiters \/ g + 1 = NumWaiters
    BY <1>5
  <2>2. StepsFirst(NumWaiters - NumWaiters, NumWaiters)'
    BY DEF StepsFirst
  <2>3. \A i \in 1..NumWaiters - (g + 1) : NumWaiters - NumWaiters + i = i
    OBVIOUS
  <2> QED
    BY <1>1, <1>4, <1>5, <1>6, <1>9, <2>1, <2>2, <2>3
       DEF Gathering, Queued, Passed
<1> QED
  BY <1>5, <1>8, <1>10 DEF IInv

(* The caller returns the length of a list of all waiters. *)
LEMMA MainReturnIInv ==
  ASSUME IInv, MainReturn
  PROVE  IInv'
<1>1. /\ Types /\ pc[Main] = "gather" /\ RunHandle(Step(Main), <<>>)
      /\ pc' = [pc EXCEPT ![Main] = "done"]
      /\ returned' = Len(results)
      /\ UNCHANGED <<timers, is_set, waiters, woken, results, gathered>>
  BY DEF IInv, MainReturn
<1>2. /\ Len(ready) \in Nat \ {0} /\ ready[1] = Step(Main)
      /\ ready' \in Seq(Handles) /\ todo' \in 0..Len(ready')
      /\ Len(ready') = Len(ready) - 1
  BY <1>1, RunsAlone
<1>3. PICK r \in 0..NumWaiters, g \in 0..NumWaiters : Gathering(r, g)
  BY <1>1 DEF IInv, Starting, Sleeping, Over
<1>4. r = NumWaiters /\ g = NumWaiters
  <2>1. \A i \in 1..NumWaiters : Step(Main) # Step(i) /\ Step(Main) # DoneCb(i)
    BY HandlesDiffer DEF Main
  <2>2. r + 1 \in 1..NumWaiters \/ r = NumWaiters
    OBVIOUS
  <2>3. g + 1 \in 1..NumWaiters \/ g = NumWaiters
    OBVIOUS
  <2>4. r = NumWaiters
    BY <1>2, <1>3, <2>1, <2>2, GatheringHead
  <2> QED
    BY <1>2, <1>3, <2>1, <2>3, <2>4, GatheringHead
<1>5. ready' = <<>>
  <2>1. Len(ready) = 1
    BY <1>3, <1>4 DEF Gathering
  <2>2. Len(ready') = 0
    BY <1>2, <2>1
  <2> QED
    BY <1>2, <2>2
<1>6. Types'
  BY <1>1, <1>2 DEF Types
<1>7. Over'
  <2>1. pc'[Main] = "done" /\ \A w \in Waiters : pc'[w] = "done"
    BY <1>1, <1>3, <1>4, HandleFacts DEF Types, Gathering, Waiters
  <2>2. woken = {} /\ gathered = Waiters
    BY <1>3, <1>4 DEF Gathering, Waiters
  <2> QED
    BY <1>1, <1>3, <1>4, <1>5, <2>1, <2>2
       DEF Gathering, Over, Queued, Passed
<1> QED
  BY <1>6, <1>7 DEF IInv

(* A poll appends the caller's timer when it is due, and nothing otherwise. *)
LEMMA LoopIInv ==
  ASSUME IInv, Loop
  PROVE  IInv'
<1>1. Types /\ UNCHANGED programVars /\ (StartIteration \/ Tick)
  BY DEF IInv, Loop
<1>2. Len(ready) \in Nat
  BY <1>1 DEF Types
<1>3. CASE timers = {}
  <2>1. Due = {} /\ ~Tick
    BY <1>3 DEF Due, Tick
  <2>2. ready' = ready /\ timers' = timers /\ todo' = Len(ready)
    BY <1>1, <2>1, PollNothing DEF Types
  <2>3. Types'
    BY <1>1, <1>2, <2>2 DEF Types, programVars
  <2>4. UNCHANGED <<ready, timers, pc, is_set, waiters, woken, results, gathered, returned>>
    BY <1>1, <2>2 DEF programVars
  <2>5. Starting => Starting'
    BY <2>4 DEF Starting, Untouched, Passed, Queued
  <2>6. \A k : Sleeping(k) => Sleeping(k)'
    BY <2>4 DEF Sleeping, Untouched, Passed, Queued, StepsFirst
  <2>7. \A r, g : Gathering(r, g) => Gathering(r, g)'
    BY <2>4 DEF Gathering, Passed, Queued, StepsFirst
  <2>8. Over => Over'
    BY <2>4 DEF Over, Passed, Queued
  <2> QED
    BY <2>3, <2>5, <2>6, <2>7, <2>8 DEF IInv
<1>4. CASE timers # {}
  <2>1. PICK k \in 0..NumWaiters : Sleeping(k)
    BY <1>4 DEF IInv, Starting, Gathering, Over
  <2>2. PICK d \in Int : /\ timers = {Timer(d, Fire(Main))}
                         /\ Len(ready) = NumWaiters - k
    BY <1>4, <2>1 DEF Sleeping
  <2>3. UNCHANGED <<pc, is_set, waiters, woken, results, gathered, returned>>
    BY <1>1 DEF programVars
  <2>4. CASE Tick
    <3>1. UNCHANGED <<ready, todo>> /\ timers' = {Timer(d - 1, Fire(Main))}
      BY <2>2, <2>4 DEF Tick, Timer
    <3>2. Types' /\ Sleeping(k)'
      BY <1>1, <2>1, <2>2, <2>3, <3>1
         DEF Types, Sleeping, Untouched, Passed, Queued, StepsFirst
    <3> QED
      BY <3>2 DEF IInv
  <2>5. CASE StartIteration /\ Due = {}
    <3>1. ready' = ready /\ timers' = timers /\ todo' = Len(ready)
      BY <1>1, <2>5, PollNothing DEF Types
    <3>2. Types' /\ Sleeping(k)'
      BY <1>1, <1>2, <2>1, <2>3, <3>1
         DEF Types, Sleeping, Untouched, Passed, Queued, StepsFirst
    <3> QED
      BY <3>2 DEF IInv
  <2>6. CASE StartIteration /\ Due # {}
    <3>1. Due = {Timer(d, Fire(Main))}
      BY <2>2, <2>6 DEF Due
    <3>2. Fire(Main) \in Handles /\ ready \in Seq(Handles)
      BY <1>1, HandleFacts DEF Types
    <3>3. /\ ready' \in Seq(Handles) /\ Len(ready') = Len(ready) + 1
          /\ \A i \in 1..Len(ready) : ready'[i] = ready[i]
          /\ ready'[Len(ready')] = Fire(Main)
          /\ timers' = timers \ Due
          /\ todo' = Len(ready')
      BY <2>6, <3>1, <3>2, PollOne
    <3>4. timers' = {}
      BY <2>2, <3>1, <3>3
    <3>5. Types'
      BY <1>1, <1>2, <2>3, <3>3 DEF Types
    <3>6. Sleeping(k)'
      BY <2>1, <2>2, <2>3, <3>3, <3>4
         DEF Sleeping, Untouched, Passed, Queued, StepsFirst
    <3> QED
      BY <3>5, <3>6 DEF IInv
  <2> QED
    BY <1>1, <2>4, <2>5, <2>6
<1> QED
  BY <1>3, <1>4

(* The invariant is inductive. *)
LEMMA NextIInv == IInv /\ [Next]_vars => IInv'
<1> SUFFICES ASSUME IInv, [Next]_vars PROVE IInv'
  OBVIOUS
<1>1. CASE UNCHANGED vars
  <2>1. UNCHANGED <<ready, todo, timers, pc, is_set, waiters, woken, results, gathered, returned>>
    BY <1>1 DEF vars, loopVars, programVars
  <2>2. Types' /\ (Starting => Starting') /\ (Over => Over')
    BY <2>1 DEF IInv, Types, Starting, Over, Untouched, Passed, Queued
  <2>3. \A k : Sleeping(k) => Sleeping(k)'
    BY <2>1 DEF Sleeping, Untouched, Passed, Queued, StepsFirst
  <2>4. \A r, g : Gathering(r, g) => Gathering(r, g)'
    BY <2>1 DEF Gathering, Passed, Queued, StepsFirst
  <2> QED
    BY <2>2, <2>3, <2>4 DEF IInv
<1> QED
  BY <1>1, LoopIInv, MainStartIInv, WaitIInv, ContinueIInv, GatherChildIInv,
     SleepOverIInv, MainSetsIInv, MainReturnIInv
     DEF Next, Finished
-----------------------------------------------------------------------------
(***************************************************************************)
(* The variables have their types; in particular the snapshot of an        *)
(* iteration never exceeds the queue.                                      *)
(***************************************************************************)
THEOREM TypeCorrect == Spec => []TypeOK
<1>1. IInv => TypeOK
  <2>1. SUFFICES ASSUME IInv PROVE TypeOK
    OBVIOUS
  <2>2. /\ todo \in 0..Len(ready) /\ is_set \in BOOLEAN
        /\ pc \in [{Main} \union Waiters ->
                     {"start", "sleep", "gather", "wait", "done"}]
    BY <2>1 DEF IInv, Types
  <2>3. /\ waiters \in Seq(Waiters) /\ results \in Seq(Waiters)
        /\ woken \subseteq Waiters /\ gathered \subseteq Waiters
        /\ returned \in -1..NumWaiters
    <3>1. /\ \E a, b : Queued(a, b)
          /\ \E r : Passed(r)
      BY <2>1 DEF IInv, Starting, Sleeping, Gathering, Over, Untouched
    <3>2. waiters \in Seq(Waiters) /\ results \in Seq(Waiters)
      BY <3>1 DEF Queued, Passed
    <3>3. CASE Untouched
      BY <3>2, <3>3 DEF Untouched
    <3>4. CASE \E r \in 0..NumWaiters, g \in 0..NumWaiters : Gathering(r, g)
      BY <3>2, <3>4 DEF Gathering, Waiters
    <3>5. CASE Over
      BY <3>2, <3>5 DEF Over
    <3> QED
      BY <2>1, <3>3, <3>4, <3>5 DEF IInv, Starting, Sleeping
  <2> QED
    BY <2>2, <2>3 DEF TypeOK
<1> QED
  BY <1>1, InitIInv, NextIInv, PTL DEF Spec

(***************************************************************************)
(* set() leaves nobody asleep and nobody came too late for it, however     *)
(* many wait and however late the loop is.                                 *)
(***************************************************************************)
THEOREM AllReleased == Spec => []SetReleasesAll
<1>1. IInv => SetReleasesAll
  <2>1. SUFFICES ASSUME IInv, is_set, NEW w \in Waiters, pc[w] # "done"
                 PROVE  w \in woken /\ IsReady(Step(w))
    BY DEF SetReleasesAll
  <2>2. PICK r \in 0..NumWaiters, g \in 0..NumWaiters : Gathering(r, g)
    BY <2>1 DEF IInv, Starting, Sleeping, Over, Untouched
  <2>3. w \in 1..NumWaiters /\ r < w /\ g = 0
    BY <2>1, <2>2 DEF Gathering, Waiters
  <2>4. w \in woken
    BY <2>2, <2>3 DEF Gathering
  <2>5. /\ w - r \in 1..NumWaiters - r /\ w - r \in 1..NumWaiters /\ r + (w - r) = w
    BY <2>3
  <2>6. Len(ready) = NumWaiters /\ ready[w - r] = Step(w)
    BY <2>2, <2>3, <2>5 DEF Gathering, StepsFirst
  <2> QED
    BY <2>4, <2>5, <2>6 DEF IsReady
<1> QED
  BY <1>1, InitIInv, NextIInv, PTL DEF Spec

(***************************************************************************)
(* Nobody passes the event before it is set, and the waiters pass it in    *)
(* the order in which they queued.                                         *)
(***************************************************************************)
THEOREM PassedInOrder == Spec => []ReleasedInOrder
<1>1. IInv => ReleasedInOrder
  <2>1. SUFFICES ASSUME IInv PROVE ReleasedInOrder
    OBVIOUS
  <2>2. \E r \in Nat : Passed(r) /\ (is_set \/ r = 0)
    BY <2>1 DEF IInv, Starting, Sleeping, Gathering, Over, Untouched
  <2> QED
    BY <2>2 DEF Passed, ReleasedInOrder
<1> QED
  BY <1>1, InitIInv, NextIInv, PTL DEF Spec
=============================================================================
