------------------------ MODULE ProducerConsumerProofs ------------------------
(***************************************************************************)
(* Benchmark b6 for any number of producers, consumers and items, any size *)
(* of the queue and any order of creation: no wake-up is lost, every item  *)
(* is passed on exactly once and in order, and nobody waits for ever.      *)
(***************************************************************************)
EXTENDS ProducerConsumer, EventLoopProofs

Handles == {Step(t) : t \in {Main} \union Tasks} \union {DoneCb(t) : t \in Tasks}

Total(t) == IF t \in Producers THEN ItemsEach ELSE Target

Types ==
  /\ ready \in Seq(Handles)
  /\ todo \in 0..Len(ready)
  /\ timers = {}
  /\ running \in Tasks \union {Nobody}
  /\ pc \in [{Main} \union Tasks -> {"start", "gather", "loop", "done"}]
  /\ progress \in [Tasks -> Nat]
  /\ queue \in Seq(Items)
  /\ getters \in Seq(Consumers)
  /\ putters \in Seq(Producers)
  /\ state \in Seq(Items)
  /\ gathered \subseteq Tasks

\* A task is done when it has made all its rounds, and not before.
Rounds ==
  \A t \in Tasks :
    /\ pc[t] # "gather"
    /\ progress[t] \in 0..Total(t)
    /\ pc[t] = "start" => progress[t] = 0
    /\ pc[t] = "done" <=> progress[t] = Total(t)

Room == Len(queue) <= maxsize /\ unfinished = Len(queue)

\* A task that is not done is in one place: about to run, running, or in one
\* of the queue's two lists of waiters.
OnePlace ==
  /\ Unique(ready) /\ Unique(getters) /\ Unique(putters)
  /\ \A t \in Tasks :
       /\ InSeq(Step(t), ready) =>
            /\ pc[t] # "done"
            /\ running # t /\ ~InSeq(t, getters) /\ ~InSeq(t, putters)
       /\ running = t => ~InSeq(t, getters) /\ ~InSeq(t, putters)
       /\ running = t \/ InSeq(t, getters) \/ InSeq(t, putters) => pc[t] = "loop"
       /\ InSeq(DoneCb(t), ready) => pc[t] = "done" /\ t \notin gathered
       /\ t \in gathered => pc[t] = "done"

\* ... and is not missing there, once the caller has created it.
SomePlace ==
  pc[Main] # "start" =>
    \A t \in Tasks :
      /\ pc[t] # "done" =>
           \/ InSeq(Step(t), ready) \/ running = t
           \/ InSeq(t, getters) \/ InSeq(t, putters)
      /\ pc[t] = "done" => t \in gathered \/ InSeq(DoneCb(t), ready)

\* The caller runs alone first, and then once more after the last child.
MainWaits ==
  /\ pc[Main] \in {"start", "gather", "done"}
  /\ pc[Main] = "start" =>
       /\ running = Nobody /\ getters = <<>> /\ putters = <<>>
       /\ \A t \in Tasks : pc[t] = "start"
       /\ \A x : InSeq(x, ready) <=> x = Step(Main)
  /\ pc[Main] = "gather" => (InSeq(Step(Main), ready) <=> gathered = Tasks)
  /\ pc[Main] = "done" => gathered = Tasks /\ ~InSeq(Step(Main), ready)

IInv ==
  /\ Types /\ Rounds /\ Room /\ OnePlace /\ SomePlace /\ MainWaits
  /\ NoLostWakeup /\ ExactlyOnceInOrder
-----------------------------------------------------------------------------
LEMMA TaskFacts ==
  /\ Producers \subseteq Tasks /\ Consumers \subseteq Tasks
  /\ \A t \in Tasks : t \in Producers \/ t \in Consumers
  /\ \A t \in Producers : t \notin Consumers
  /\ Main \notin Tasks /\ Nobody \notin Tasks /\ Nobody # Main
  /\ \A t \in Producers : Total(t) = ItemsEach
  /\ \A t \in Consumers : Total(t) = Target
  /\ \A t \in Tasks : Total(t) \in Nat \ {0}
BY SizeAssumption DEF Producers, Consumers, Tasks, Main, Nobody, Total

LEMMA HandleFacts ==
  /\ \A t \in {Main} \union Tasks : Step(t) \in Handles
  /\ \A t \in Tasks : DoneCb(t) \in Handles
BY DEF Handles

LEMMA FiniteTasks ==
  IsFiniteSet(Producers) /\ IsFiniteSet(Consumers) /\ IsFiniteSet(Tasks)
<1>1. NumProducers \in Nat /\ NumConsumers \in Nat
  BY SizeAssumption
<1>2. IsFiniteSet(1..NumProducers)
  BY <1>1, FS_Interval
<1>3. IsFiniteSet(NumProducers + 1 .. NumProducers + NumConsumers)
  <2>1. NumProducers + 1 \in Int /\ NumProducers + NumConsumers \in Int
    BY <1>1
  <2> QED
    BY <2>1, FS_Interval
<1> QED
  BY <1>2, <1>3, FS_Union DEF Producers, Consumers, Tasks

(* The first waiter's handle, and the waiters behind it. *)
LEMMA WakeFacts ==
  ASSUME NEW W \in Seq(Tasks), Unique(W)
  PROVE  /\ WakeFirst(W) \in Seq(Handles) /\ Unique(WakeFirst(W))
         /\ \A x : InSeq(x, WakeFirst(W)) <=> W # <<>> /\ x = Step(Head(W))
         /\ Unique(StillWaiting(W))
         /\ \A x : InSeq(x, StillWaiting(W)) <=> InSeq(x, W) /\ x # Head(W)
         /\ W # <<>> => InSeq(Head(W), W) /\ Head(W) \in Tasks
<1>1. CASE W = <<>>
  <2>1. WakeFirst(W) = <<>> /\ StillWaiting(W) = <<>> /\ <<>> \in Seq(Handles)
    BY <1>1 DEF WakeFirst, StillWaiting
  <2> QED
    BY <1>1, <2>1, QueueShort, ZenonT(40)
<1>2. CASE W # <<>>
  <2>1. /\ WakeFirst(W) = <<Step(Head(W))>> /\ StillWaiting(W) = Tail(W)
    BY <1>2 DEF WakeFirst, StillWaiting
  <2>2. /\ Unique(Tail(W))
        /\ \A x : InSeq(x, Tail(W)) <=> InSeq(x, W) /\ x # Head(W)
        /\ InSeq(Head(W), W)
        /\ Head(W) \in Tasks
    BY <1>2, QueueTail
  <2>3. Step(Head(W)) \in Handles
    BY <2>2, HandleFacts
  <2>4. <<Step(Head(W))>> \in Seq(Handles)
    BY <2>3
  <2> QED
    BY <1>2, <2>1, <2>2, <2>4, QueueShort
<1> QED
  BY <1>1, <1>2

(* The ready queue after the running task has scheduled something. *)
LEMMA ScheduleFacts ==
  ASSUME Types, Unique(ready), NEW new \in Seq(Handles), Unique(new),
         \A x : InSeq(x, new) => ~InSeq(x, ready),
         Schedule(new)
  PROVE  /\ ready' \in Seq(Handles)
         /\ todo' \in 0..Len(ready')
         /\ timers' = {}
         /\ Unique(ready')
         /\ \A x : InSeq(x, ready') <=> InSeq(x, ready) \/ InSeq(x, new)
<1>1. ready' = ready \o new /\ todo' = todo /\ timers' = {} /\ ready \in Seq(Handles)
  BY DEF Schedule, Types
<1> HIDE DEF Unique, InSeq
<1>2. /\ ready \o new \in Seq(Handles)
      /\ Len(ready \o new) = Len(ready) + Len(new)
      /\ Unique(ready \o new)
      /\ \A x : InSeq(x, ready \o new) <=> InSeq(x, ready) \/ InSeq(x, new)
  BY <1>1, QueueAppend
<1>3. Len(ready) \in Nat /\ Len(new) \in Nat /\ todo \in 0..Len(ready)
  BY DEF Types
<1>4. todo' \in 0..Len(ready')
  BY <1>1, <1>2, <1>3
<1> QED
  BY <1>1, <1>2, <1>4

(* A round of the running task t wakes the first of the waiters W, if any, *)
(* and after the last round schedules the callbacks of t.                  *)
LEMMA AdvanceFacts ==
  ASSUME Types, OnePlace, NEW t \in Tasks, running = t,
         NEW W \in Seq(Tasks), W = getters \/ W = putters,
         NEW total, Advance(t, total, WakeFirst(W))
  PROVE  /\ ready' \in Seq(Handles)
         /\ todo' \in 0..Len(ready')
         /\ timers' = {}
         /\ Unique(ready')
         /\ \A x : InSeq(x, ready') <=>
                     \/ InSeq(x, ready)
                     \/ W # <<>> /\ x = Step(Head(W))
                     \/ progress[t] + 1 = total /\ x = DoneCb(t)
         /\ progress' = [progress EXCEPT ![t] = @ + 1]
         /\ progress[t] + 1 = total => running' = Nobody /\ pc' = [pc EXCEPT ![t] = "done"]
         /\ progress[t] + 1 # total => running' = running /\ pc' = pc
<1> DEFINE woken == WakeFirst(W)
<1>1. /\ woken \in Seq(Handles) /\ Unique(woken)
      /\ \A x : InSeq(x, woken) <=> W # <<>> /\ x = Step(Head(W))
      /\ W # <<>> => InSeq(Head(W), W) /\ Head(W) \in Tasks
  <2>1. Unique(W)
    BY DEF OnePlace
  <2> QED
    BY <2>1, WakeFacts
<1>2. \A x : InSeq(x, woken) => ~InSeq(x, ready)
  BY <1>1 DEF OnePlace
<1>3. /\ Unique(ready) /\ pc[t] = "loop" /\ ~InSeq(DoneCb(t), ready)
      /\ ~InSeq(DoneCb(t), woken) /\ DoneCb(t) \in Handles
  <2>1. \A u : DoneCb(t) # Step(u)
    BY HandlesDiffer
  <2> QED
    BY <1>1, <2>1, HandleFacts DEF OnePlace
<1>4. Advance(t, total, woken)
  OBVIOUS
<1> HIDE DEF woken, Unique, InSeq
<1>5. CASE progress[t] + 1 = total
  <2> DEFINE cb == <<DoneCb(t)>>
  <2>1. cb \in Seq(Handles) /\ Unique(cb) /\ \A x : InSeq(x, cb) <=> x = DoneCb(t)
    BY <1>3, QueueShort
  <2>2. /\ progress' = [progress EXCEPT ![t] = @ + 1]
        /\ running' = Nobody /\ pc' = [pc EXCEPT ![t] = "done"]
        /\ Schedule(woken \o cb)
    BY <1>4, <1>5 DEF Advance
  <2> HIDE DEF cb
  <2>3. /\ woken \o cb \in Seq(Handles) /\ Unique(woken \o cb)
        /\ \A x : InSeq(x, woken \o cb) <=> InSeq(x, woken) \/ InSeq(x, cb)
    BY <1>1, <1>3, <2>1, QueueAppend
  <2>4. \A x : InSeq(x, woken \o cb) => ~InSeq(x, ready)
    BY <1>2, <1>3, <2>1, <2>3
  <2> DEFINE new == woken \o cb
  <2> HIDE DEF new
  <2>5. /\ ready' \in Seq(Handles)
        /\ todo' \in 0..Len(ready')
        /\ timers' = {}
        /\ Unique(ready')
        /\ \A x : InSeq(x, ready') <=> InSeq(x, ready) \/ InSeq(x, new)
    BY <1>3, <2>2, <2>3, <2>4, ScheduleFacts DEF new
  <2> QED
    BY <1>1, <1>5, <2>1, <2>2, <2>3, <2>5 DEF new
<1>6. CASE progress[t] + 1 # total
  <2>1. /\ progress' = [progress EXCEPT ![t] = @ + 1]
        /\ running' = running /\ pc' = pc
        /\ Schedule(woken)
    BY <1>4, <1>6 DEF Advance
  <2>2. /\ ready' \in Seq(Handles)
        /\ todo' \in 0..Len(ready')
        /\ timers' = {}
        /\ Unique(ready')
        /\ \A x : InSeq(x, ready') <=> InSeq(x, ready) \/ InSeq(x, woken)
    BY <1>1, <1>2, <1>3, <2>1, ScheduleFacts
  <2> QED
    BY <1>1, <1>6, <2>1, <2>2
<1> QED
  BY <1>5, <1>6

(* Nobody waits in both lists. *)
LEMMA WaitersAre ==
  ASSUME Types
  PROVE  /\ \A t : InSeq(t, getters) => t \in Consumers
         /\ \A t : InSeq(t, putters) => t \in Producers
         /\ getters \in Seq(Tasks) /\ putters \in Seq(Tasks)
<1>1. getters \in Seq(Consumers) /\ putters \in Seq(Producers)
  BY DEF Types
<1>2. getters \in Seq(Tasks) /\ putters \in Seq(Tasks)
  BY <1>1, TaskFacts
<1> QED
  BY <1>1, <1>2 DEF InSeq

(* The tasks of S that are awake, and what a step of the program does to   *)
(* them.                                                                   *)
Awake(S) == {t \in S : running = t \/ IsReady(Step(t))}

LEMMA AwakeFinite ==
  ASSUME NEW S \in {Producers, Consumers}
  PROVE  IsFiniteSet(Awake(S)) /\ Moving(S) = Cardinality(Awake(S)) /\ Moving(S) \in Nat
<1>1. IsFiniteSet(S) /\ Awake(S) \in SUBSET S
  BY FiniteTasks DEF Awake
<1>2. IsFiniteSet(Awake(S)) /\ Moving(S) = Cardinality(Awake(S))
  BY <1>1, FS_Subset DEF Awake, Moving
<1> QED
  BY <1>2, FS_CardinalityType

LEMMA AwakeMore ==
  ASSUME NEW S \in {Producers, Consumers}, NEW t, t \notin Awake(S),
         Awake(S)' = Awake(S) \union {t}
  PROVE  Moving(S)' = Moving(S) + 1
<1>1. Moving(S)' = Cardinality(Awake(S)')
  BY DEF Moving, Awake
<1>2. IsFiniteSet(Awake(S)) /\ Moving(S) = Cardinality(Awake(S))
  BY AwakeFinite
<1>3. Cardinality(Awake(S) \union {t}) = Cardinality(Awake(S)) + 1
  BY <1>2, FS_AddElement
<1> QED
  BY <1>1, <1>2, <1>3

LEMMA AwakeLess ==
  ASSUME NEW S \in {Producers, Consumers}, NEW t, t \in Awake(S),
         Awake(S)' = Awake(S) \ {t}
  PROVE  Moving(S)' = Moving(S) - 1
<1>1. Moving(S)' = Cardinality(Awake(S)')
  BY DEF Moving, Awake
<1> QED
  BY <1>1, AwakeFinite, FS_RemoveElement

LEMMA AwakeSame ==
  ASSUME NEW S \in {Producers, Consumers}, Awake(S)' = Awake(S)
  PROVE  Moving(S)' = Moving(S)
BY DEF Moving, Awake

(* A round of the running task t takes the first waiter of W, if any, to   *)
(* the ready queue, and t to its end after the last round.                 *)
LEMMA RoundKeeps ==
  ASSUME IInv, NEW t \in Tasks, running = t, NEW W \in Seq(Tasks),
         Advance(t, Total(t), WakeFirst(W)),
         \/ W = getters /\ getters' = StillWaiting(getters) /\ putters' = putters
         \/ W = putters /\ putters' = StillWaiting(putters) /\ getters' = getters,
         gathered' = gathered
  PROVE  /\ ready' \in Seq(Handles) /\ todo' \in 0..Len(ready') /\ timers' = {}
         /\ running' \in Tasks \union {Nobody}
         /\ pc' \in [{Main} \union Tasks -> {"start", "gather", "loop", "done"}]
         /\ progress' \in [Tasks -> Nat]
         /\ progress[t] < Total(t) /\ progress' = [progress EXCEPT ![t] = @ + 1]
         /\ Rounds' /\ OnePlace' /\ SomePlace' /\ MainWaits'
         /\ \A S \in {Producers, Consumers} :
              /\ t \notin S =>
                   IF W # <<>> /\ Head(W) \in S THEN Moving(S)' = Moving(S) + 1
                                                ELSE Moving(S)' = Moving(S)
              /\ t \in S /\ (W = <<>> \/ Head(W) \notin S) => Moving(S)' >= Moving(S) - 1
<1>1. Types /\ Rounds /\ OnePlace /\ SomePlace /\ MainWaits
  BY DEF IInv
<1>2. /\ W \in Seq(Tasks) /\ (W = getters \/ W = putters) /\ Unique(W)
      /\ \A u : InSeq(u, getters) => u \in Consumers
      /\ \A u : InSeq(u, putters) => u \in Producers
  BY <1>1, WaitersAre DEF OnePlace
<1> DEFINE last == progress[t] + 1 = Total(t)
           wakes == W # <<>>
           h == Head(W)
<1> HIDE DEF last, wakes, h
<1>3. /\ ready' \in Seq(Handles) /\ todo' \in 0..Len(ready') /\ timers' = {}
      /\ Unique(ready')
      /\ \A x : InSeq(x, ready') <=>
                  InSeq(x, ready) \/ (wakes /\ x = Step(h)) \/ (last /\ x = DoneCb(t))
      /\ progress' = [progress EXCEPT ![t] = @ + 1]
      /\ last => running' = Nobody /\ pc' = [pc EXCEPT ![t] = "done"]
      /\ ~last => running' = running /\ pc' = pc
  <2> HIDE DEF Unique, InSeq
  <2>1. /\ ready' \in Seq(Handles)
        /\ todo' \in 0..Len(ready')
        /\ timers' = {}
        /\ Unique(ready')
        /\ \A x : InSeq(x, ready') <=>
                    \/ InSeq(x, ready)
                    \/ W # <<>> /\ x = Step(Head(W))
                    \/ progress[t] + 1 = Total(t) /\ x = DoneCb(t)
        /\ progress' = [progress EXCEPT ![t] = @ + 1]
        /\ progress[t] + 1 = Total(t) => running' = Nobody /\ pc' = [pc EXCEPT ![t] = "done"]
        /\ progress[t] + 1 # Total(t) => running' = running /\ pc' = pc
    BY <1>1, <1>2, AdvanceFacts
  <2> QED
    BY <2>1 DEF last, wakes, h
<1>4. /\ Unique(StillWaiting(W))
      /\ \A x : InSeq(x, StillWaiting(W)) <=> InSeq(x, W) /\ x # h
      /\ wakes => InSeq(h, W) /\ h \in Tasks
  <2>1. /\ Unique(StillWaiting(W))
        /\ \A x : InSeq(x, StillWaiting(W)) <=> InSeq(x, W) /\ x # Head(W)
        /\ W # <<>> => InSeq(Head(W), W) /\ Head(W) \in Tasks
    <3>1. W \in Seq(Tasks) /\ Unique(W)
      BY <1>2
    <3> QED
      BY ONLY <3>1, WakeFacts
  <2> QED
    BY <2>1 DEF wakes, h
<1>5. /\ \A u, v : Step(u) = Step(v) => u = v
      /\ \A u, v : DoneCb(u) = DoneCb(v) => u = v
      /\ \A u, v : Step(u) # DoneCb(v)
  BY HandlesDiffer
<1>6. /\ Unique(getters') /\ Unique(putters')
      /\ \A u : InSeq(u, getters') => InSeq(u, getters)
      /\ \A u : InSeq(u, putters') => InSeq(u, putters)
      /\ wakes => ~InSeq(h, getters') /\ ~InSeq(h, putters')
      /\ \A u : InSeq(u, getters) => InSeq(u, getters') \/ (wakes /\ u = h)
      /\ \A u : InSeq(u, putters) => InSeq(u, putters') \/ (wakes /\ u = h)
  <2>1. Unique(getters) /\ Unique(putters)
    BY <1>1 DEF OnePlace
  <2>2. \A u : u \in Producers => u \notin Consumers
    BY TaskFacts
  <2>3. ~wakes => \A u : ~InSeq(u, W)
    BY QueueShort DEF wakes
  <2> HIDE DEF Unique, InSeq
  <2>4. CASE W = getters /\ getters' = StillWaiting(getters) /\ putters' = putters
    <3>1. /\ Unique(getters') /\ putters' = putters /\ W = getters
          /\ \A x : InSeq(x, getters') <=> InSeq(x, getters) /\ x # h
          /\ wakes => InSeq(h, getters)
          /\ ~wakes => \A u : ~InSeq(u, getters)
      BY <1>4, <2>3, <2>4
    <3>2. wakes => ~InSeq(h, putters)
      BY <1>2, <2>2, <3>1
    <3> QED
      BY <2>1, <3>1, <3>2
  <2>5. CASE W = putters /\ putters' = StillWaiting(putters) /\ getters' = getters
    <3>1. /\ Unique(putters') /\ getters' = getters /\ W = putters
          /\ \A x : InSeq(x, putters') <=> InSeq(x, putters) /\ x # h
          /\ wakes => InSeq(h, putters)
          /\ ~wakes => \A u : ~InSeq(u, putters)
      BY <1>4, <2>3, <2>5
    <3>2. wakes => ~InSeq(h, getters)
      BY <1>2, <2>2, <3>1
    <3> QED
      BY <2>1, <3>1, <3>2
  <2> QED
    BY <2>4, <2>5
<1>7. /\ pc[t] = "loop" /\ t # Main /\ Nobody \notin Tasks /\ Main \notin Tasks
      /\ ~InSeq(Step(t), ready) /\ ~InSeq(DoneCb(t), ready) /\ t \notin gathered
      /\ wakes => h # t /\ pc[h] = "loop" /\ ~InSeq(Step(h), ready)
      /\ pc[Main] # "start"
  BY <1>1, <1>2, <1>4, TaskFacts DEF OnePlace, MainWaits
<1>8. /\ progress[t] \in Nat /\ Total(t) \in Nat /\ progress[t] < Total(t)
      /\ progress'[t] = progress[t] + 1
      /\ \A u \in Tasks : u # t => progress'[u] = progress[u]
      /\ pc'[Main] = pc[Main]
      /\ \A u \in Tasks : u # t => pc'[u] = pc[u]
      /\ pc'[t] = IF last THEN "done" ELSE "loop"
  <2>1. progress \in [Tasks -> Nat] /\ DOMAIN pc = {Main} \union Tasks
    BY <1>1 DEF Types
  <2>2. progress[t] \in Nat /\ Total(t) \in Nat /\ progress[t] < Total(t)
    BY <1>1, <1>7, TaskFacts DEF Rounds
  <2>3. /\ progress'[t] = progress[t] + 1
        /\ \A u \in Tasks : u # t => progress'[u] = progress[u]
    BY <1>3, <2>1
  <2>4. /\ pc'[Main] = pc[Main]
        /\ \A u \in Tasks : u # t => pc'[u] = pc[u]
        /\ pc'[t] = IF last THEN "done" ELSE "loop"
    BY <1>3, <1>7, <2>1
  <2> QED
    BY <2>2, <2>3, <2>4
<1>9. /\ running' \in Tasks \union {Nobody}
      /\ pc' \in [{Main} \union Tasks -> {"start", "gather", "loop", "done"}]
      /\ progress' \in [Tasks -> Nat]
  <2>1. /\ running \in Tasks \union {Nobody} /\ progress \in [Tasks -> Nat]
        /\ pc \in [{Main} \union Tasks -> {"start", "gather", "loop", "done"}]
    BY <1>1 DEF Types
  <2>2. progress' \in [Tasks -> Nat]
    BY <1>3, <2>1
  <2>3. CASE last
    BY <1>3, <2>1, <2>2, <2>3
  <2>4. CASE ~last
    BY <1>3, <2>1, <2>2, <2>4
  <2> QED
    BY <2>3, <2>4
<1>10. Rounds'
  <2>1. SUFFICES ASSUME NEW u \in Tasks
                 PROVE  /\ pc'[u] # "gather"
                        /\ progress'[u] \in 0..Total(u)
                        /\ pc'[u] = "start" => progress'[u] = 0
                        /\ pc'[u] = "done" <=> progress'[u] = Total(u)
    BY DEF Rounds, Total
  <2>2. CASE u # t
    BY <1>1, <1>8, <2>2 DEF Rounds
  <2>3. CASE u = t
    BY <1>8, <2>3 DEF last
  <2> QED
    BY <2>2, <2>3
<1> HIDE DEF Unique, InSeq
<1>11. OnePlace'
  <2>1. SUFFICES ASSUME NEW u \in Tasks
                 PROVE  /\ InSeq(Step(u), ready') =>
                             /\ pc'[u] # "done"
                             /\ running' # u /\ ~InSeq(u, getters') /\ ~InSeq(u, putters')
                        /\ running' = u => ~InSeq(u, getters') /\ ~InSeq(u, putters')
                        /\ running' = u \/ InSeq(u, getters') \/ InSeq(u, putters')
                             => pc'[u] = "loop"
                        /\ InSeq(DoneCb(u), ready') => pc'[u] = "done" /\ u \notin gathered'
                        /\ u \in gathered' => pc'[u] = "done"
    BY <1>3, <1>6 DEF OnePlace, Unique, InSeq
  <2>2. CASE u # t
    BY <1>1, <1>3, <1>5, <1>6, <1>7, <1>8, <2>2 DEF OnePlace
  <2>3. CASE u = t
    BY <1>1, <1>3, <1>5, <1>6, <1>7, <1>8, <2>3 DEF OnePlace
  <2> QED
    BY <2>2, <2>3
<1>12. SomePlace'
  <2>1. SUFFICES ASSUME NEW u \in Tasks
                 PROVE  /\ pc'[u] # "done" =>
                             \/ InSeq(Step(u), ready') \/ running' = u
                             \/ InSeq(u, getters') \/ InSeq(u, putters')
                        /\ pc'[u] = "done" => u \in gathered' \/ InSeq(DoneCb(u), ready')
    BY DEF SomePlace, InSeq
  <2>2. CASE u # t
    BY <1>1, <1>3, <1>6, <1>7, <1>8, <2>2 DEF SomePlace
  <2>3. CASE u = t
    BY <1>1, <1>3, <1>8, <2>3
  <2> QED
    BY <2>2, <2>3
<1>13. MainWaits'
  <2>1. InSeq(Step(Main), ready') <=> InSeq(Step(Main), ready)
    BY <1>3, <1>4, <1>5, <1>7
  <2> QED
    BY <1>1, <1>7, <1>8, <2>1 DEF MainWaits, InSeq
<1>14. \A S \in {Producers, Consumers} :
         /\ t \notin S =>
              IF wakes /\ h \in S THEN Moving(S)' = Moving(S) + 1
                                  ELSE Moving(S)' = Moving(S)
         /\ t \in S /\ (~wakes \/ h \notin S) => Moving(S)' >= Moving(S) - 1
  <2> TAKE S \in {Producers, Consumers}
  <2>1. S \subseteq Tasks
    BY TaskFacts
  <2>2. \A u : u \in Awake(S) <=> u \in S /\ (running = u \/ InSeq(Step(u), ready))
    BY DEF Awake, IsReady, InSeq
  <2>3. \A u : u \in Awake(S)' <=> u \in S /\ (running' = u \/ InSeq(Step(u), ready'))
    BY DEF Awake, IsReady, InSeq
  <2>4. \A u \in Tasks : InSeq(Step(u), ready') <=> InSeq(Step(u), ready) \/ (wakes /\ u = h)
    BY <1>3, <1>5
  <2>5. CASE t \notin S
    <3>1. \A u \in S : running # u /\ running' # u
      BY <1>3, <1>7, <2>1, <2>5
    <3>2. CASE wakes /\ h \in S
      <4>1. h \notin Awake(S)
        BY <1>7, <2>2, <3>1, <3>2
      <4>2. \A u : u \in Awake(S)' <=> u \in Awake(S) \/ u = h
        BY <2>1, <2>2, <2>3, <2>4, <3>1, <3>2
      <4>3. Awake(S)' = Awake(S) \union {h}
        BY <4>2
      <4> QED
        BY <2>5, <3>2, <4>1, <4>3, AwakeMore
    <3>3. CASE ~(wakes /\ h \in S)
      <4>1. \A u \in S : InSeq(Step(u), ready') <=> InSeq(Step(u), ready)
        BY <2>1, <2>4, <3>3
      <4>2. \A u : u \in Awake(S)' <=> u \in Awake(S)
        BY <2>2, <2>3, <3>1, <4>1
      <4>3. Awake(S)' = Awake(S)
        BY <4>2
      <4> QED
        BY <2>5, <3>3, <4>3, AwakeSame
    <3> QED
      BY <3>2, <3>3
  <2>6. CASE t \in S /\ (~wakes \/ h \notin S)
    <3>1. \A u \in S : InSeq(Step(u), ready') <=> InSeq(Step(u), ready)
      BY <2>1, <2>4, <2>6
    <3>2. CASE last
      <4>1. t \in Awake(S)
        BY <2>2, <2>6
      <4>2. Awake(S)' = Awake(S) \ {t}
        <5>1. \A u \in S : running' # u /\ (running = u => u = t)
          BY <1>3, <1>7, <2>1, <3>2
        <5> QED
          BY <1>7, <2>2, <2>3, <3>1, <5>1
      <4>3. Moving(S)' = Moving(S) - 1 /\ Moving(S) \in Nat
        BY <4>1, <4>2, AwakeLess, AwakeFinite
      <4> QED
        BY <2>6, <4>3
    <3>3. CASE ~last
      <4>1. Awake(S)' = Awake(S)
        BY <1>3, <2>2, <2>3, <3>1, <3>3
      <4>2. Moving(S)' = Moving(S) /\ Moving(S) \in Nat
        BY <4>1, AwakeSame, AwakeFinite
      <4> QED
        BY <2>6, <4>2
    <3> QED
      BY <3>2, <3>3
  <2> QED
    BY <2>5, <2>6
<1> QED
  BY <1>3, <1>8, <1>9, <1>10, <1>11, <1>12, <1>13, <1>14 DEF wakes, h

(* What a step keeps that leaves the queue alone and everybody awake who   *)
(* was awake.                                                              *)
LEMMA QueueKeeps ==
  ASSUME IInv, UNCHANGED <<progress, queueVars, state>>,
         \A u \in Tasks : running' = u \/ InSeq(Step(u), ready')
                           <=> running = u \/ InSeq(Step(u), ready)
  PROVE  Room' /\ NoLostWakeup' /\ ExactlyOnceInOrder'
<1>1. UNCHANGED <<progress, queue, getters, putters, unfinished, state>>
  BY DEF queueVars
<1>2. ASSUME NEW S \in {Producers, Consumers} PROVE Moving(S)' = Moving(S)
  <2>1. \A u : u \in Awake(S)' <=> u \in Awake(S)
    BY <1>2, TaskFacts DEF Awake, IsReady, InSeq
  <2>2. Awake(S)' = Awake(S)
    BY <2>1
  <2> QED
    BY <2>2, AwakeSame
<1>3. NoLostWakeup'
  BY <1>1, <1>2 DEF IInv, NoLostWakeup
<1>4. Room' /\ ExactlyOnceInOrder'
  BY <1>1 DEF IInv, Room, ExactlyOnceInOrder
<1> QED
  BY <1>3, <1>4

(* The invariant holds initially. *)
LEMMA InitIInv == Init => IInv
<1> SUFFICES ASSUME Init PROVE IInv
  OBVIOUS
<1>1. /\ ready = <<Step(Main)>> /\ todo = 0 /\ timers = {} /\ running = Nobody
      /\ pc = [t \in {Main} \union Tasks |-> "start"]
      /\ progress = [t \in Tasks |-> 0]
      /\ queue = <<>> /\ getters = <<>> /\ putters = <<>>
      /\ unfinished = 0 /\ state = <<>> /\ gathered = {}
  BY DEF Init, LoopInit
<1>2. Step(Main) \in Handles
  BY HandleFacts
<1>3. Types
  <2>1. ready \in Seq(Handles) /\ Len(ready) = 1
    BY <1>1, <1>2
  <2>2. todo \in 0..Len(ready)
    BY <1>1, <2>1
  <2> QED
    BY <1>1, <2>1, <2>2 DEF Types
<1>4. Rounds
  BY <1>1, TaskFacts DEF Rounds
<1>5. Room /\ NoLostWakeup
  BY <1>1, SizeAssumption DEF Room, NoLostWakeup
<1>6. Unique(ready) /\ Unique(<<>>) /\ (\A x : InSeq(x, ready) <=> x = Step(Main))
      /\ \A x : ~InSeq(x, <<>>)
  BY <1>1, QueueShort
<1>7. \A t \in Tasks : Step(t) # Step(Main) /\ DoneCb(t) # Step(Main)
  BY HandlesDiffer, TaskFacts
<1>8. OnePlace
  BY <1>1, <1>6, <1>7, TaskFacts DEF OnePlace
<1>9. SomePlace /\ MainWaits
  BY <1>1, <1>6 DEF SomePlace, MainWaits
<1>10. ExactlyOnceInOrder
  <2>1. state \o queue = <<>>
    BY <1>1
  <2>2. \A p \in Producers : progress[p] = 0
    BY <1>1, TaskFacts
  <2>3. \A p \in Producers : [i \in 1..0 |-> <<p, i>>] = <<>>
    OBVIOUS
  <2> QED
    BY <2>1, <2>2, <2>3, SelectEmpty DEF ExactlyOnceInOrder
<1> QED
  BY <1>3, <1>4, <1>5, <1>8, <1>9, <1>10 DEF IInv

(* An order of creation names every task once. *)
LEMMA OrderFacts ==
  ASSUME NEW order \in Orders
  PROVE  LET new == [i \in DOMAIN order |-> Step(order[i])]
         IN  /\ new \in Seq(Handles) /\ Unique(new)
             /\ \A x : InSeq(x, new) <=> \E t \in Tasks : x = Step(t)
<1> DEFINE N == Cardinality(Tasks)
           new == [i \in DOMAIN order |-> Step(order[i])]
<1>1. N \in Nat /\ IsFiniteSet(1..N) /\ Cardinality(1..N) = N
  BY FiniteTasks, FS_CardinalityType, FS_Interval
<1>2. order \in [1..N -> Tasks] /\ \A i, j \in 1..N : i # j => order[i] # order[j]
  BY OrdersAssumption DEF SetToSeqs
<1>3. order \in Injection(1..N, Tasks)
  BY <1>2 DEF Injection, IsInjective
<1>4. order \in Surjection(1..N, Tasks)
  BY <1>1, <1>3, FiniteTasks, FS_Injection
<1>5. \A t \in Tasks : \E i \in 1..N : order[i] = t
  BY <1>4 DEF Surjection
<1>6. /\ new \in Seq(Handles) /\ Len(new) = N
      /\ \A i \in 1..N : new[i] = Step(order[i])
  <2>1. new = [i \in 1..N |-> Step(order[i])] /\ \A i \in 1..N : Step(order[i]) \in Handles
    BY <1>2, HandleFacts
  <2> QED
    BY <1>1, <2>1
<1> HIDE DEF new, N
<1>7. Unique(new)
  BY <1>2, <1>6, HandlesDiffer DEF Unique
<1>8. \A x : InSeq(x, new) <=> \E t \in Tasks : x = Step(t)
  BY <1>2, <1>5, <1>6 DEF InSeq
<1> QED
  BY <1>6, <1>7, <1>8 DEF new

(* The caller creates the tasks. *)
LEMMA MainStartIInv ==
  ASSUME IInv, MainStart
  PROVE  IInv'
<1>1. Types /\ Rounds /\ OnePlace /\ MainWaits /\ pc[Main] = "start" /\ running = Nobody
  BY DEF IInv, MainStart
<1>2. PICK order \in Orders :
        RunHandle(Step(Main), [i \in DOMAIN order |-> Step(order[i])])
  BY DEF MainStart
<1> DEFINE new == [i \in DOMAIN order |-> Step(order[i])]
<1>3. /\ new \in Seq(Handles) /\ Unique(new)
      /\ \A x : InSeq(x, new) <=> \E t \in Tasks : x = Step(t)
      /\ RunHandle(Step(Main), new)
  BY <1>2, OrderFacts
<1>4. /\ pc' = [pc EXCEPT ![Main] = "gather"]
      /\ UNCHANGED <<timers, running, progress, queue, getters, putters, unfinished,
                     state, gathered>>
  BY DEF MainStart, queueVars
<1> HIDE DEF new
<1>5. /\ getters = <<>> /\ putters = <<>> /\ \A t \in Tasks : pc[t] = "start"
      /\ \A x : InSeq(x, ready) <=> x = Step(Main)
  BY <1>1 DEF MainWaits
<1>6. \A t, u : (Step(t) = Step(u) => t = u) /\ Step(t) # DoneCb(u)
  BY HandlesDiffer
<1>7. /\ ready' \in Seq(Handles) /\ todo' \in 0..Len(ready') /\ Unique(ready')
      /\ \A x : InSeq(x, ready') <=> (InSeq(x, ready) /\ x # Step(Main)) \/ InSeq(x, new)
  <2>1. \A x : InSeq(x, new) => ~InSeq(x, ready)
    BY <1>3, <1>5, <1>6, TaskFacts
  <2>2. ready \in Seq(Handles) /\ todo \in 0..Len(ready) /\ Unique(ready)
    BY <1>1 DEF Types, OnePlace
  <2> QED
    BY <1>3, <2>1, <2>2, RunFacts
<1>8. \A x : InSeq(x, ready') <=> \E t \in Tasks : x = Step(t)
  BY <1>3, <1>5, <1>7
<1>9. pc'[Main] = "gather" /\ \A t \in Tasks : pc'[t] = "start"
  BY <1>1, <1>4, <1>5, TaskFacts DEF Types
<1>10. Types'
  BY <1>1, <1>4, <1>7 DEF Types
<1>11. Rounds'
  BY <1>1, <1>4, <1>5, <1>9 DEF Rounds, Total
<1>12. Room' /\ NoLostWakeup' /\ ExactlyOnceInOrder'
  BY <1>4, <1>5 DEF IInv, Room, NoLostWakeup, ExactlyOnceInOrder
<1>13. OnePlace'
  <2>1. \A t \in Tasks : t \notin gathered /\ running # t
    BY <1>1, <1>5, TaskFacts DEF OnePlace
  <2>2. Unique(<<>>) /\ \A x : ~InSeq(x, <<>>)
    BY QueueShort
  <2>3. SUFFICES ASSUME NEW t \in Tasks
                 PROVE  /\ InSeq(Step(t), ready') =>
                             /\ pc'[t] # "done"
                             /\ running' # t /\ ~InSeq(t, getters') /\ ~InSeq(t, putters')
                        /\ ~(running' = t \/ InSeq(t, getters') \/ InSeq(t, putters'))
                        /\ ~InSeq(DoneCb(t), ready') /\ t \notin gathered'
    BY <1>4, <1>5, <1>7, <2>2 DEF OnePlace, Unique, InSeq
  <2> QED
    BY <1>4, <1>5, <1>6, <1>8, <1>9, <2>1, <2>2
<1>14. SomePlace'
  BY <1>8, <1>9 DEF SomePlace, InSeq
<1>15. MainWaits'
  <2>1. ~InSeq(Step(Main), ready')
    BY <1>6, <1>8, TaskFacts
  <2>2. gathered' # Tasks
    <3>1. 1 \in Tasks
      BY SizeAssumption DEF Tasks, Producers
    <3> QED
      BY <1>1, <1>4, <1>5, <3>1 DEF OnePlace
  <2> QED
    BY <1>9, <2>1, <2>2 DEF MainWaits, InSeq
<1> QED
  BY <1>10, <1>11, <1>12, <1>13, <1>14, <1>15 DEF IInv

(* A task is resumed. *)
LEMMA ResumeIInv ==
  ASSUME IInv, NEW t \in Tasks, Resume(t)
  PROVE  IInv'
<1>1. /\ Types /\ Rounds /\ OnePlace /\ SomePlace /\ MainWaits
      /\ running = Nobody /\ RunHandle(Step(t), <<>>)
      /\ running' = t /\ pc' = [pc EXCEPT ![t] = "loop"]
      /\ UNCHANGED <<timers, progress, queueVars, state, gathered>>
      /\ UNCHANGED <<queue, getters, putters>>
  BY DEF IInv, Resume, queueVars
<1>2. \A u, v : (Step(u) = Step(v) => u = v) /\ Step(u) # DoneCb(v)
  BY HandlesDiffer
<1>3. /\ ready' \in Seq(Handles) /\ todo' \in 0..Len(ready') /\ Unique(ready')
      /\ InSeq(Step(t), ready)
      /\ \A x : InSeq(x, ready') <=> InSeq(x, ready) /\ x # Step(t)
  <2>1. ready \in Seq(Handles) /\ todo \in 0..Len(ready) /\ Unique(ready)
    BY <1>1 DEF Types, OnePlace
  <2> QED
    BY <1>1, <2>1, RunNothing
<1>4. t # Main /\ Nobody \notin Tasks /\ Main \notin Tasks /\ Total(t) \in Nat \ {0}
  BY TaskFacts
<1>5. /\ pc[Main] # "start" /\ pc[t] # "done"
      /\ ~InSeq(t, getters) /\ ~InSeq(t, putters)
  BY <1>1, <1>2, <1>3, <1>4 DEF OnePlace, MainWaits
<1>6. /\ pc'[t] = "loop" /\ pc'[Main] = pc[Main]
      /\ \A u \in Tasks : u # t => pc'[u] = pc[u]
  BY <1>1, <1>4 DEF Types
<1>7. Types'
  BY <1>1, <1>3 DEF Types
<1>8. Rounds'
  <2>1. SUFFICES ASSUME NEW u \in Tasks
                 PROVE  /\ pc'[u] # "gather"
                        /\ progress'[u] \in 0..Total(u)
                        /\ pc'[u] = "start" => progress'[u] = 0
                        /\ pc'[u] = "done" <=> progress'[u] = Total(u)
    BY DEF Rounds, Total
  <2>2. CASE u # t
    BY <1>1, <1>6, <2>2 DEF Rounds
  <2>3. CASE u = t
    BY <1>1, <1>5, <1>6, <2>3 DEF Rounds
  <2> QED
    BY <2>2, <2>3
<1>9. Room' /\ NoLostWakeup' /\ ExactlyOnceInOrder'
  <2>1. \A u \in Tasks : running' = u \/ InSeq(Step(u), ready')
                         <=> running = u \/ InSeq(Step(u), ready)
    BY <1>1, <1>2, <1>3, <1>4
  <2>2. UNCHANGED <<progress, queueVars, state>>
    BY <1>1
  <2> QED
    BY <2>1, <2>2, QueueKeeps
<1>10. OnePlace'
  <2>1. Unique(getters') /\ Unique(putters')
    BY <1>1 DEF OnePlace
  <2>2. SUFFICES ASSUME NEW u \in Tasks
                 PROVE  /\ InSeq(Step(u), ready') =>
                             /\ pc'[u] # "done"
                             /\ running' # u /\ ~InSeq(u, getters') /\ ~InSeq(u, putters')
                        /\ running' = u => ~InSeq(u, getters') /\ ~InSeq(u, putters')
                        /\ running' = u \/ InSeq(u, getters') \/ InSeq(u, putters')
                             => pc'[u] = "loop"
                        /\ InSeq(DoneCb(u), ready') => pc'[u] = "done" /\ u \notin gathered'
                        /\ u \in gathered' => pc'[u] = "done"
    BY <1>3, <2>1 DEF OnePlace, Unique, InSeq
  <2>3. CASE u # t
    BY <1>1, <1>3, <1>6, <2>3 DEF OnePlace
  <2>4. CASE u = t
    BY <1>1, <1>2, <1>3, <1>5, <1>6, <2>4 DEF OnePlace
  <2> QED
    BY <2>3, <2>4
<1>11. SomePlace'
  <2>1. SUFFICES ASSUME NEW u \in Tasks
                 PROVE  /\ pc'[u] # "done" =>
                             \/ InSeq(Step(u), ready') \/ running' = u
                             \/ InSeq(u, getters') \/ InSeq(u, putters')
                        /\ pc'[u] = "done" => u \in gathered' \/ InSeq(DoneCb(u), ready')
    BY DEF SomePlace, InSeq
  <2>2. CASE u # t
    BY <1>1, <1>2, <1>3, <1>4, <1>5, <1>6, <2>2 DEF SomePlace
  <2>3. CASE u = t
    BY <1>1, <1>6, <2>3
  <2> QED
    BY <2>2, <2>3
<1>12. MainWaits'
  <2>1. InSeq(Step(Main), ready') <=> InSeq(Step(Main), ready)
    BY <1>2, <1>3, <1>4
  <2> QED
    BY <1>1, <1>5, <1>6, <2>1 DEF MainWaits, InSeq
<1> QED
  BY <1>7, <1>8, <1>9, <1>10, <1>11, <1>12 DEF IInv

(* gather() hears of a child, and after the last one resumes the caller. *)
LEMMA GatherChildIInv ==
  ASSUME IInv, NEW t \in Tasks, GatherChild(t)
  PROVE  IInv'
<1>1. /\ Types /\ Rounds /\ OnePlace /\ SomePlace /\ MainWaits
      /\ gathered' = gathered \union {t}
      /\ RunHandle(DoneCb(t), IF gathered' = Tasks THEN <<Step(Main)>> ELSE <<>>)
      /\ UNCHANGED <<timers, running, pc, progress, queueVars, state>>
      /\ UNCHANGED <<queue, getters, putters>>
  BY DEF IInv, GatherChild, queueVars
<1>2. \A u, v : /\ Step(u) = Step(v) => u = v
                /\ DoneCb(u) = DoneCb(v) => u = v
                /\ Step(u) # DoneCb(v)
  BY HandlesDiffer
<1>3. ready \in Seq(Handles) /\ todo \in 0..Len(ready) /\ Unique(ready) /\ Main \notin Tasks
  BY <1>1, TaskFacts DEF Types, OnePlace
<1>4. InSeq(DoneCb(t), ready)
  <2>1. Head(ready) = DoneCb(t) /\ todo > 0
    BY <1>1 DEF RunHandle
  <2>2. ready # <<>>
    BY <1>3, <2>1
  <2> QED
    BY <1>3, <2>1, <2>2, QueueTail
<1>5. /\ pc[t] = "done" /\ t \notin gathered /\ pc[Main] = "gather"
      /\ ~InSeq(Step(Main), ready)
  BY <1>1, <1>2, <1>4 DEF OnePlace, MainWaits
<1> DEFINE last == gathered' = Tasks
<1>6. /\ ready' \in Seq(Handles) /\ todo' \in 0..Len(ready') /\ Unique(ready')
      /\ \A x : InSeq(x, ready') <=>
           (InSeq(x, ready) /\ x # DoneCb(t)) \/ (last /\ x = Step(Main))
  <2>1. ASSUME last
        PROVE  /\ ready' \in Seq(Handles) /\ todo' \in 0..Len(ready') /\ Unique(ready')
               /\ \A x : InSeq(x, ready')
                            <=> (InSeq(x, ready) /\ x # DoneCb(t)) \/ x = Step(Main)
    <3>1. RunHandle(DoneCb(t), <<Step(Main)>>) /\ Step(Main) \in Handles
      BY <1>1, <2>1, HandleFacts
    <3> QED
      BY <1>3, <1>5, <3>1, RunOne
  <2>2. ASSUME ~last
        PROVE  /\ ready' \in Seq(Handles) /\ todo' \in 0..Len(ready') /\ Unique(ready')
               /\ \A x : InSeq(x, ready') <=> InSeq(x, ready) /\ x # DoneCb(t)
    <3>1. RunHandle(DoneCb(t), <<>>)
      BY <1>1, <2>2
    <3> QED
      BY <1>3, <3>1, RunNothing
  <2> HIDE DEF last
  <2>3. CASE last
    BY <2>1, <2>3
  <2>4. CASE ~last
    BY <2>2, <2>4
  <2> QED
    BY <2>3, <2>4
<1>7. \A u \in Tasks : InSeq(Step(u), ready') <=> InSeq(Step(u), ready)
  BY <1>2, <1>3, <1>6
<1>8. Types'
  BY <1>1, <1>6 DEF Types
<1>9. Rounds'
  BY <1>1 DEF Rounds, Total
<1>10. Room' /\ NoLostWakeup' /\ ExactlyOnceInOrder'
  <2>1. UNCHANGED <<progress, queueVars, state>> /\ running' = running
    BY <1>1
  <2> QED
    BY <1>7, <2>1, QueueKeeps
<1>11. OnePlace'
  <2>1. Unique(getters') /\ Unique(putters')
    BY <1>1 DEF OnePlace
  <2>2. SUFFICES ASSUME NEW u \in Tasks
                 PROVE  /\ InSeq(Step(u), ready') =>
                             /\ pc'[u] # "done"
                             /\ running' # u /\ ~InSeq(u, getters') /\ ~InSeq(u, putters')
                        /\ running' = u => ~InSeq(u, getters') /\ ~InSeq(u, putters')
                        /\ running' = u \/ InSeq(u, getters') \/ InSeq(u, putters')
                             => pc'[u] = "loop"
                        /\ InSeq(DoneCb(u), ready') => pc'[u] = "done" /\ u \notin gathered'
                        /\ u \in gathered' => pc'[u] = "done"
    BY <1>6, <2>1 DEF OnePlace, Unique, InSeq
  <2>3. InSeq(DoneCb(u), ready') => InSeq(DoneCb(u), ready) /\ u # t
    BY <1>2, <1>6
  <2> QED
    BY <1>1, <1>5, <1>7, <2>3 DEF OnePlace
<1>12. SomePlace'
  <2>1. SUFFICES ASSUME NEW u \in Tasks
                 PROVE  /\ pc'[u] # "done" =>
                             \/ InSeq(Step(u), ready') \/ running' = u
                             \/ InSeq(u, getters') \/ InSeq(u, putters')
                        /\ pc'[u] = "done" => u \in gathered' \/ InSeq(DoneCb(u), ready')
    BY DEF SomePlace, InSeq
  <2>2. InSeq(DoneCb(u), ready) => InSeq(DoneCb(u), ready') \/ u = t
    BY <1>2, <1>6
  <2>3. CASE u # t
    BY <1>1, <1>5, <1>7, <2>2, <2>3 DEF SomePlace
  <2>4. CASE u = t
    BY <1>1, <1>5, <2>4
  <2> QED
    BY <2>3, <2>4
<1>13. MainWaits'
  <2>1. InSeq(Step(Main), ready') <=> gathered' = Tasks
    BY <1>2, <1>5, <1>6
  <2> QED
    BY <1>1, <1>5, <2>1 DEF MainWaits, InSeq
<1> QED
  BY <1>8, <1>9, <1>10, <1>11, <1>12, <1>13 DEF IInv

(* The caller returns. *)
LEMMA MainReturnIInv ==
  ASSUME IInv, MainReturn
  PROVE  IInv'
<1>1. /\ Types /\ Rounds /\ OnePlace /\ SomePlace /\ MainWaits
      /\ running = Nobody /\ pc[Main] = "gather" /\ RunHandle(Step(Main), <<>>)
      /\ pc' = [pc EXCEPT ![Main] = "done"]
      /\ UNCHANGED <<timers, running, progress, queueVars, state, gathered>>
      /\ UNCHANGED <<queue, getters, putters>>
  BY DEF IInv, MainReturn, queueVars
<1>2. \A u, v : (Step(u) = Step(v) => u = v) /\ Step(u) # DoneCb(v)
  BY HandlesDiffer
<1>3. /\ ready' \in Seq(Handles) /\ todo' \in 0..Len(ready') /\ Unique(ready')
      /\ InSeq(Step(Main), ready)
      /\ \A x : InSeq(x, ready') <=> InSeq(x, ready) /\ x # Step(Main)
  <2>1. ready \in Seq(Handles) /\ todo \in 0..Len(ready) /\ Unique(ready)
    BY <1>1 DEF Types, OnePlace
  <2> QED
    BY <1>1, <2>1, RunNothing
<1>4. pc'[Main] = "done" /\ \A u \in Tasks : pc'[u] = pc[u]
  BY <1>1, TaskFacts DEF Types
<1>5. \A u \in Tasks : /\ InSeq(Step(u), ready') <=> InSeq(Step(u), ready)
                       /\ InSeq(DoneCb(u), ready') <=> InSeq(DoneCb(u), ready)
  BY <1>2, <1>3, TaskFacts
<1>6. Types'
  BY <1>1, <1>3 DEF Types
<1>7. Rounds'
  BY <1>1, <1>4 DEF Rounds, Total
<1>8. Room' /\ NoLostWakeup' /\ ExactlyOnceInOrder'
  <2>1. UNCHANGED <<progress, queueVars, state>> /\ running' = running
    BY <1>1
  <2> QED
    BY <1>5, <2>1, QueueKeeps
<1>9. OnePlace'
  <2>1. Unique(getters') /\ Unique(putters')
    BY <1>1 DEF OnePlace
  <2>2. SUFFICES ASSUME NEW u \in Tasks
                 PROVE  /\ InSeq(Step(u), ready') =>
                             /\ pc'[u] # "done"
                             /\ running' # u /\ ~InSeq(u, getters') /\ ~InSeq(u, putters')
                        /\ running' = u => ~InSeq(u, getters') /\ ~InSeq(u, putters')
                        /\ running' = u \/ InSeq(u, getters') \/ InSeq(u, putters')
                             => pc'[u] = "loop"
                        /\ InSeq(DoneCb(u), ready') => pc'[u] = "done" /\ u \notin gathered'
                        /\ u \in gathered' => pc'[u] = "done"
    BY <1>3, <2>1 DEF OnePlace, Unique, InSeq
  <2> QED
    BY <1>1, <1>4, <1>5 DEF OnePlace
<1>10. SomePlace'
  <2>1. SUFFICES ASSUME NEW u \in Tasks
                 PROVE  /\ pc'[u] # "done" =>
                             \/ InSeq(Step(u), ready') \/ running' = u
                             \/ InSeq(u, getters') \/ InSeq(u, putters')
                        /\ pc'[u] = "done" => u \in gathered' \/ InSeq(DoneCb(u), ready')
    BY DEF SomePlace, InSeq
  <2> QED
    BY <1>1, <1>4, <1>5 DEF SomePlace
<1>11. MainWaits'
  BY <1>1, <1>3, <1>4 DEF MainWaits, InSeq
<1> QED
  BY <1>6, <1>7, <1>8, <1>9, <1>10, <1>11 DEF IInv

(* A poll takes the snapshot: no timers are used. *)
LEMMA LoopIInv ==
  ASSUME IInv, Loop
  PROVE  IInv'
<1>1. /\ Types /\ StartIteration /\ UNCHANGED programVars
      /\ UNCHANGED <<running, pc, progress, queue, getters, putters, unfinished,
                     state, gathered>>
  BY DEF IInv, Loop, programVars, queueVars
<1>2. Due = {} /\ ready \in Seq(Handles) /\ Len(ready) \in Nat /\ timers = {}
  BY <1>1 DEF Types, Due
<1>3. ready' = ready /\ timers' = timers /\ todo' = Len(ready)
  BY <1>1, <1>2, PollNothing
<1>4. Types'
  BY <1>1, <1>2, <1>3 DEF Types
<1>5. Room' /\ NoLostWakeup' /\ ExactlyOnceInOrder'
  <2>1. UNCHANGED <<progress, queueVars, state>>
    BY <1>1 DEF queueVars
  <2> QED
    BY <1>1, <1>3, <2>1, QueueKeeps
<1>6. Rounds' /\ OnePlace' /\ SomePlace' /\ MainWaits'
  BY <1>1, <1>3 DEF IInv, Rounds, Total, OnePlace, SomePlace, MainWaits, Unique, InSeq
<1> QED
  BY <1>4, <1>5, <1>6 DEF IInv

(* The running task suspends and queues behind the other waiters. *)
LEMMA SuspendKeeps ==
  ASSUME IInv, NEW t \in Tasks, running = t, running' = Nobody,
         UNCHANGED <<loopVars, pc, progress, queue, unfinished, state, gathered>>,
         \/ t \in Producers /\ putters' = Append(putters, t) /\ getters' = getters
         \/ t \in Consumers /\ getters' = Append(getters, t) /\ putters' = putters
  PROVE  /\ Types' /\ Rounds' /\ Room' /\ OnePlace' /\ SomePlace' /\ MainWaits'
         /\ ExactlyOnceInOrder'
         /\ \A S \in {Producers, Consumers} :
              Moving(S)' \in Nat /\ (t \notin S => Moving(S)' = Moving(S))
<1>1. /\ Types /\ Rounds /\ OnePlace /\ SomePlace /\ MainWaits
      /\ UNCHANGED <<ready, todo, timers, pc, progress, queue, unfinished, state, gathered>>
  BY DEF IInv, loopVars
<1>2. t # Main /\ Nobody \notin Tasks
  BY TaskFacts
<1>3. /\ pc[t] = "loop" /\ pc[Main] # "start"
      /\ ~InSeq(Step(t), ready) /\ ~InSeq(t, getters) /\ ~InSeq(t, putters)
      /\ ~InSeq(DoneCb(t), ready) /\ t \notin gathered
  BY <1>1, <1>2 DEF OnePlace, MainWaits
<1>4. /\ getters' \in Seq(Consumers) /\ putters' \in Seq(Producers)
      /\ Unique(getters') /\ Unique(putters')
      /\ InSeq(t, getters') \/ InSeq(t, putters')
      /\ \A u : u # t => /\ InSeq(u, getters') <=> InSeq(u, getters)
                         /\ InSeq(u, putters') <=> InSeq(u, putters)
  <2>1. /\ getters \in Seq(Consumers) /\ putters \in Seq(Producers)
        /\ Unique(getters) /\ Unique(putters)
    BY <1>1 DEF Types, OnePlace
  <2>2. CASE t \in Producers /\ putters' = Append(putters, t) /\ getters' = getters
    <3>1. /\ Append(putters, t) \in Seq(Producers) /\ Unique(Append(putters, t))
          /\ \A x : InSeq(x, Append(putters, t)) <=> InSeq(x, putters) \/ x = t
      BY <1>3, <2>1, <2>2, QueueJoin
    <3> QED
      BY <2>1, <2>2, <3>1
  <2>3. CASE t \in Consumers /\ getters' = Append(getters, t) /\ putters' = putters
    <3>1. /\ Append(getters, t) \in Seq(Consumers) /\ Unique(Append(getters, t))
          /\ \A x : InSeq(x, Append(getters, t)) <=> InSeq(x, getters) \/ x = t
      BY <1>3, <2>1, <2>3, QueueJoin
    <3> QED
      BY <2>1, <2>3, <3>1
  <2> QED
    BY <2>2, <2>3
<1>5. Types' /\ Rounds' /\ Room' /\ ExactlyOnceInOrder'
  BY <1>1, <1>4 DEF IInv, Types, Rounds, Total, Room, ExactlyOnceInOrder
<1>6. OnePlace'
  <2>1. Unique(ready') /\ \A x : InSeq(x, ready') <=> InSeq(x, ready)
    BY <1>1 DEF OnePlace
  <2>2. SUFFICES ASSUME NEW u \in Tasks
                 PROVE  /\ InSeq(Step(u), ready') =>
                             /\ pc'[u] # "done"
                             /\ running' # u /\ ~InSeq(u, getters') /\ ~InSeq(u, putters')
                        /\ running' = u => ~InSeq(u, getters') /\ ~InSeq(u, putters')
                        /\ running' = u \/ InSeq(u, getters') \/ InSeq(u, putters')
                             => pc'[u] = "loop"
                        /\ InSeq(DoneCb(u), ready') => pc'[u] = "done" /\ u \notin gathered'
                        /\ u \in gathered' => pc'[u] = "done"
    BY <1>4, <2>1 DEF OnePlace, Unique, InSeq
  <2>3. CASE u # t
    <3>1. /\ InSeq(u, getters') <=> InSeq(u, getters)
          /\ InSeq(u, putters') <=> InSeq(u, putters)
          /\ running # u /\ running' # u
          /\ InSeq(Step(u), ready') <=> InSeq(Step(u), ready)
          /\ InSeq(DoneCb(u), ready') <=> InSeq(DoneCb(u), ready)
      BY <1>2, <1>4, <2>1, <2>3
    <3> QED
      BY <1>1, <3>1 DEF OnePlace
  <2>4. CASE u = t
    BY <1>1, <1>2, <1>3, <2>1, <2>4
  <2> QED
    BY <2>3, <2>4
<1>7. SomePlace'
  <2>1. SUFFICES ASSUME NEW u \in Tasks
                 PROVE  /\ pc'[u] # "done" =>
                             \/ InSeq(Step(u), ready') \/ running' = u
                             \/ InSeq(u, getters') \/ InSeq(u, putters')
                        /\ pc'[u] = "done" => u \in gathered' \/ InSeq(DoneCb(u), ready')
    BY DEF SomePlace, InSeq
  <2>2. CASE u # t
    <3>1. /\ InSeq(u, getters') <=> InSeq(u, getters)
          /\ InSeq(u, putters') <=> InSeq(u, putters)
          /\ running # u
      BY <1>4, <2>2
    <3> QED
      BY <1>1, <1>3, <3>1 DEF SomePlace
  <2>3. CASE u = t
    BY <1>1, <1>3, <1>4, <2>3
  <2> QED
    BY <2>2, <2>3
<1>8. MainWaits'
  BY <1>1, <1>3 DEF MainWaits, InSeq
<1>9. ASSUME NEW S \in {Producers, Consumers}
      PROVE  Moving(S)' \in Nat /\ (t \notin S => Moving(S)' = Moving(S))
  <2>1. Moving(S)' = Cardinality(Awake(S)') /\ IsFiniteSet(S) /\ Awake(S)' \in SUBSET S
    BY <1>9, FiniteTasks DEF Awake, Moving
  <2>2. IsFiniteSet(Awake(S)')
    BY <2>1, FS_Subset
  <2>3. Moving(S)' \in Nat
    BY <2>1, <2>2, FS_CardinalityType
  <2>4. ASSUME t \notin S PROVE Moving(S)' = Moving(S)
    <3>1. \A u : u \in Awake(S)' <=> u \in Awake(S)
      BY <1>1, <1>2, <2>4, TaskFacts DEF Awake, IsReady
    <3>2. Awake(S)' = Awake(S)
      BY <3>1
    <3> QED
      BY <1>9, <3>2, AwakeSame
  <2> QED
    BY <2>3, <2>4
<1> QED
  BY <1>5, <1>6, <1>7, <1>8, <1>9

(* A producer waits for room: the queue is full. *)
LEMMA PutWaitIInv ==
  ASSUME IInv, NEW p \in Producers, PutWait(p)
  PROVE  IInv'
<1>1. p \in Tasks /\ p \notin Consumers
  BY TaskFacts
<1>2. /\ Types' /\ Rounds' /\ Room' /\ OnePlace' /\ SomePlace' /\ MainWaits'
      /\ ExactlyOnceInOrder'
      /\ \A S \in {Producers, Consumers} :
           Moving(S)' \in Nat /\ (p \notin S => Moving(S)' = Moving(S))
  BY <1>1, SuspendKeeps DEF PutWait
<1>3. NoLostWakeup'
  <2>1. /\ Len(queue) \in Nat /\ Len(queue) >= maxsize /\ maxsize \in Nat
        /\ queue' = queue /\ getters' = getters
    BY SizeAssumption DEF IInv, Types, PutWait, Full
  <2>2. Moving(Consumers)' = Moving(Consumers) /\ Moving(Producers)' \in Nat
    BY <1>1, <1>2
  <2>3. getters # <<>> => Len(queue) <= Moving(Consumers)
    BY DEF IInv, NoLostWakeup
  <2> QED
    BY <2>1, <2>2, <2>3 DEF NoLostWakeup
<1> QED
  BY <1>2, <1>3 DEF IInv

(* A consumer waits for an item: the queue is empty. *)
LEMMA GetWaitIInv ==
  ASSUME IInv, NEW c \in Consumers, GetWait(c)
  PROVE  IInv'
<1>1. c \in Tasks /\ c \notin Producers
  BY TaskFacts
<1>2. /\ Types' /\ Rounds' /\ Room' /\ OnePlace' /\ SomePlace' /\ MainWaits'
      /\ ExactlyOnceInOrder'
      /\ \A S \in {Producers, Consumers} :
           Moving(S)' \in Nat /\ (c \notin S => Moving(S)' = Moving(S))
  BY <1>1, SuspendKeeps DEF GetWait
<1>3. NoLostWakeup'
  <2>1. queue = <<>> /\ queue' = queue /\ putters' = putters
    BY DEF GetWait, Empty
  <2>2. Moving(Producers)' = Moving(Producers) /\ Moving(Consumers)' \in Nat
    BY <1>1, <1>2
  <2>3. putters # <<>> => maxsize - Len(queue) <= Moving(Producers)
    BY DEF IInv, NoLostWakeup
  <2>4. Len(queue) = 0
    BY <2>1
  <2> QED
    BY <2>1, <2>2, <2>3, <2>4 DEF NoLostWakeup
<1> QED
  BY <1>2, <1>3 DEF IInv

(* The waiters behind the first are of the same kind. *)
LEMMA StillWaitingType ==
  ASSUME NEW S, NEW W \in Seq(S)
  PROVE  /\ StillWaiting(W) \in Seq(S)
         /\ StillWaiting(W) # <<>> => W # <<>>
<1>1. CASE W = <<>>
  BY <1>1 DEF StillWaiting
<1>2. CASE W # <<>>
  BY <1>2 DEF StillWaiting
<1> QED
  BY <1>1, <1>2

(* A producer puts its next item. *)
LEMMA PutIInv ==
  ASSUME IInv, NEW p \in Producers, Put(p)
  PROVE  IInv'
<1> DEFINE item == <<p, progress[p] + 1>>
           W == getters
<1>1. /\ Types /\ Room /\ NoLostWakeup /\ ExactlyOnceInOrder
      /\ running = p /\ ~Full
      /\ queue' = Append(queue, item) /\ unfinished' = unfinished + 1
      /\ getters' = StillWaiting(getters)
      /\ Advance(p, ItemsEach, WakeFirst(getters))
      /\ putters' = putters /\ state' = state /\ gathered' = gathered
  BY DEF IInv, Put
<1>2. p \in Tasks /\ p \notin Consumers /\ Total(p) = ItemsEach
  BY TaskFacts
<1>3. /\ W \in Seq(Tasks) /\ \A u : InSeq(u, W) => u \in Consumers
      /\ getters \in Seq(Consumers) /\ putters \in Seq(Producers)
      /\ queue \in Seq(Items) /\ state \in Seq(Items)
  BY <1>1, WaitersAre DEF Types
<1>4. /\ Advance(p, Total(p), WakeFirst(W))
      /\ \/ W = getters /\ getters' = StillWaiting(getters) /\ putters' = putters
         \/ W = putters /\ putters' = StillWaiting(putters) /\ getters' = getters
  BY <1>1, <1>2
<1> HIDE DEF W
<1>5. /\ ready' \in Seq(Handles) /\ todo' \in 0..Len(ready') /\ timers' = {}
      /\ running' \in Tasks \union {Nobody}
      /\ pc' \in [{Main} \union Tasks -> {"start", "gather", "loop", "done"}]
      /\ progress' \in [Tasks -> Nat]
      /\ progress[p] < Total(p) /\ progress' = [progress EXCEPT ![p] = @ + 1]
      /\ Rounds' /\ OnePlace' /\ SomePlace' /\ MainWaits'
      /\ \A S \in {Producers, Consumers} :
           /\ p \notin S =>
                IF W # <<>> /\ Head(W) \in S THEN Moving(S)' = Moving(S) + 1
                                             ELSE Moving(S)' = Moving(S)
           /\ p \in S /\ (W = <<>> \/ Head(W) \notin S) => Moving(S)' >= Moving(S) - 1
  BY <1>1, <1>2, <1>3, <1>4, RoundKeeps
<1>6. progress \in [Tasks -> Nat] /\ progress[p] \in Nat /\ progress[p] + 1 \in 1..ItemsEach
  <2>1. progress \in [Tasks -> Nat] /\ ItemsEach \in Nat
    BY <1>1, SizeAssumption DEF Types
  <2> QED
    BY <1>2, <1>5, <2>1
<1>7. item \in Items
  BY <1>6 DEF Items
<1>8. /\ Len(queue) \in Nat /\ queue' \in Seq(Items) /\ Len(queue') = Len(queue) + 1
      /\ Len(queue) < maxsize
  <2>1. Append(queue, item) \in Seq(Items) /\ Len(Append(queue, item)) = Len(queue) + 1
    BY <1>3, <1>7
  <2> QED
    BY <1>1, <1>3, <2>1, SizeAssumption DEF Full
<1>9. Types'
  <2>1. getters' \in Seq(Consumers)
    BY <1>1, <1>3, StillWaitingType
  <2>2. gathered \subseteq Tasks
    BY <1>1 DEF Types
  <2> QED
    BY <1>1, <1>3, <1>5, <1>8, <2>1, <2>2 DEF Types
<1>10. Room'
  BY <1>1, <1>8, SizeAssumption DEF Room
<1>11. NoLostWakeup'
  <2>1. W # <<>> => InSeq(Head(W), W)
    <3>1. Len(W) \in Nat /\ (W # <<>> => Len(W) > 0 /\ Head(W) = W[1])
      BY <1>3
    <3> QED
      BY <3>1 DEF InSeq
  <2>2. W # <<>> => Head(W) \in Consumers /\ Head(W) \notin Producers
    BY <1>3, <2>1, TaskFacts
  <2>3. getters # <<>> => Moving(Consumers)' = Moving(Consumers) + 1
    BY <1>2, <1>5, <2>2 DEF W
  <2>4. Moving(Producers)' >= Moving(Producers) - 1
    BY <1>5, <2>2
  <2>5. getters' # <<>> => getters # <<>>
    BY <1>1, <1>3, StillWaitingType
  <2>6. /\ getters # <<>> => Len(queue) <= Moving(Consumers)
        /\ putters # <<>> => maxsize - Len(queue) <= Moving(Producers)
    BY <1>1 DEF NoLostWakeup
  <2>7. /\ Moving(Consumers) \in Nat /\ Moving(Producers) \in Nat /\ maxsize \in Nat
    BY AwakeFinite, SizeAssumption
  <2>8. getters' # <<>> => Len(queue') <= Moving(Consumers)'
    BY <1>8, <2>3, <2>5, <2>6, <2>7
  <2>9. putters' # <<>> => maxsize - Len(queue') <= Moving(Producers)'
    <3>1. CASE putters = <<>>
      BY <1>1, <3>1
    <3>2. CASE putters # <<>>
      <4>1. Moving(Producers)' \in Int
        <5>1. p \in Producers /\ (W = <<>> \/ Head(W) \notin Producers)
          BY <2>2
        <5>2. IsFiniteSet(Producers) /\ Awake(Producers)' \in SUBSET Producers
          BY FiniteTasks DEF Awake
        <5>3. IsFiniteSet(Awake(Producers)')
          BY <5>2, FS_Subset
        <5> QED
          BY <5>3, FS_CardinalityType DEF Moving, Awake
      <4> QED
        BY <1>8, <2>4, <2>6, <2>7, <3>2, <4>1
    <3> QED
      BY <3>1, <3>2
  <2> QED
    BY <2>8, <2>9 DEF NoLostWakeup
<1>12. ExactlyOnceInOrder'
  <2>1. SUFFICES ASSUME NEW q \in Producers
                 PROVE  SelectIn(state' \o queue', {q} \X (1..ItemsEach))
                          = [i \in 1..progress'[q] |-> <<q, i>>]
    BY DEF ExactlyOnceInOrder
  <2> DEFINE log == state \o queue
  <2>2. log \in Seq(Items) /\ state' \o queue' = Append(log, item)
    BY <1>1, <1>3, <1>7
  <2>3. SelectIn(log, {q} \X (1..ItemsEach)) = [i \in 1..progress[q] |-> <<q, i>>]
    BY <1>1 DEF ExactlyOnceInOrder
  <2> HIDE DEF log
  <2>4. SelectIn(Append(log, item), {q} \X (1..ItemsEach)) =
          IF item \in {q} \X (1..ItemsEach)
          THEN Append(SelectIn(log, {q} \X (1..ItemsEach)), item)
          ELSE SelectIn(log, {q} \X (1..ItemsEach))
    BY <1>7, <2>2, SelectAppend
  <2> DEFINE Run(n) == [i \in 1..n |-> <<q, i>>]
  <2>5. CASE q = p
    <3>1. /\ item \in {q} \X (1..ItemsEach) /\ progress'[q] = progress[q] + 1
          /\ progress[q] \in Nat /\ item = <<q, progress[q] + 1>>
      BY <1>2, <1>5, <1>6, <2>5
    <3>2. Append(Run(progress[q]), item) = Run(progress[q] + 1)
      BY <3>1
    <3>3. SelectIn(log, {q} \X (1..ItemsEach)) = Run(progress[q])
      BY <2>3
    <3> HIDE DEF Run
    <3>4. SelectIn(state' \o queue', {q} \X (1..ItemsEach)) = Run(progress'[q])
      BY <2>2, <2>4, <3>1, <3>2, <3>3
    <3> QED
      BY <3>4 DEF Run
  <2>6. CASE q # p
    <3>1. item \notin {q} \X (1..ItemsEach) /\ progress'[q] = progress[q]
      BY <1>2, <1>5, <1>6, <2>6, TaskFacts
    <3> QED
      BY <2>2, <2>3, <2>4, <3>1
  <2> QED
    BY <2>5, <2>6
<1> QED
  BY <1>5, <1>9, <1>10, <1>11, <1>12 DEF IInv

(* Moving the first item from the queue to the end of the list. *)
LEMMA LogKept ==
  ASSUME NEW S, NEW s \in Seq(S), NEW q \in Seq(S), q # <<>>
  PROVE  Append(s, Head(q)) \o Tail(q) = s \o q
<1> DEFINE a == Append(s, Head(q))
           t == Tail(q)
<1>1. /\ Len(s) \in Nat /\ Len(q) \in Nat \ {0}
      /\ a \in Seq(S) /\ Len(a) = Len(s) + 1 /\ a[Len(s) + 1] = q[1]
      /\ \A i \in 1..Len(s) : a[i] = s[i]
      /\ t \in Seq(S) /\ Len(t) = Len(q) - 1
      /\ \A i \in 1..Len(t) : t[i] = q[i + 1]
  OBVIOUS
<1> HIDE DEF a, t
<1> DEFINE l == a \o t
           r == s \o q
<1>2. a \in Seq(S) /\ t \in Seq(S)
  BY <1>1
<1>3. /\ l \in Seq(S) /\ Len(l) = Len(a) + Len(t)
      /\ \A i \in 1..Len(a) : l[i] = a[i]
      /\ \A i \in 1..Len(t) : l[Len(a) + i] = t[i]
  BY <1>2
<1>4. /\ r \in Seq(S) /\ Len(r) = Len(s) + Len(q)
      /\ \A i \in 1..Len(s) : r[i] = s[i]
      /\ \A i \in 1..Len(q) : r[Len(s) + i] = q[i]
  OBVIOUS
<1> HIDE DEF l, r
<1>5. Len(l) = Len(r) /\ Len(l) = Len(s) + Len(q)
  BY <1>1, <1>3, <1>4
<1>6. ASSUME NEW i \in 1..Len(l) PROVE l[i] = r[i]
  <2>1. CASE i <= Len(s)
    <3>1. i \in 1..Len(s) /\ i \in 1..Len(a)
      BY <1>1, <2>1
    <3> QED
      BY <1>1, <1>3, <1>4, <3>1
  <2>2. CASE i = Len(s) + 1
    <3>1. i \in 1..Len(a) /\ 1 \in 1..Len(q)
      BY <1>1, <2>2
    <3>2. l[i] = a[Len(s) + 1]
      BY <1>3, <2>2, <3>1
    <3>3. r[i] = q[1]
      BY <1>4, <2>2, <3>1
    <3> QED
      BY <1>1, <3>2, <3>3
  <2>3. CASE i > Len(s) + 1
    <3> DEFINE k == i - Len(a)
    <3>1. k \in 1..Len(t) /\ k + 1 \in 1..Len(q) /\ i = Len(a) + k /\ i = Len(s) + (k + 1)
      BY <1>1, <1>5, <2>3
    <3> HIDE DEF k
    <3>2. l[i] = t[k]
      BY <1>3, <3>1
    <3>3. r[i] = q[k + 1]
      BY <1>4, <3>1
    <3> QED
      BY <1>1, <3>1, <3>2, <3>3
  <2> QED
    BY <1>1, <1>5, <2>1, <2>2, <2>3
<1> QED
  BY <1>3, <1>4, <1>5, <1>6 DEF a, t, l, r

(* A consumer takes the first item. *)
LEMMA GetIInv ==
  ASSUME IInv, NEW c \in Consumers, Get(c)
  PROVE  IInv'
<1> DEFINE W == putters
<1>1. /\ Types /\ Room /\ NoLostWakeup /\ ExactlyOnceInOrder
      /\ running = c /\ queue # <<>>
      /\ queue' = Tail(queue) /\ unfinished' = unfinished - 1
      /\ state' = Append(state, Head(queue))
      /\ putters' = StillWaiting(putters)
      /\ Advance(c, Target, WakeFirst(putters))
      /\ getters' = getters /\ gathered' = gathered
  BY DEF IInv, Get, Empty
<1>2. c \in Tasks /\ c \notin Producers /\ Total(c) = Target
  BY TaskFacts
<1>3. /\ W \in Seq(Tasks) /\ \A u : InSeq(u, W) => u \in Producers
      /\ getters \in Seq(Consumers) /\ putters \in Seq(Producers)
      /\ queue \in Seq(Items) /\ state \in Seq(Items)
  BY <1>1, WaitersAre DEF Types
<1>4. /\ Advance(c, Total(c), WakeFirst(W))
      /\ \/ W = getters /\ getters' = StillWaiting(getters) /\ putters' = putters
         \/ W = putters /\ putters' = StillWaiting(putters) /\ getters' = getters
  BY <1>1, <1>2
<1> HIDE DEF W
<1>5. /\ ready' \in Seq(Handles) /\ todo' \in 0..Len(ready') /\ timers' = {}
      /\ running' \in Tasks \union {Nobody}
      /\ pc' \in [{Main} \union Tasks -> {"start", "gather", "loop", "done"}]
      /\ progress' \in [Tasks -> Nat]
      /\ progress[c] < Total(c) /\ progress' = [progress EXCEPT ![c] = @ + 1]
      /\ Rounds' /\ OnePlace' /\ SomePlace' /\ MainWaits'
      /\ \A S \in {Producers, Consumers} :
           /\ c \notin S =>
                IF W # <<>> /\ Head(W) \in S THEN Moving(S)' = Moving(S) + 1
                                             ELSE Moving(S)' = Moving(S)
           /\ c \in S /\ (W = <<>> \/ Head(W) \notin S) => Moving(S)' >= Moving(S) - 1
  BY <1>1, <1>2, <1>3, <1>4, RoundKeeps
<1>6. progress \in [Tasks -> Nat]
  BY <1>1 DEF Types
<1>7. /\ Len(queue) \in Nat \ {0} /\ queue' \in Seq(Items) /\ Len(queue') = Len(queue) - 1
      /\ Head(queue) \in Items /\ state' \in Seq(Items)
      /\ state' \o queue' = state \o queue
  <2>1. /\ Len(queue) \in Nat \ {0} /\ Tail(queue) \in Seq(Items)
        /\ Len(Tail(queue)) = Len(queue) - 1
        /\ Head(queue) \in Items
        /\ Append(state, Head(queue)) \in Seq(Items)
    BY <1>1, <1>3
  <2>2. Append(state, Head(queue)) \o Tail(queue) = state \o queue
    BY <1>1, <1>3, LogKept
  <2> QED
    BY <1>1, <2>1, <2>2
<1>8. Types'
  <2>1. putters' \in Seq(Producers)
    BY <1>1, <1>3, StillWaitingType
  <2>2. gathered \subseteq Tasks
    BY <1>1 DEF Types
  <2> QED
    BY <1>1, <1>3, <1>5, <1>7, <2>1, <2>2 DEF Types
<1>9. Room'
  BY <1>1, <1>7, SizeAssumption DEF Room
<1>10. NoLostWakeup'
  <2>1. W # <<>> => InSeq(Head(W), W)
    <3>1. Len(W) \in Nat /\ (W # <<>> => Len(W) > 0 /\ Head(W) = W[1])
      BY <1>3
    <3> QED
      BY <3>1 DEF InSeq
  <2>2. W # <<>> => Head(W) \in Producers /\ Head(W) \notin Consumers
    BY <1>3, <2>1, TaskFacts
  <2>3. putters # <<>> => Moving(Producers)' = Moving(Producers) + 1
    BY <1>2, <1>5, <2>2 DEF W
  <2>4. Moving(Consumers)' >= Moving(Consumers) - 1
    BY <1>5, <2>2
  <2>5. putters' # <<>> => putters # <<>>
    BY <1>1, <1>3, StillWaitingType
  <2>6. /\ getters # <<>> => Len(queue) <= Moving(Consumers)
        /\ putters # <<>> => maxsize - Len(queue) <= Moving(Producers)
    BY <1>1 DEF NoLostWakeup
  <2>7. /\ Moving(Consumers) \in Nat /\ Moving(Producers) \in Nat /\ maxsize \in Nat
    BY AwakeFinite, SizeAssumption
  <2>8. putters' # <<>> => maxsize - Len(queue') <= Moving(Producers)'
    BY <1>7, <2>3, <2>5, <2>6, <2>7
  <2>9. getters' # <<>> => Len(queue') <= Moving(Consumers)'
    <3>1. CASE getters = <<>>
      BY <1>1, <3>1
    <3>2. CASE getters # <<>>
      <4>1. Moving(Consumers)' \in Int
        <5>1. IsFiniteSet(Consumers) /\ Awake(Consumers)' \in SUBSET Consumers
          BY FiniteTasks DEF Awake
        <5>2. IsFiniteSet(Awake(Consumers)')
          BY <5>1, FS_Subset
        <5> QED
          BY <5>2, FS_CardinalityType DEF Moving, Awake
      <4> QED
        BY <1>7, <2>4, <2>6, <2>7, <3>2, <4>1
    <3> QED
      BY <3>1, <3>2
  <2> QED
    BY <2>8, <2>9 DEF NoLostWakeup
<1>11. ExactlyOnceInOrder'
  <2>1. \A q \in Producers : progress'[q] = progress[q]
    BY <1>2, <1>5, <1>6, TaskFacts
  <2> QED
    BY <1>1, <1>7, <2>1 DEF ExactlyOnceInOrder
<1> QED
  BY <1>5, <1>8, <1>9, <1>10, <1>11 DEF IInv

(* The invariant is inductive. *)
LEMMA NextIInv == IInv /\ [Next]_vars => IInv'
<1> SUFFICES ASSUME IInv, [Next]_vars PROVE IInv'
  OBVIOUS
<1>1. CASE UNCHANGED vars
  <2>1. UNCHANGED <<ready, todo, timers, running, pc, progress, queue, getters, putters,
                    unfinished, state, gathered>>
    BY <1>1 DEF vars, loopVars, programVars, queueVars
  <2>2. Types' /\ Rounds' /\ OnePlace' /\ SomePlace' /\ MainWaits'
    BY <2>1 DEF IInv, Types, Rounds, Total, OnePlace, SomePlace, MainWaits, Unique, InSeq
  <2>3. Room' /\ NoLostWakeup' /\ ExactlyOnceInOrder'
    BY <2>1, QueueKeeps DEF queueVars
  <2> QED
    BY <2>2, <2>3 DEF IInv
<1> QED
  BY <1>1, LoopIInv, MainStartIInv, ResumeIInv, GatherChildIInv, PutIInv, PutWaitIInv,
     GetIInv, GetWaitIInv, MainReturnIInv
     DEF Next, Finished
(* Seen from outside, a step puts an item, takes one, or does nothing. *)
LEMMA StepRefines == IInv /\ [Next]_vars => [Channel!Next]_(Channel!chan)
<1> SUFFICES ASSUME IInv, [Next]_vars
             PROVE  Channel!Next \/ UNCHANGED <<queue, state, progress>>
  BY DEF Channel!chan
<1>1. Types /\ Room /\ Rounds /\ OnePlace
  BY DEF IInv
<1>2. ASSUME NEW t \in Tasks, running = t PROVE progress[t] < Total(t)
  BY <1>1, <1>2, TaskFacts DEF OnePlace, Rounds
<1>3. ASSUME NEW p \in Producers, Put(p) PROVE Channel!Next
  <2>1. /\ running = p /\ p \in Tasks /\ Total(p) = ItemsEach /\ Len(queue) < maxsize
    BY <1>1, <1>3, TaskFacts, SizeAssumption DEF Put, Full, Types
  <2>2. progress[p] < ItemsEach
    BY <1>2, <2>1
  <2>3. Channel!Put(p)
    BY <1>3, <2>1, <2>2 DEF Put, Advance, Channel!Put
  <2> QED
    BY <2>3 DEF Channel!Next
<1>4. ASSUME NEW c \in Consumers, Get(c) PROVE Channel!Next
  <2>1. running = c /\ c \in Tasks /\ Total(c) = Target
    BY <1>4, TaskFacts DEF Get
  <2>2. progress[c] < Target
    BY <1>2, <2>1
  <2>3. Channel!Get(c)
    BY <1>4, <2>2 DEF Get, Empty, Advance, Channel!Get
  <2> QED
    BY <2>3 DEF Channel!Next
<1>5. ASSUME NEW t \in Tasks, Resume(t) \/ GatherChild(t)
      PROVE  UNCHANGED <<queue, state, progress>>
  BY <1>5 DEF Resume, GatherChild, queueVars
<1>6. ASSUME NEW p, PutWait(p) \/ GetWait(p)
      PROVE  UNCHANGED <<queue, state, progress>>
  BY <1>6 DEF PutWait, GetWait
<1>7. CASE Loop \/ MainStart \/ MainReturn \/ UNCHANGED vars
  BY <1>7 DEF Loop, MainStart, MainReturn, vars, programVars, queueVars
<1> QED
  BY <1>3, <1>4, <1>5, <1>6, <1>7 DEF Next, Finished
-----------------------------------------------------------------------------
(***************************************************************************)
(* The variables have their types; in particular the queue never holds     *)
(* more than maxsize items, and task_done() is never called once too often.*)
(***************************************************************************)
THEOREM TypeCorrect == Spec => []TypeOK
<1>1. IInv => TypeOK
  <2>1. SUFFICES ASSUME IInv PROVE TypeOK
    OBVIOUS
  <2>2. /\ \A p \in Producers : progress[p] \in 0..ItemsEach
        /\ \A c \in Consumers : progress[c] \in 0..Target
    BY <2>1, TaskFacts DEF IInv, Rounds
  <2>3. unfinished \in Nat /\ Len(queue) <= maxsize
    BY <2>1 DEF IInv, Room, Types
  <2> QED
    BY <2>1, <2>2, <2>3 DEF IInv, Types, TypeOK
<1> QED
  BY <1>1, InitIInv, NextIInv, PTL DEF Spec

(***************************************************************************)
(* Every item is passed on exactly once, in the order of its producer.     *)
(***************************************************************************)
THEOREM ExactlyOnce == Spec => []ExactlyOnceInOrder
<1>1. IInv => ExactlyOnceInOrder
  BY DEF IInv
<1> QED
  BY <1>1, InitIInv, NextIInv, PTL DEF Spec

(***************************************************************************)
(* For every queued item a getter could take, and every free slot a putter *)
(* could use, a task of that kind is awake.                                *)
(***************************************************************************)
THEOREM WakeupsKept == Spec => []NoLostWakeup
<1>1. IInv => NoLostWakeup
  BY DEF IInv
<1> QED
  BY <1>1, InitIInv, NextIInv, PTL DEF Spec

(***************************************************************************)
(* The safety part of the refinement: seen from outside, the tasks only    *)
(* put into and take from a bounded FIFO channel, each step one item.      *)
(***************************************************************************)
THEOREM RefinesChannel == Spec => Channel!Safety
<1>1. Init => Channel!Init
  BY DEF Init, Channel!Init, Tasks
<1> QED
  BY <1>1, StepRefines, InitIInv, NextIInv, PTL DEF Spec, Channel!Safety
-----------------------------------------------------------------------------
(***************************************************************************)
(* That nobody waits for ever also needs that producers and consumers are  *)
(* balanced, so the books have to be kept: the rounds the producers have   *)
(* made are the items of the list and of the queue, those of the consumers *)
(* the items of the list.                                                  *)
(***************************************************************************)
Made(S, total) == {r \in S \X (1..total) : r[2] <= progress[r[1]]}

Balanced ==
  /\ Cardinality(Made(Producers, ItemsEach)) = Len(state) + Len(queue)
  /\ Cardinality(Made(Consumers, Target)) = Len(state)

(* One round of a task is one more. *)
LEMMA MadeMore ==
  ASSUME NEW S \in {Producers, Consumers}, NEW total \in Nat, NEW t \in S,
         progress \in [Tasks -> Nat], progress[t] < total,
         progress' = [progress EXCEPT ![t] = @ + 1]
  PROVE  Cardinality(Made(S, total)') = Cardinality(Made(S, total)) + 1
<1> DEFINE m == Made(S, total)
           new == <<t, progress[t] + 1>>
<1>1. S \subseteq Tasks /\ IsFiniteSet(S) /\ IsFiniteSet(1..total)
  <2>1. 1 \in Int /\ total \in Int
    OBVIOUS
  <2>2. IsFiniteSet(1..total)
    BY <2>1, FS_Interval
  <2> QED
    BY <2>2, TaskFacts, FiniteTasks
<1>2. progress[t] \in Nat /\ progress[t] + 1 \in 1..total
  BY <1>1
<1>3. IsFiniteSet(m)
  <2>1. IsFiniteSet(S \X (1..total))
    BY <1>1, FS_Product
  <2>2. m \in SUBSET (S \X (1..total))
    BY DEF Made
  <2> QED
    BY <2>1, <2>2, FS_Subset
<1>4. new \notin m
  BY <1>2 DEF Made
<1>5. Made(S, total)' = m \union {new}
  <2>1. ASSUME NEW r \in S \X (1..total)
        PROVE  r[2] <= progress'[r[1]] <=> r[2] <= progress[r[1]] \/ r = new
    <3>1. r = <<r[1], r[2]>> /\ r[1] \in S /\ r[2] \in Nat /\ progress[r[1]] \in Nat
      BY <1>1, <2>1
    <3>2. CASE r[1] = t
      <4>1. progress'[r[1]] = progress[t] + 1
        BY <1>1, <3>2
      <4>2. r = new <=> r[2] = progress[t] + 1
        BY <3>1, <3>2
      <4> QED
        BY <1>2, <3>1, <3>2, <4>1, <4>2
    <3>3. CASE r[1] # t
      <4>1. progress'[r[1]] = progress[r[1]] /\ r # new
        BY <1>1, <3>1, <3>3
      <4> QED
        BY <4>1
    <3> QED
      BY <3>2, <3>3
  <2>2. new \in S \X (1..total)
    BY <1>2
  <2> QED
    BY <2>1, <2>2 DEF Made
<1> QED
  BY <1>3, <1>4, <1>5, FS_AddElement

(* Others are not counted. *)
LEMMA MadeSame ==
  ASSUME NEW S, NEW total, \A t \in S : progress'[t] = progress[t]
  PROVE  Made(S, total)' = Made(S, total)
<1>1. \A r \in S \X (1..total) : progress'[r[1]] = progress[r[1]]
  OBVIOUS
<1> QED
  BY <1>1 DEF Made

LEMMA InitBalanced == Init => Balanced
<1> SUFFICES ASSUME Init PROVE Balanced
  OBVIOUS
<1>1. /\ progress = [t \in Tasks |-> 0] /\ Len(state) = 0 /\ Len(queue) = 0
  BY DEF Init
<1>2. ASSUME NEW S \in {Producers, Consumers}, NEW total
      PROVE  Made(S, total) = {}
  BY <1>1, TaskFacts DEF Made
<1>3. Cardinality({}) = 0
  BY FS_EmptySet
<1>4. Made(Producers, ItemsEach) = {} /\ Made(Consumers, Target) = {}
  BY <1>2
<1> QED
  BY <1>1, <1>3, <1>4 DEF Balanced

(* Every put and every get of the channel keeps the books. *)
LEMMA NextBalanced == IInv /\ Balanced /\ [Next]_vars => Balanced'
<1> SUFFICES ASSUME IInv, Balanced, [Next]_vars PROVE Balanced'
  OBVIOUS
<1>1. /\ progress \in [Tasks -> Nat] /\ state \in Seq(Items) /\ queue \in Seq(Items)
      /\ Len(state) \in Nat /\ Len(queue) \in Nat
      /\ ItemsEach \in Nat /\ Target \in Nat
  BY SizeAssumption DEF IInv, Types
<1>2. Channel!Next \/ UNCHANGED <<queue, state, progress>>
  BY StepRefines DEF Channel!chan
<1>3. /\ Cardinality(Made(Producers, ItemsEach)) = Len(state) + Len(queue)
      /\ Cardinality(Made(Consumers, Target)) = Len(state)
  BY DEF Balanced
<1>4. ASSUME NEW p \in Producers, Channel!Put(p) PROVE Balanced'
  <2>1. /\ progress[p] < ItemsEach
        /\ progress' = [progress EXCEPT ![p] = @ + 1]
        /\ queue' = Append(queue, <<p, progress[p] + 1>>) /\ state' = state
    BY <1>4 DEF Channel!Put
  <2>2. \A c \in Consumers : progress'[c] = progress[c]
    BY <1>1, <2>1, TaskFacts
  <2>3. Cardinality(Made(Producers, ItemsEach)')
          = Cardinality(Made(Producers, ItemsEach)) + 1
    BY <1>1, <2>1, MadeMore
  <2>4. Made(Consumers, Target)' = Made(Consumers, Target)
    BY <2>2, MadeSame
  <2>5. Len(queue') = Len(queue) + 1
    BY <1>1, <2>1
  <2> QED
    BY <1>1, <1>3, <2>1, <2>3, <2>4, <2>5 DEF Balanced
<1>5. ASSUME NEW c \in Consumers, Channel!Get(c) PROVE Balanced'
  <2>1. /\ progress[c] < Target
        /\ progress' = [progress EXCEPT ![c] = @ + 1]
        /\ queue # <<>> /\ queue' = Tail(queue) /\ state' = Append(state, Head(queue))
    BY <1>5 DEF Channel!Get
  <2>2. \A p \in Producers : progress'[p] = progress[p]
    BY <1>1, <2>1, TaskFacts
  <2>3. Cardinality(Made(Consumers, Target)')
          = Cardinality(Made(Consumers, Target)) + 1
    BY <1>1, <2>1, MadeMore
  <2>4. Made(Producers, ItemsEach)' = Made(Producers, ItemsEach)
    BY <2>2, MadeSame
  <2>5. Len(queue') = Len(queue) - 1 /\ Len(state') = Len(state) + 1
    BY <1>1, <2>1
  <2> QED
    BY <1>1, <1>3, <2>3, <2>4, <2>5 DEF Balanced
<1>6. CASE UNCHANGED <<queue, state, progress>>
  BY <1>6 DEF Balanced, Made
<1> QED
  BY <1>2, <1>4, <1>5, <1>6 DEF Channel!Next

(* The rounds made are all rounds exactly when every task has made its.    *)
LEMMA AllMade ==
  ASSUME NEW S \in {Producers, Consumers}, NEW total \in Nat \ {0},
         progress \in [Tasks -> Nat]
  PROVE  /\ Cardinality(Made(S, total)) \in Nat
         /\ Cardinality(Made(S, total)) <= Cardinality(S) * total
         /\ (\A t \in S : progress[t] >= total)
               => Cardinality(Made(S, total)) = Cardinality(S) * total
         /\ (\E t \in S : progress[t] < total)
               => Cardinality(Made(S, total)) # Cardinality(S) * total
<1> DEFINE all == S \X (1..total)
<1>1. S \subseteq Tasks /\ IsFiniteSet(S)
  BY TaskFacts, FiniteTasks
<1>2. IsFiniteSet(1..total) /\ Cardinality(1..total) = total
  <2>1. 1 \in Int /\ total \in Int
    OBVIOUS
  <2>2. /\ IsFiniteSet(1..total)
        /\ Cardinality(1..total) = IF 1 > total THEN 0 ELSE total - 1 + 1
    BY <2>1, FS_Interval
  <2> QED
    BY <2>2
<1>3. IsFiniteSet(all) /\ Cardinality(all) = Cardinality(S) * total
  BY <1>1, <1>2, FS_Product
<1>4. Made(S, total) \in SUBSET all
  BY DEF Made
<1> HIDE DEF all
<1>5. /\ IsFiniteSet(Made(S, total))
      /\ Cardinality(Made(S, total)) <= Cardinality(all)
      /\ Cardinality(all) = Cardinality(Made(S, total)) => all = Made(S, total)
  BY <1>3, <1>4, FS_Subset
<1>6. Cardinality(Made(S, total)) \in Nat
  BY <1>5, FS_CardinalityType
<1>7. ASSUME \A t \in S : progress[t] >= total
      PROVE  Made(S, total) = all
  <2>1. ASSUME NEW r \in all PROVE r \in Made(S, total)
    <3>1. r[1] \in S /\ r[2] \in 1..total /\ r \in S \X (1..total)
      BY <2>1 DEF all
    <3>2. progress[r[1]] \in Nat /\ progress[r[1]] >= total
      BY <1>1, <1>7, <3>1
    <3>3. r[2] <= progress[r[1]]
      BY <3>1, <3>2
    <3> QED
      BY <3>1, <3>3 DEF Made
  <2> QED
    BY <1>4, <2>1
<1>8. ASSUME NEW t \in S, progress[t] < total
      PROVE  all # Made(S, total)
  <2>1. <<t, total>> \in all /\ progress[t] \in Nat
    BY <1>1 DEF all
  <2>2. <<t, total>> \notin Made(S, total)
    BY <1>8, <2>1 DEF Made
  <2> QED
    BY <2>1, <2>2
<1> QED
  BY <1>3, <1>5, <1>6, <1>7, <1>8

(* As many tasks as their constants say. *)
LEMMA TaskCount ==
  Cardinality(Producers) = NumProducers /\ Cardinality(Consumers) = NumConsumers
<1>1. NumProducers \in Nat \ {0} /\ NumConsumers \in Nat \ {0}
  BY SizeAssumption
<1>2. /\ 1 \in Int /\ NumProducers \in Int
      /\ NumProducers + 1 \in Int /\ NumProducers + NumConsumers \in Int
  BY <1>1
<1>3. Cardinality(1..NumProducers) = IF 1 > NumProducers THEN 0 ELSE NumProducers - 1 + 1
  BY <1>2, FS_Interval
<1>4. Cardinality(NumProducers + 1 .. NumProducers + NumConsumers) = NumConsumers
  <2> DEFINE a == NumProducers + 1
             b == NumProducers + NumConsumers
  <2>1. a \in Int /\ b \in Int /\ ~(a > b) /\ b - a + 1 = NumConsumers
    BY <1>1
  <2> HIDE DEF a, b
  <2>2. Cardinality(a..b) = IF a > b THEN 0 ELSE b - a + 1
    BY <2>1, FS_Interval
  <2> QED
    BY <2>1, <2>2 DEF a, b
<1> QED
  BY <1>1, <1>3, <1>4 DEF Producers, Consumers

(***************************************************************************)
(* The loop never runs dry before everybody is done: when no handle is     *)
(* left, the caller has returned and every item is in the list.            *)
(***************************************************************************)
DoneWhenIdle ==
  ready = <<>> /\ running = Nobody =>
    pc[Main] = "done" /\ Len(state) = NumProducers * ItemsEach

THEOREM NeverStuck == Spec => []DoneWhenIdle
<1>1. IInv /\ Balanced => DoneWhenIdle
  <2>1. SUFFICES ASSUME IInv, Balanced, ready = <<>>, running = Nobody
                 PROVE  pc[Main] = "done" /\ Len(state) = NumProducers * ItemsEach
    BY DEF DoneWhenIdle
  <2> DEFINE made  == Cardinality(Made(Producers, ItemsEach))
             taken == Cardinality(Made(Consumers, Target))
             all   == NumProducers * ItemsEach
  <2>2. /\ Types /\ Rounds /\ OnePlace /\ SomePlace /\ MainWaits /\ NoLostWakeup
        /\ made = Len(state) + Len(queue) /\ taken = Len(state)
    BY <2>1 DEF IInv, Balanced
  <2>3. \A x : ~InSeq(x, ready)
    BY <2>1, QueueShort
  <2>4. pc[Main] # "start"
    BY <2>2, <2>3 DEF MainWaits
  <2>5. /\ progress \in [Tasks -> Nat] /\ Len(state) \in Nat /\ Len(queue) \in Nat
        /\ getters \in Seq(Consumers) /\ putters \in Seq(Producers)
        /\ ItemsEach \in Nat \ {0} /\ Target \in Nat \ {0} /\ maxsize \in Nat \ {0}
    BY <2>2, SizeAssumption DEF Types
  <2>6. /\ made \in Nat /\ made <= all
        /\ (\A p \in Producers : progress[p] >= ItemsEach) => made = all
    BY <2>5, AllMade, TaskCount
  <2>7. /\ taken \in Nat /\ taken <= all
        /\ (\A c \in Consumers : progress[c] >= Target) => taken = all
        /\ (\E c \in Consumers : progress[c] < Target) => taken # all
    BY <2>5, AllMade, TaskCount, BalanceAssumption
  <2>8. Moving(Producers) = 0 /\ Moving(Consumers) = 0
    <3>1. ASSUME NEW S \in {Producers, Consumers} PROVE Moving(S) = 0
      <4>1. Awake(S) = {}
        BY <2>1, <2>3, TaskFacts DEF Awake, IsReady, InSeq
      <4> QED
        BY <4>1, AwakeFinite, FS_EmptySet
    <3> QED
      BY <3>1
  <2>9. \A t \in Tasks : \/ pc[t] = "done" /\ t \in gathered
                         \/ pc[t] = "loop" /\ (InSeq(t, getters) \/ InSeq(t, putters))
    BY <2>1, <2>2, <2>3, <2>4, TaskFacts DEF SomePlace, OnePlace
  <2>10. /\ \A t : InSeq(t, getters) => t \in Consumers /\ getters # <<>>
         /\ \A t : InSeq(t, putters) => t \in Producers /\ putters # <<>>
    BY <2>2, WaitersAre, QueueShort
  <2>11. \A t \in Tasks : /\ pc[t] = "done" => progress[t] = Total(t)
                          /\ pc[t] = "loop" => progress[t] < Total(t)
    BY <2>2, TaskFacts DEF Rounds
  <2> HIDE DEF made, taken, all
  <2>12. getters = <<>>
    <3>1. SUFFICES ASSUME getters # <<>> PROVE FALSE
      OBVIOUS
    <3>2. Len(queue) = 0
      BY <2>2, <2>5, <2>8, <3>1 DEF NoLostWakeup
    <3>3. putters = <<>>
      BY <2>2, <2>5, <2>8, <3>2 DEF NoLostWakeup
    <3>4. \A p \in Producers : progress[p] >= ItemsEach
      <4>1. ASSUME NEW p \in Producers PROVE progress[p] >= ItemsEach
        <5>1. p \in Tasks /\ p \notin Consumers /\ Total(p) = ItemsEach
          BY TaskFacts
        <5>2. pc[p] = "done"
          BY <2>9, <2>10, <3>3, <5>1
        <5>3. progress[p] = ItemsEach
          BY <2>11, <5>1, <5>2
        <5> QED
          BY <2>5, <5>3
      <4> QED
        BY <4>1
    <3>5. \E c \in Consumers : progress[c] < Target
      <4> DEFINE c == getters[1]
      <4>1. c \in Consumers /\ InSeq(c, getters)
        <5>1. 1 \in 1..Len(getters)
          BY <2>5, <3>1
        <5> QED
          BY <2>5, <5>1 DEF InSeq
      <4> HIDE DEF c
      <4>2. c \in Tasks /\ Total(c) = Target
        BY <4>1, TaskFacts
      <4>3. pc[c] = "loop"
        BY <2>2, <4>1, <4>2 DEF OnePlace
      <4> QED
        BY <2>11, <4>1, <4>2, <4>3
    <3> QED
      BY <2>2, <2>5, <2>6, <2>7, <3>2, <3>4, <3>5
  <2>13. \A c \in Consumers : progress[c] >= Target
    <3>1. ASSUME NEW c \in Consumers PROVE progress[c] >= Target
      <4>1. c \in Tasks /\ c \notin Producers /\ Total(c) = Target
        BY TaskFacts
      <4>2. pc[c] = "done"
        BY <2>9, <2>10, <2>12, <4>1
      <4>3. progress[c] = Target
        BY <2>11, <4>1, <4>2
      <4> QED
        BY <2>5, <4>3
    <3> QED
      BY <3>1
  <2>14. Len(state) = all /\ Len(queue) = 0
    BY <2>2, <2>5, <2>6, <2>7, <2>13
  <2>15. putters = <<>>
    BY <2>2, <2>5, <2>8, <2>14 DEF NoLostWakeup
  <2>16. gathered = Tasks
    BY <2>2, <2>9, <2>10, <2>12, <2>15 DEF Types
  <2>17. pc[Main] = "done"
    BY <2>2, <2>3, <2>4, <2>16 DEF MainWaits
  <2> QED
    BY <2>14, <2>17 DEF all
<1> QED
  BY <1>1, InitIInv, NextIInv, InitBalanced, NextBalanced, PTL DEF Spec
=============================================================================
