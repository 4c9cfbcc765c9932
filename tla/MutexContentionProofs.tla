------------------------ MODULE MutexContentionProofs ------------------------
(***************************************************************************)
(* Proofs about MutexContention, for every number of tasks, every delay    *)
(* and every lateness of the loop.                                         *)
(***************************************************************************)
EXTENDS MutexContention, EventLoopProofs

Coroutines == {Main} \union Tasks

(***************************************************************************)
(* The inductive invariant, in parts.                                      *)
(***************************************************************************)

\* No handle is queued twice, no callback is scheduled twice, and only the
\* sleeps of tasks are timers.
Queues ==
  /\ Unique(ready)
  /\ IsFiniteSet(timers)
  /\ \A t \in timers : \E x \in Tasks : t.handle = Fire(x)
  /\ \A t, u \in timers : t.handle = u.handle => t = u

\* A handle is somewhere only when its task can make use of it, and the
\* handles that resume a sleeping task exclude each other.
HandlesMakeSense ==
  \A t \in Tasks :
    /\ InSeq(Step(t), ready) =>
         \/ pc[t] \in {"start", "sleeping"}
         \/ pc[t] = "waiting" /\ t \in woken
    /\ InSeq(Fire(t), ready) \/ IsPending(Fire(t)) =>
         pc[t] = "sleeping" /\ ~InSeq(Step(t), ready)
    /\ ~(InSeq(Fire(t), ready) /\ IsPending(Fire(t)))
    /\ InSeq(DoneCb(t), ready) => pc[t] = "done" /\ t \notin gathered
    /\ pc[t] # "gather"
    /\ t \in gathered => pc[t] = "done"

\* The caller runs alone first, and then again only after the last child.
MainWaits ==
  /\ pc[Main] \in {"start", "gather", "done"}
  /\ pc[Main] = "start" =>
       /\ \A t \in Tasks : pc[t] = "start"
       /\ \A t \in Tasks : ~InSeq(Step(t), ready)
  /\ InSeq(Step(Main), ready) => pc[Main] = "start" \/ gathered = Tasks

\* At most one waiter is woken, the first one, while the lock is free.
WokenIsFirst ==
  \A t \in woken :
    /\ pc[t] = "waiting"
    /\ ~locked
    /\ waiters # <<>>
    /\ t = Head(waiters)
    /\ InSeq(Step(t), ready)

FreeMeansWoken ==
  ~locked /\ waiters # <<>> => Head(waiters) \in woken

WaitersWait ==
  /\ Unique(waiters)
  /\ \A t \in Tasks : pc[t] = "waiting" <=> InSeq(t, waiters)

\* The value read inside the critical section is still the counter's.
NothingStale == \A t \in Tasks : Inside(t) => current[t] = shared_resource

ReturnsOnlyNumTasks == returned \in {-1, num_tasks}

IInv ==
  /\ TypeOK
  /\ Queues
  /\ HandlesMakeSense
  /\ MainWaits
  /\ WokenIsFirst
  /\ FreeMeansWoken
  /\ WaitersWait
  /\ MutualExclusion
  /\ NothingStale
  /\ NoLostUpdate
  /\ ReturnsOnlyNumTasks

USE NumTasksAssumption
-----------------------------------------------------------------------------
(* The handles, without their representation. *)
LEMMA HandleFacts ==
  /\ \A t \in Coroutines : Step(t) \in Handles
  /\ \A t \in Tasks : Fire(t) \in Handles /\ DoneCb(t) \in Handles
  /\ Main \notin Tasks
  /\ Tasks \subseteq Nat
BY DEF Handles, Coroutines, Main, Tasks


(* The finished tasks are finitely many, at most all. *)
LEMMA DoneFacts ==
  ASSUME TypeOK
  PROVE  /\ IsFiniteSet(Tasks) /\ Cardinality(Tasks) = num_tasks
         /\ IsFiniteSet(Done) /\ Cardinality(Done) \in Nat
<1>1. IsFiniteSet(Tasks) /\ Cardinality(Tasks) = num_tasks
  BY FS_Interval DEF Tasks
<1>2. Done \subseteq Tasks
  BY DEF Done
<1> QED
  BY <1>1, <1>2, FS_Subset, FS_CardinalityType

(* Falling asleep adds the one timer of the task. *)
LEMMA EnterFacts ==
  ASSUME IInv, NEW t \in Tasks, pc[t] # "sleeping", Enter(t)
  PROVE  /\ timers' \subseteq [left : Int, handle : Handles]
         /\ IsFiniteSet(timers')
         /\ \A k \in timers' : \E x \in Tasks : k.handle = Fire(x)
         /\ \A k, l \in timers' : k.handle = l.handle => k = l
         /\ \A u \in Tasks : IsPending(Fire(u))' <=> IsPending(Fire(u)) \/ u = t
<1> DEFINE new == Timer(Delay, Fire(t))
<1>1. timers' = timers \union {new}
  BY DEF Enter
<1>2. new.handle = Fire(t) /\ new \in [left : Int, handle : Handles]
  BY HandleFacts, DelayAssumption DEF Timer
<1>3. \A k \in timers : k.handle # Fire(t)
  BY DEF IInv, HandlesMakeSense, IsPending
<1> HIDE DEF new
<1>4. IsFiniteSet(timers')
  BY <1>1, FS_AddElement DEF IInv, Queues
<1>5. \A u \in Tasks : IsPending(Fire(u))' <=> IsPending(Fire(u)) \/ u = t
  BY <1>1, <1>2, HandlesDiffer DEF IsPending
<1> QED
  BY <1>1, <1>2, <1>3, <1>4, <1>5 DEF IInv, Queues, TypeOK
-----------------------------------------------------------------------------
(* The invariant holds initially. *)
LEMMA InitIInv == Init => IInv
<1> SUFFICES ASSUME Init PROVE IInv
  OBVIOUS
<1> USE DEF Init, LoopInit
<1>1. /\ Step(Main) \in Handles
      /\ ready = <<Step(Main)>>
      /\ Unique(ready)
      /\ \A x : InSeq(x, ready) <=> x = Step(Main)
  BY HandleFacts, QueueShort DEF Coroutines
<1>2. TypeOK
  <2>1. ready \in Seq(Handles) /\ todo \in 0..Len(ready)
    BY <1>1
  <2>2. waiters \in Seq(Tasks)
    OBVIOUS
  <2>3. pc \in [Coroutines -> {"start", "gather", "waiting", "sleeping", "done"}]
    BY DEF Coroutines
  <2> QED
    BY <2>1, <2>2, <2>3 DEF TypeOK, Coroutines
<1>3. Queues
  BY <1>1, FS_EmptySet DEF Queues
<1>4. HandlesMakeSense
  BY <1>1, HandlesDiffer, HandleFacts DEF HandlesMakeSense, IsPending
<1>5. MainWaits
  BY <1>1, HandlesDiffer, HandleFacts DEF MainWaits
<1>6. WokenIsFirst /\ FreeMeansWoken
  BY DEF WokenIsFirst, FreeMeansWoken
<1>7. WaitersWait
  BY QueueShort DEF WaitersWait
<1>8. MutualExclusion /\ NothingStale
  BY DEF MutualExclusion, NothingStale, Inside
<1>9. NoLostUpdate
  <2>1. Done = {}
    BY DEF Done
  <2> QED
    BY <2>1, FS_EmptySet DEF NoLostUpdate
<1> QED
  BY <1>2, <1>3, <1>4, <1>5, <1>6, <1>7, <1>8, <1>9 DEF IInv, ReturnsOnlyNumTasks

(* AcquireFree: nobody is inside and nobody is woken. *)
LEMMA AcquireFreeIInv ==
  ASSUME IInv, NEW t \in Tasks, AcquireFree(t)
  PROVE  IInv'
<1> USE DEF AcquireFree
<1>1. /\ ready' \in Seq(Handles)
      /\ todo' \in 0..Len(ready')
      /\ Unique(ready')
      /\ InSeq(Step(t), ready)
      /\ \A x : InSeq(x, ready') <=> InSeq(x, ready) /\ x # Step(t)
  BY RunNothing DEF IInv, TypeOK, Queues
<1>2. /\ timers' \subseteq [left : Int, handle : Handles]
      /\ IsFiniteSet(timers')
      /\ \A k \in timers' : \E x \in Tasks : k.handle = Fire(x)
      /\ \A k, l \in timers' : k.handle = l.handle => k = l
      /\ \A u \in Tasks : IsPending(Fire(u))' <=> IsPending(Fire(u)) \/ u = t
  BY EnterFacts
<1>3. /\ pc' = [pc EXCEPT ![t] = "sleeping"]
      /\ current' = [current EXCEPT ![t] = shared_resource]
      /\ locked'
      /\ woken = {}
      /\ \A u \in Tasks : pc[u] # "sleeping"
  BY DEF Enter, IInv, WokenIsFirst, MutualExclusion, Inside
<1>4. TypeOK'
  BY <1>1, <1>2, <1>3 DEF IInv, TypeOK, Enter
<1>5. Queues'
  BY <1>1, <1>2 DEF Queues
<1>6. HandlesMakeSense'
  BY <1>1, <1>2, <1>3, HandlesDiffer DEF IInv, TypeOK, HandlesMakeSense
<1>7. MainWaits'
  BY <1>1, <1>3, HandleFacts DEF IInv, TypeOK, MainWaits
<1>8. WokenIsFirst' /\ FreeMeansWoken'
  BY <1>3 DEF WokenIsFirst, FreeMeansWoken
<1>9. WaitersWait'
  BY <1>3 DEF IInv, TypeOK, WaitersWait
<1>10. MutualExclusion' /\ NothingStale'
  BY <1>3 DEF IInv, TypeOK, MutualExclusion, NothingStale, Inside
<1>11. NoLostUpdate'
  <2>1. Done' = Done
    BY <1>3 DEF IInv, TypeOK, Done
  <2> QED
    BY <2>1 DEF IInv, NoLostUpdate
<1> QED
  BY <1>4, <1>5, <1>6, <1>7, <1>8, <1>9, <1>10, <1>11
     DEF IInv, ReturnsOnlyNumTasks

(* AcquireWait: the task joins the end of the FIFO. *)
LEMMA AcquireWaitIInv ==
  ASSUME IInv, NEW t \in Tasks, AcquireWait(t)
  PROVE  IInv'
<1> USE DEF AcquireWait
<1>1. /\ ready' \in Seq(Handles)
      /\ todo' \in 0..Len(ready')
      /\ Unique(ready')
      /\ InSeq(Step(t), ready)
      /\ \A x : InSeq(x, ready') <=> InSeq(x, ready) /\ x # Step(t)
  BY RunNothing DEF IInv, TypeOK, Queues
<1>2. /\ waiters' \in Seq(Tasks)
      /\ waiters' # <<>>
      /\ waiters # <<>> => Head(waiters') = Head(waiters)
      /\ Unique(waiters')
      /\ \A x : InSeq(x, waiters') <=> InSeq(x, waiters) \/ x = t
  <2>1. waiters \in Seq(Tasks) /\ Unique(waiters) /\ ~InSeq(t, waiters)
    BY DEF IInv, TypeOK, WaitersWait
  <2> DEFINE n == <<t>>
  <2>2. n \in Seq(Tasks) /\ Unique(n) /\ \A x : InSeq(x, n) <=> x = t
    BY QueueShort
  <2>3. waiters' = waiters \o n
    BY <2>1
  <2>4. waiters' # <<>> /\ (waiters # <<>> => Head(waiters') = Head(waiters))
    BY <2>1
  <2> HIDE DEF n
  <2> QED
    BY <2>1, <2>2, <2>3, <2>4, QueueAppend
<1>3. TypeOK'
  BY <1>1, <1>2 DEF IInv, TypeOK
<1>4. Queues'
  BY <1>1 DEF IInv, Queues
<1>5. HandlesMakeSense'
  BY <1>1, HandlesDiffer DEF IInv, TypeOK, HandlesMakeSense, IsPending
<1>6. MainWaits'
  BY <1>1, HandleFacts DEF IInv, TypeOK, MainWaits
<1>7. WokenIsFirst' /\ FreeMeansWoken'
  BY <1>1, <1>2, HandlesDiffer
     DEF IInv, TypeOK, WokenIsFirst, FreeMeansWoken
<1>8. WaitersWait'
  BY <1>2 DEF IInv, TypeOK, WaitersWait
<1>9. MutualExclusion' /\ NothingStale'
  BY DEF IInv, TypeOK, MutualExclusion, NothingStale, Inside
<1>10. NoLostUpdate'
  <2>1. Done' = Done
    BY DEF IInv, TypeOK, Done
  <2> QED
    BY <2>1 DEF IInv, NoLostUpdate
<1> QED
  BY <1>3, <1>4, <1>5, <1>6, <1>7, <1>8, <1>9, <1>10
     DEF IInv, ReturnsOnlyNumTasks

(* Removing the first member leaves the tail. *)
LEMMA RemoveHead ==
  ASSUME NEW S, NEW s \in Seq(S), Unique(s), NEW i \in 1..Len(s), s[i] = Head(s)
  PROVE  RemoveAt(s, i) = Tail(s)
<1>1. i = 1
  BY DEF Unique
<1> QED
  BY <1>1 DEF RemoveAt

(* AcquireWoken: the woken task is the first waiter and the lock is free. *)
LEMMA AcquireWokenIInv ==
  ASSUME IInv, NEW t \in Tasks, AcquireWoken(t)
  PROVE  IInv'
<1> USE DEF AcquireWoken
<1>1. /\ ready' \in Seq(Handles)
      /\ todo' \in 0..Len(ready')
      /\ Unique(ready')
      /\ InSeq(Step(t), ready)
      /\ \A x : InSeq(x, ready') <=> InSeq(x, ready) /\ x # Step(t)
  BY RunNothing DEF IInv, TypeOK, Queues
<1>2. /\ timers' \subseteq [left : Int, handle : Handles]
      /\ IsFiniteSet(timers')
      /\ \A k \in timers' : \E x \in Tasks : k.handle = Fire(x)
      /\ \A k, l \in timers' : k.handle = l.handle => k = l
      /\ \A u \in Tasks : IsPending(Fire(u))' <=> IsPending(Fire(u)) \/ u = t
  BY EnterFacts
<1>3. /\ waiters # <<>>
      /\ t = Head(waiters)
      /\ ~locked
      /\ woken' = {}
  BY <1>1 DEF IInv, HandlesMakeSense, WokenIsFirst
<1>4. /\ pc' = [pc EXCEPT ![t] = "sleeping"]
      /\ current' = [current EXCEPT ![t] = shared_resource]
      /\ locked'
      /\ \A u \in Tasks : pc[u] # "sleeping"
  BY <1>3 DEF Enter, IInv, MutualExclusion, Inside
<1>5. waiters' = Tail(waiters)
  BY <1>3, RemoveHead DEF IInv, TypeOK, WaitersWait
<1>6. /\ waiters' \in Seq(Tasks)
      /\ Unique(waiters')
      /\ \A x : InSeq(x, waiters') <=> InSeq(x, waiters) /\ x # t
  BY <1>3, <1>5, QueueTail DEF IInv, TypeOK, WaitersWait
<1>7. TypeOK'
  BY <1>1, <1>2, <1>3, <1>4, <1>6 DEF IInv, TypeOK
<1>8. Queues'
  BY <1>1, <1>2 DEF Queues
<1>9. HandlesMakeSense'
  <2>1. \A u \in woken : u = t
    BY <1>3 DEF IInv, WokenIsFirst
  <2> QED
    BY <2>1, <1>1, <1>2, <1>4, HandlesDiffer DEF IInv, TypeOK, HandlesMakeSense
<1>10. MainWaits'
  BY <1>1, <1>4, HandleFacts DEF IInv, TypeOK, MainWaits
<1>11. WokenIsFirst' /\ FreeMeansWoken'
  BY <1>3, <1>4 DEF WokenIsFirst, FreeMeansWoken
<1>12. WaitersWait'
  BY <1>4, <1>6 DEF IInv, TypeOK, WaitersWait
<1>13. MutualExclusion' /\ NothingStale'
  BY <1>4 DEF IInv, TypeOK, MutualExclusion, NothingStale, Inside
<1>14. NoLostUpdate'
  <2>1. Done' = Done
    BY <1>4 DEF IInv, TypeOK, Done
  <2> QED
    BY <2>1 DEF IInv, NoLostUpdate
<1> QED
  BY <1>7, <1>8, <1>9, <1>10, <1>11, <1>12, <1>13, <1>14
     DEF IInv, ReturnsOnlyNumTasks

(* SleepOver: the timer's callback makes the task ready. *)
LEMMA SleepOverIInv ==
  ASSUME IInv, NEW t \in Tasks, SleepOver(t)
  PROVE  IInv'
<1> USE DEF SleepOver, programVars
<1>1. Step(t) \in Handles
  BY HandleFacts DEF Coroutines
<1>2. RunHandle(Fire(t), <<Step(t)>>) /\ InSeq(Fire(t), ready)
  BY DEF RunHandle, InSeq, IInv, TypeOK
<1>3. ~InSeq(Step(t), ready) /\ pc[t] = "sleeping"
  BY <1>2 DEF IInv, HandlesMakeSense
<1>4. /\ ready' \in Seq(Handles)
      /\ todo' \in 0..Len(ready')
      /\ Unique(ready')
      /\ \A x : InSeq(x, ready')
                  <=> (InSeq(x, ready) /\ x # Fire(t)) \/ x = Step(t)
  BY <1>1, <1>2, <1>3, RunOne DEF IInv, TypeOK, Queues
<1>5. TypeOK' /\ Queues'
  BY <1>4 DEF IInv, TypeOK, Queues
<1>6. HandlesMakeSense'
  BY <1>2, <1>3, <1>4, HandlesDiffer DEF IInv, TypeOK, HandlesMakeSense, IsPending
<1>7. MainWaits'
  BY <1>3, <1>4, HandlesDiffer, HandleFacts DEF IInv, TypeOK, MainWaits
<1>8. WokenIsFirst'
  BY <1>4, HandlesDiffer DEF IInv, WokenIsFirst
<1>9. /\ FreeMeansWoken' /\ WaitersWait' /\ MutualExclusion' /\ NothingStale'
      /\ NoLostUpdate' /\ ReturnsOnlyNumTasks'
  BY DEF IInv, FreeMeansWoken, WaitersWait, MutualExclusion, NothingStale,
         NoLostUpdate, ReturnsOnlyNumTasks, Inside, Done
<1> QED
  BY <1>5, <1>6, <1>7, <1>8, <1>9 DEF IInv

(* Leave: the value written back is one more than the counter, and the     *)
(* first waiter is woken.                                                  *)
LEMMA LeaveReady ==
  ASSUME IInv, NEW t \in Tasks, Leave(t)
  PROVE  /\ ready' \in Seq(Handles)
         /\ todo' \in 0..Len(ready')
         /\ Unique(ready')
         /\ InSeq(Step(t), ready)
         /\ \A x : InSeq(x, ready') <=>
                     \/ InSeq(x, ready) /\ x # Step(t)
                     \/ x = DoneCb(t)
                     \/ waiters # <<>> /\ x = Step(Head(waiters))
         /\ woken' = IF waiters # <<>> THEN {Head(waiters)} ELSE {}
         /\ waiters # <<>> => Head(waiters) \in Tasks /\ pc[Head(waiters)] = "waiting"
<1>1. /\ pc[t] = "sleeping"
      /\ locked
      /\ woken = {}
  BY DEF Leave, IInv, MutualExclusion, WokenIsFirst, Inside
<1>2. DoneCb(t) \in Handles /\ ~InSeq(DoneCb(t), ready)
  BY <1>1, HandleFacts DEF IInv, HandlesMakeSense
<1>3. /\ ready \in Seq(Handles)
      /\ todo \in 0..Len(ready)
      /\ Unique(ready)
      /\ waiters \in Seq(Tasks)
  BY DEF IInv, TypeOK, Queues
<1>4. CASE waiters = <<>>
  <2>1. ToWake = <<>> /\ [i \in DOMAIN ToWake |-> Step(ToWake[i])] = <<>>
    BY <1>4 DEF ToWake
  <2>2. RunHandle(Step(t), <<DoneCb(t)>>) /\ woken' = {}
    BY <1>1, <2>1 DEF Leave
  <2> QED
    BY <1>2, <1>3, <1>4, <2>2, RunOne
<1>5. CASE waiters # <<>>
  <2> DEFINE k == Step(Head(waiters))
             first == <<k>>
             last == <<DoneCb(t)>>
             new == first \o last
  <2>1. /\ Head(waiters) \in Tasks
        /\ pc[Head(waiters)] = "waiting"
    <3>1. Head(waiters) \in Tasks /\ InSeq(Head(waiters), waiters)
      BY <1>3, <1>5, QueueTail DEF IInv, WaitersWait
    <3> QED
      BY <3>1 DEF IInv, WaitersWait
  <2>2. k \in Handles /\ ~InSeq(k, ready) /\ k # DoneCb(t)
    BY <1>1, <2>1, HandleFacts, HandlesDiffer DEF IInv, HandlesMakeSense, Coroutines
  <2>3. ToWake = <<Head(waiters)>>
    BY <1>1, <1>5 DEF ToWake
  <2>4. [i \in DOMAIN ToWake |-> Step(ToWake[i])] = <<k>>
    BY <2>3
  <2>5. woken' = {Head(waiters)}
    BY <1>1, <2>3 DEF Leave
  <2>6. RunHandle(Step(t), new)
    BY <2>4 DEF Leave
  <2> HIDE DEF k
  <2>7. /\ new \in Seq(Handles)
        /\ Unique(new)
        /\ \A x : InSeq(x, new) <=> x = k \/ x = DoneCb(t)
    <3>1. /\ first \in Seq(Handles) /\ Unique(first)
          /\ last \in Seq(Handles) /\ Unique(last)
          /\ \A x : InSeq(x, first) <=> x = k
          /\ \A x : InSeq(x, last) <=> x = DoneCb(t)
      BY <1>2, <2>2, QueueShort
    <3> HIDE DEF first, last
    <3> QED
      BY <2>2, <3>1, QueueAppend
  <2> HIDE DEF new
  <2>8. /\ ready' \in Seq(Handles)
        /\ todo' \in 0..Len(ready')
        /\ Unique(ready')
        /\ InSeq(Step(t), ready)
        /\ \A x : InSeq(x, ready')
                    <=> (InSeq(x, ready) /\ x # Step(t)) \/ InSeq(x, new)
    BY <1>2, <1>3, <2>2, <2>6, <2>7, RunFacts
  <2> USE DEF k
  <2> QED
    BY <1>5, <2>1, <2>5, <2>7, <2>8
<1> QED
  BY <1>4, <1>5

(* Leave keeps the invariant. *)
LEMMA LeaveIInv ==
  ASSUME IInv, NEW t \in Tasks, Leave(t)
  PROVE  IInv'
<1>1. /\ ready' \in Seq(Handles)
      /\ todo' \in 0..Len(ready')
      /\ Unique(ready')
      /\ InSeq(Step(t), ready)
      /\ \A x : InSeq(x, ready') <=>
                  \/ InSeq(x, ready) /\ x # Step(t)
                  \/ x = DoneCb(t)
                  \/ waiters # <<>> /\ x = Step(Head(waiters))
      /\ woken' = IF waiters # <<>> THEN {Head(waiters)} ELSE {}
      /\ waiters # <<>> => Head(waiters) \in Tasks /\ pc[Head(waiters)] = "waiting"
  BY LeaveReady
<1> USE DEF Leave
<1>2. /\ pc[t] = "sleeping"
      /\ pc' = [pc EXCEPT ![t] = "done"]
      /\ current[t] = shared_resource
      /\ shared_resource' = shared_resource + 1
      /\ ~locked'
      /\ \A u \in Tasks : pc[u] = "sleeping" => u = t
      /\ t \notin gathered
      /\ pc[Main] # "start"
  BY <1>1 DEF IInv, HandlesMakeSense, MutualExclusion, NothingStale, MainWaits, Inside
<1>3. TypeOK'
  <2>1. woken' \subseteq Tasks
    BY <1>1
  <2>2. shared_resource' \in Nat
    BY <1>2 DEF IInv, TypeOK
  <2>3. pc' \in [{Main} \union Tasks ->
                  {"start", "gather", "waiting", "sleeping", "done"}]
    BY <1>2 DEF IInv, TypeOK
  <2> QED
    BY <1>1, <1>2, <2>1, <2>2, <2>3 DEF IInv, TypeOK
<1>4. Queues'
  BY <1>1 DEF IInv, Queues
<1>5. HandlesMakeSense'
  <2>1. woken = {}
    BY <1>2 DEF IInv, WokenIsFirst, MutualExclusion, Inside
  <2>2. waiters # <<>> =>
          /\ ~InSeq(Fire(Head(waiters)), ready)
          /\ ~IsPending(Fire(Head(waiters)))
    BY <1>1 DEF IInv, HandlesMakeSense
  <2>3. SUFFICES ASSUME NEW u \in Tasks
                 PROVE  /\ InSeq(Step(u), ready') =>
                              \/ pc'[u] \in {"start", "sleeping"}
                              \/ pc'[u] = "waiting" /\ u \in woken'
                        /\ InSeq(Fire(u), ready') \/ IsPending(Fire(u)) =>
                              pc'[u] = "sleeping" /\ ~InSeq(Step(u), ready')
                        /\ ~(InSeq(Fire(u), ready') /\ IsPending(Fire(u)))
                        /\ InSeq(DoneCb(u), ready') => pc'[u] = "done" /\ u \notin gathered
                        /\ pc'[u] # "gather"
                        /\ u \in gathered => pc'[u] = "done"
    BY DEF HandlesMakeSense, IsPending
  <2>4. pc'[u] = IF u = t THEN "done" ELSE pc[u]
    BY <1>2 DEF IInv, TypeOK
  <2>5. ~InSeq(Fire(t), ready) /\ ~IsPending(Fire(t))
    BY <1>1 DEF IInv, HandlesMakeSense
  <2>6. InSeq(Step(u), ready') <=>
          \/ InSeq(Step(u), ready) /\ u # t
          \/ waiters # <<>> /\ u = Head(waiters)
    BY <1>1, HandlesDiffer
  <2>7. InSeq(Fire(u), ready') <=> InSeq(Fire(u), ready)
    BY <1>1, HandlesDiffer
  <2>8. InSeq(DoneCb(u), ready') => InSeq(DoneCb(u), ready) \/ u = t
    <3>1. /\ DoneCb(u) # Step(Head(waiters))
          /\ DoneCb(u) = DoneCb(t) => u = t
      BY HandlesDiffer
    <3> QED
      BY <1>1, <3>1
  <2> QED
    BY <2>1, <2>2, <2>4, <2>5, <2>6, <2>7, <2>8, <1>1, <1>2
       DEF IInv, HandlesMakeSense
<1>6. MainWaits'
  BY <1>1, <1>2, HandlesDiffer, HandleFacts DEF IInv, TypeOK, MainWaits
<1>7. WokenIsFirst' /\ FreeMeansWoken'
  BY <1>1, <1>2 DEF IInv, TypeOK, WokenIsFirst, FreeMeansWoken
<1>8. WaitersWait'
  BY <1>2 DEF IInv, TypeOK, WaitersWait
<1>9. MutualExclusion' /\ NothingStale'
  BY <1>2 DEF IInv, TypeOK, MutualExclusion, NothingStale, Inside
<1>10. NoLostUpdate'
  <2>1. Done' = Done \union {t} /\ t \notin Done
    BY <1>2 DEF IInv, TypeOK, Done
  <2>2. IsFiniteSet(Done)
    BY DoneFacts DEF IInv
  <2>3. Cardinality(Done \union {t}) = Cardinality(Done) + 1
    BY <2>1, <2>2, FS_AddElement
  <2> QED
    BY <1>2, <2>1, <2>3 DEF IInv, NoLostUpdate
<1> QED
  BY <1>3, <1>4, <1>5, <1>6, <1>7, <1>8, <1>9, <1>10
     DEF IInv, ReturnsOnlyNumTasks

(* GatherChild: the last child makes the caller ready. *)
LEMMA GatherChildIInv ==
  ASSUME IInv, NEW t \in Tasks, GatherChild(t)
  PROVE  IInv'
<1> USE DEF GatherChild
<1>1. /\ ready' \in Seq(Handles)
      /\ todo' \in 0..Len(ready')
      /\ Unique(ready')
      /\ InSeq(DoneCb(t), ready)
      /\ \A x : InSeq(x, ready') <=>
                  \/ InSeq(x, ready) /\ x # DoneCb(t)
                  \/ gathered' = Tasks /\ x = Step(Main)
  <2>1. /\ ready \in Seq(Handles)
        /\ todo \in 0..Len(ready)
        /\ Unique(ready)
    BY DEF IInv, TypeOK, Queues
  <2>2. InSeq(DoneCb(t), ready)
    BY DEF RunHandle, InSeq, IInv, TypeOK
  <2>3. CASE gathered' = Tasks
    <3>1. t \notin gathered /\ pc[t] = "done"
      BY <2>2 DEF IInv, HandlesMakeSense
    <3>2. Step(Main) \in Handles /\ ~InSeq(Step(Main), ready)
      BY <3>1, HandleFacts DEF IInv, MainWaits, Coroutines
    <3> QED
      BY <2>1, <2>3, <3>2, RunOne
  <2>4. CASE gathered' # Tasks
    BY <2>1, <2>4, RunNothing
  <2> QED
    BY <2>3, <2>4
<1>2. pc[t] = "done" /\ t \notin gathered
  BY <1>1 DEF IInv, HandlesMakeSense
<1>3. TypeOK'
  BY <1>1 DEF IInv, TypeOK
<1>4. Queues'
  BY <1>1 DEF IInv, Queues
<1>5. HandlesMakeSense'
  BY <1>1, <1>2, HandlesDiffer, HandleFacts
     DEF IInv, TypeOK, HandlesMakeSense, IsPending
<1>6. MainWaits'
  BY <1>1, <1>2, HandlesDiffer, HandleFacts DEF IInv, TypeOK, MainWaits
<1>7. WokenIsFirst'
  BY <1>1, HandlesDiffer DEF IInv, WokenIsFirst
<1>8. /\ FreeMeansWoken' /\ WaitersWait' /\ MutualExclusion' /\ NothingStale'
      /\ NoLostUpdate' /\ ReturnsOnlyNumTasks'
  BY DEF IInv, FreeMeansWoken, WaitersWait, MutualExclusion, NothingStale,
         NoLostUpdate, ReturnsOnlyNumTasks, Inside, Done
<1> QED
  BY <1>3, <1>4, <1>5, <1>6, <1>7, <1>8 DEF IInv
-----------------------------------------------------------------------------
(* MainStart: every task is queued once. *)
LEMMA MainStartIInv ==
  ASSUME IInv, MainStart
  PROVE  IInv'
<1> USE DEF MainStart
<1> DEFINE new == [t \in Tasks |-> Step(t)]
<1>1. /\ new \in Seq(Handles)
      /\ Unique(new)
      /\ \A x : InSeq(x, new) <=> \E t \in Tasks : x = Step(t)
  <2>1. new \in Seq(Handles) /\ Len(new) = num_tasks
    BY HandleFacts DEF Tasks, Coroutines
  <2> QED
    BY <2>1, HandlesDiffer DEF Tasks, Unique, InSeq
<1>2. RunHandle(Step(Main), new)
  OBVIOUS
<1> HIDE DEF new
<1>3. /\ \A t \in Tasks : pc[t] = "start" /\ ~InSeq(Step(t), ready)
      /\ \A x : InSeq(x, new) => ~InSeq(x, ready)
  BY <1>1 DEF IInv, MainWaits
<1>4. /\ ready' \in Seq(Handles)
      /\ todo' \in 0..Len(ready')
      /\ Unique(ready')
      /\ \A x : InSeq(x, ready') <=>
                  \/ InSeq(x, ready) /\ x # Step(Main)
                  \/ \E t \in Tasks : x = Step(t)
  BY <1>1, <1>2, <1>3, RunFacts DEF IInv, TypeOK, Queues
<1>5. /\ pc' = [pc EXCEPT ![Main] = "gather"]
      /\ \A t \in Tasks : pc'[t] = pc[t]
      /\ pc'[Main] = "gather"
  BY HandleFacts DEF IInv, TypeOK
<1>6. TypeOK'
  BY <1>4 DEF IInv, TypeOK
<1>7. Queues'
  BY <1>4 DEF IInv, Queues
<1>8. HandlesMakeSense'
  BY <1>3, <1>4, <1>5, HandlesDiffer DEF IInv, HandlesMakeSense, IsPending
<1>9. MainWaits'
  BY <1>4, <1>5, HandlesDiffer, HandleFacts DEF IInv, MainWaits
<1>10. WokenIsFirst'
  BY <1>3 DEF IInv, TypeOK, WokenIsFirst
<1>11. FreeMeansWoken' /\ WaitersWait' /\ MutualExclusion' /\ NothingStale'
  BY <1>5 DEF IInv, FreeMeansWoken, WaitersWait, MutualExclusion, NothingStale,
              Inside
<1>12. NoLostUpdate'
  <2>1. Done' = Done
    BY <1>5 DEF Done
  <2> QED
    BY <2>1 DEF IInv, NoLostUpdate
<1> QED
  BY <1>6, <1>7, <1>8, <1>9, <1>10, <1>11, <1>12 DEF IInv, ReturnsOnlyNumTasks

(* MainReturn: all tasks are done, so the counter is their number. *)
LEMMA MainReturnIInv ==
  ASSUME IInv, MainReturn
  PROVE  IInv'
<1> USE DEF MainReturn
<1>1. /\ ready' \in Seq(Handles)
      /\ todo' \in 0..Len(ready')
      /\ Unique(ready')
      /\ InSeq(Step(Main), ready)
      /\ \A x : InSeq(x, ready') <=> InSeq(x, ready) /\ x # Step(Main)
  BY RunNothing DEF IInv, TypeOK, Queues
<1>2. /\ \A t \in Tasks : pc'[t] = pc[t]
      /\ pc'[Main] = "done"
      /\ pc' = [pc EXCEPT ![Main] = "done"]
  BY HandleFacts DEF IInv, TypeOK
<1>3. Done' = Done
  BY <1>2 DEF Done
<1>4. returned' = num_tasks
  <2>1. gathered = Tasks
    BY <1>1 DEF IInv, MainWaits
  <2>2. Done = Tasks
    BY <2>1 DEF IInv, HandlesMakeSense, Done
  <2> QED
    BY <2>2, DoneFacts DEF IInv, NoLostUpdate
<1>5. TypeOK'
  BY <1>1, <1>2, <1>4 DEF IInv, TypeOK
<1>6. Queues'
  BY <1>1 DEF IInv, Queues
<1>7. HandlesMakeSense'
  BY <1>1, <1>2, HandlesDiffer, HandleFacts DEF IInv, HandlesMakeSense, IsPending
<1>8. MainWaits'
  BY <1>1, <1>2 DEF IInv, MainWaits
<1>9. WokenIsFirst'
  BY <1>1, <1>2, HandlesDiffer, HandleFacts DEF IInv, TypeOK, WokenIsFirst
<1>10. /\ FreeMeansWoken' /\ WaitersWait' /\ MutualExclusion' /\ NothingStale'
       /\ NoLostUpdate' /\ ReturnsOnlyNumTasks'
  BY <1>2, <1>3, <1>4
     DEF IInv, FreeMeansWoken, WaitersWait, MutualExclusion, NothingStale,
         NoLostUpdate, ReturnsOnlyNumTasks, Inside
<1> QED
  BY <1>5, <1>6, <1>7, <1>8, <1>9, <1>10 DEF IInv

(* A poll moves handles from the timers to the ready queue. *)
LEMMA StartIterationIInv ==
  ASSUME IInv, StartIteration, UNCHANGED programVars
  PROVE  IInv'
<1> USE DEF StartIteration, programVars
<1>1. PICK q \in ByDeadline(Due) :
        /\ ready' = ready \o [i \in DOMAIN q |-> q[i].handle]
        /\ todo' = Len(ready) + Len(q)
  OBVIOUS
<1> DEFINE new == [i \in DOMAIN q |-> q[i].handle]
<1>2. /\ Due \subseteq timers
      /\ timers' \subseteq timers
      /\ IsFiniteSet(Due)
      /\ IsFiniteSet(timers')
  BY FS_Subset DEF IInv, Queues, Due
<1>3. /\ new \in Seq(Handles)
      /\ Len(new) = Len(q)
      /\ Len(q) \in Nat
      /\ Unique(new)
      /\ \A x : InSeq(x, new) => \E k \in Due : k.handle = x
  <2>1. Due \in SUBSET [left : Int, handle : Handles]
    BY <1>2 DEF IInv, TypeOK
  <2>2. \A k, l \in Due : k.handle = l.handle => k = l
    BY <1>2 DEF IInv, Queues
  <2> QED
    BY <1>2, <2>1, <2>2, Poll, SMTT(40)
<1>4. ready' = ready \o new
  BY <1>1
<1>5. /\ ready \in Seq(Handles)
      /\ Unique(ready)
      /\ Len(ready) \in Nat
  BY DEF IInv, TypeOK, Queues
<1> HIDE DEF new
<1>6. \A x : InSeq(x, new) =>
        \E u \in Tasks : x = Fire(u) /\ IsPending(Fire(u))
  BY <1>2, <1>3 DEF IInv, Queues, IsPending
<1>7. \A x : InSeq(x, new) => ~InSeq(x, ready)
  BY <1>6 DEF IInv, HandlesMakeSense
<1>8. /\ ready' \in Seq(Handles)
      /\ Len(ready') = Len(ready) + Len(new)
      /\ Unique(ready')
      /\ \A x : InSeq(x, ready') <=> InSeq(x, ready) \/ InSeq(x, new)
  BY <1>3, <1>4, <1>5, <1>7, QueueAppend
<1>9. TypeOK'
  <2>1. todo' \in 0..Len(ready')
    BY <1>1, <1>3, <1>5, <1>8
  <2> QED
    BY <2>1, <1>2, <1>8 DEF IInv, TypeOK
<1>10. Queues'
  BY <1>2, <1>8 DEF IInv, Queues
<1>11. \A u \in Tasks :
         /\ IsPending(Fire(u))' => IsPending(Fire(u)) /\ ~InSeq(Fire(u), new)
         /\ InSeq(Fire(u), new) => IsPending(Fire(u))
  <2>1. \A k \in timers', l \in Due : k.handle # l.handle
    BY <1>2 DEF IInv, Queues
  <2> QED
    BY <2>1, <1>2, <1>3 DEF IsPending
<1>12. \A u \in Tasks : ~InSeq(Step(u), new) /\ ~InSeq(DoneCb(u), new)
  BY <1>6, HandlesDiffer
<1>13. HandlesMakeSense'
  BY <1>8, <1>11, <1>12 DEF IInv, HandlesMakeSense
<1>14. MainWaits'
  <2>1. ~InSeq(Step(Main), new)
    BY <1>6, HandlesDiffer
  <2> QED
    BY <2>1, <1>8, <1>12 DEF IInv, MainWaits
<1>15. WokenIsFirst'
  BY <1>8 DEF IInv, WokenIsFirst
<1>16. /\ FreeMeansWoken' /\ WaitersWait' /\ MutualExclusion' /\ NothingStale'
       /\ NoLostUpdate' /\ ReturnsOnlyNumTasks'
  BY DEF IInv, FreeMeansWoken, WaitersWait, MutualExclusion, NothingStale,
         NoLostUpdate, ReturnsOnlyNumTasks, Inside, Done
<1> QED
  BY <1>9, <1>10, <1>13, <1>14, <1>15, <1>16 DEF IInv

(* The passing of time changes no handle. *)
LEMMA TickIInv ==
  ASSUME IInv, Tick, UNCHANGED programVars
  PROVE  IInv'
<1> USE DEF programVars
<1> DEFINE Older(k) == Timer(k.left - 1, k.handle)
           f == [k \in timers |-> Older(k)]
<1>1. timers' = {Older(k) : k \in timers} /\ UNCHANGED <<ready, todo>>
  BY DEF Tick
<1>2. \A k \in timers : /\ Older(k) \in [left : Int, handle : Handles]
                        /\ Older(k).handle = k.handle
  BY DEF IInv, TypeOK, Timer
<1> HIDE DEF Older
<1>3. IsFiniteSet(timers')
  <2>1. f \in Surjection(timers, timers')
    BY <1>1 DEF Surjection
  <2> QED
    BY <2>1, FS_Surjection DEF IInv, Queues
<1>4. TypeOK'
  <2>1. timers' \subseteq [left : Int, handle : Handles]
    BY <1>1, <1>2
  <2> QED
    BY <1>1, <2>1 DEF IInv, TypeOK
<1>5. Queues'
  <2>1. \A k \in timers' : \E x \in Tasks : k.handle = Fire(x)
    BY <1>1, <1>2 DEF IInv, Queues
  <2>2. \A k, l \in timers' : k.handle = l.handle => k = l
    BY <1>1, <1>2 DEF IInv, Queues
  <2> QED
    BY <1>1, <1>3, <2>1, <2>2 DEF IInv, Queues
<1>6. \A x : IsPending(x)' <=> IsPending(x)
  BY <1>1, <1>2 DEF IsPending
<1>7. HandlesMakeSense'
  BY <1>1, <1>6 DEF IInv, HandlesMakeSense
<1>8. /\ MainWaits' /\ WokenIsFirst'
      /\ FreeMeansWoken' /\ WaitersWait' /\ MutualExclusion' /\ NothingStale'
      /\ NoLostUpdate' /\ ReturnsOnlyNumTasks'
  BY <1>1 DEF IInv, MainWaits, WokenIsFirst, FreeMeansWoken, WaitersWait,
         MutualExclusion, NothingStale, NoLostUpdate, ReturnsOnlyNumTasks,
         Inside, Done
<1> QED
  BY <1>4, <1>5, <1>7, <1>8 DEF IInv
-----------------------------------------------------------------------------
(* The invariant is inductive. *)
LEMMA NextIInv == IInv /\ [Next]_vars => IInv'
<1> SUFFICES ASSUME IInv, [Next]_vars PROVE IInv'
  OBVIOUS
<1>1. CASE Loop
  BY <1>1, StartIterationIInv, TickIInv DEF Loop
<1>2. CASE MainStart
  BY <1>2, MainStartIInv
<1>3. ASSUME NEW t \in Tasks, TaskStep(t) PROVE IInv'
  BY <1>3, AcquireFreeIInv, AcquireWaitIInv, AcquireWokenIInv, SleepOverIInv,
     LeaveIInv, GatherChildIInv DEF TaskStep
<1>4. CASE MainReturn
  BY <1>4, MainReturnIInv
<1>5. CASE UNCHANGED vars
  BY <1>5 DEF vars, loopVars, programVars, IInv, TypeOK, Queues,
       HandlesMakeSense, IsPending, MainWaits, WokenIsFirst, FreeMeansWoken,
       WaitersWait, MutualExclusion, NothingStale, NoLostUpdate,
       ReturnsOnlyNumTasks, Inside, Done
<1> QED
  BY <1>1, <1>2, <1>3, <1>4, <1>5 DEF Next, Finished

(***************************************************************************)
(* The values of the variables are what they should be.                    *)
(***************************************************************************)
THEOREM TypeCorrect == Spec => []TypeOK
<1>1. IInv => TypeOK
  BY DEF IInv
<1> QED
  BY <1>1, InitIInv, NextIInv, PTL DEF Spec

(***************************************************************************)
(* The lock of benchmark b3 excludes, for every number of tasks.           *)
(***************************************************************************)
THEOREM LockExcludes == Spec => []MutualExclusion
<1>1. IInv => MutualExclusion
  BY DEF IInv
<1> QED
  BY <1>1, InitIInv, NextIInv, PTL DEF Spec

(***************************************************************************)
(* No update of the counter is lost, at any moment.                        *)
(***************************************************************************)
THEOREM CounterCounts == Spec => []NoLostUpdate
<1>1. IInv => NoLostUpdate
  BY DEF IInv
<1> QED
  BY <1>1, InitIInv, NextIInv, PTL DEF Spec

(***************************************************************************)
(* A free lock with waiters has woken the first of them.                   *)
(***************************************************************************)
THEOREM WaiterIsWoken == Spec => []NoLostWakeup
<1>1. IInv => NoLostWakeup
  BY DEF IInv, FreeMeansWoken, WokenIsFirst, NoLostWakeup, IsReady, InSeq
<1> QED
  BY <1>1, InitIInv, NextIInv, PTL DEF Spec

(***************************************************************************)
(* Partial correctness of b3: if it returns, it returns num_tasks.         *)
(***************************************************************************)
THEOREM ReturnIsRight == Spec => []ReturnsOnlyNumTasks
<1>1. IInv => ReturnsOnlyNumTasks
  BY DEF IInv
<1> QED
  BY <1>1, InitIInv, NextIInv, PTL DEF Spec

(***************************************************************************)
(* The safety part of the refinement: seen from outside, the tasks do      *)
(* nothing but increment the counter, each at most once and atomically.    *)
(***************************************************************************)
THEOREM RefinesAtomicCounter == Spec => Counter!Safety
<1>1. Init => Counter!Init
  BY DEF Init, Counter!Init, Done
<1>2. IInv /\ [Next]_vars => [Counter!Next]_<<Done, shared_resource>>
  <2> SUFFICES ASSUME IInv, [Next]_vars
               PROVE  Counter!Next \/ UNCHANGED <<Done, shared_resource>>
    OBVIOUS
  <2>1. ASSUME NEW t \in Tasks, Leave(t) PROVE Counter!Next
    <3>1. /\ pc[t] = "sleeping"
          /\ current[t] = shared_resource
          /\ shared_resource' = shared_resource + 1
          /\ pc' = [pc EXCEPT ![t] = "done"]
      BY <2>1 DEF Leave, IInv, NothingStale, Inside
    <3>2. t \in Tasks \ Done /\ Done' = Done \union {t}
      BY <3>1 DEF IInv, TypeOK, Done
    <3> QED
      BY <3>1, <3>2 DEF Counter!Next, Counter!Increment
  <2>2. ASSUME NEW t \in Tasks, AcquireFree(t) \/ AcquireWait(t) \/ AcquireWoken(t)
        PROVE  UNCHANGED <<Done, shared_resource>>
    <3>1. /\ shared_resource' = shared_resource
          /\ pc[t] # "done"
          /\ pc' = [pc EXCEPT ![t] = "sleeping"] \/ pc' = [pc EXCEPT ![t] = "waiting"]
      BY <2>2 DEF AcquireFree, AcquireWait, AcquireWoken, Enter
    <3> QED
      BY <3>1 DEF IInv, TypeOK, Done
  <2>3. ASSUME NEW t \in Tasks, SleepOver(t) \/ GatherChild(t)
        PROVE  UNCHANGED <<Done, shared_resource>>
    BY <2>3 DEF SleepOver, GatherChild, programVars, Done
  <2>4. CASE MainStart \/ MainReturn
    <3>1. /\ shared_resource' = shared_resource
          /\ \A t \in Tasks : pc'[t] = pc[t]
      BY <2>4, HandleFacts DEF MainStart, MainReturn, IInv, TypeOK
    <3> QED
      BY <3>1 DEF Done
  <2>5. CASE Loop \/ UNCHANGED vars
    BY <2>5 DEF Loop, vars, programVars, Done
  <2> QED
    BY <2>1, <2>2, <2>3, <2>4, <2>5 DEF Next, TaskStep, Finished
<1> QED
  BY <1>1, <1>2, InitIInv, NextIInv, PTL DEF Spec, Counter!Safety
-----------------------------------------------------------------------------
(***************************************************************************)
(* For the order in which the lock is granted a second invariant is        *)
(* needed: tasks start in the order of their creation and wait in it.      *)
(***************************************************************************)
NotStarted == {t \in Tasks : pc[t] = "start"}

\* The steps of the tasks of P are in s in the order of the tasks.
StepsInOrder(s, P) ==
  \A i, j \in 1..Len(s) : \A t, u \in P :
    i < j /\ s[i] = Step(t) /\ s[j] = Step(u) => t < u

CreationOrder ==
  /\ StepsInOrder(ready, NotStarted)
  /\ pc[Main] # "start" => \A t \in NotStarted : InSeq(Step(t), ready)
  /\ \A i, j \in 1..Len(waiters) : i < j => waiters[i] < waiters[j]
  /\ \A t, u \in Tasks : u < t /\ pc[u] = "start" => pc[t] = "start"
  /\ \A t, u \in Tasks : u < t /\ pc[u] = "waiting" => pc[t] \in {"start", "waiting"}

(* An ordered queue stays ordered when no step of a task is added. *)
LEMMA StepsInOrderAppend ==
  ASSUME NEW S, NEW s \in Seq(S), NEW n \in Seq(S),
         NEW P, NEW R \in SUBSET P, StepsInOrder(s, P),
         \A t \in R : ~InSeq(Step(t), n)
  PROVE  StepsInOrder(s \o n, R)
<1>1. SUFFICES ASSUME NEW i \in 1..Len(s \o n), NEW j \in 1..Len(s \o n),
                      NEW t \in R, NEW u \in R,
                      i < j, (s \o n)[i] = Step(t), (s \o n)[j] = Step(u)
               PROVE  t < u
  BY DEF StepsInOrder
<1>2. \A k \in 1..Len(s \o n) :
         \/ k \in 1..Len(s) /\ (s \o n)[k] = s[k]
         \/ k - Len(s) \in 1..Len(n) /\ (s \o n)[k] = n[k - Len(s)]
  OBVIOUS
<1>3. i \in 1..Len(s) /\ s[i] = Step(t)
  BY <1>1, <1>2 DEF InSeq
<1>4. j \in 1..Len(s) /\ s[j] = Step(u)
  BY <1>1, <1>2 DEF InSeq
<1> QED
  BY <1>1, <1>3, <1>4 DEF StepsInOrder

(* The rest of an ordered queue is ordered. *)
LEMMA StepsInOrderTail ==
  ASSUME NEW S, NEW s \in Seq(S), s # <<>>, NEW P, StepsInOrder(s, P)
  PROVE  StepsInOrder(Tail(s), P)
<1>1. /\ Len(Tail(s)) = Len(s) - 1
      /\ \A i \in 1..Len(Tail(s)) : i + 1 \in 1..Len(s) /\ Tail(s)[i] = s[i + 1]
  OBVIOUS
<1> QED
  BY <1>1 DEF StepsInOrder

\* What a handle that starts no task does to the order of the ready queue.
LEMMA StepsInOrderRun ==
  ASSUME IInv, CreationOrder, NEW h, NEW new \in Seq(Handles), RunHandle(h, new),
         NotStarted' \subseteq NotStarted,
         \A t \in NotStarted' : ~InSeq(Step(t), new)
  PROVE  StepsInOrder(ready', NotStarted')
<1>1. /\ ready \in Seq(Handles)
      /\ ready # <<>>
      /\ ready' = Tail(ready) \o new
  BY DEF IInv, TypeOK, RunHandle
<1>2. StepsInOrder(Tail(ready), NotStarted)
  BY <1>1, StepsInOrderTail DEF CreationOrder
<1>3. Tail(ready) \in Seq(Handles)
  BY <1>1
<1> QED
  BY <1>1, <1>2, <1>3, StepsInOrderAppend

\* The same, with the tasks still to start being there.
LEMMA OrderedRun ==
  ASSUME IInv, CreationOrder, NEW h, NEW new \in Seq(Handles), RunHandle(h, new),
         NotStarted' \subseteq NotStarted,
         \A t \in NotStarted' : ~InSeq(Step(t), new) /\ Step(t) # h,
         pc[Main] # "start" \/ pc'[Main] = "start"
  PROVE  /\ StepsInOrder(ready', NotStarted')
         /\ pc'[Main] # "start" => \A t \in NotStarted' : InSeq(Step(t), ready')
         /\ ready[1] = h /\ 1 \in 1..Len(ready)
<1>1. StepsInOrder(ready', NotStarted')
  BY StepsInOrderRun
<1>2. /\ ready[1] = h /\ 1 \in 1..Len(ready)
      /\ \A x : InSeq(x, ready) /\ x # h => InSeq(x, ready')
  BY RunKeeps DEF IInv, TypeOK
<1>3. pc[Main] # "start" => \A t \in NotStarted : InSeq(Step(t), ready)
  BY DEF CreationOrder
<1> QED
  BY <1>1, <1>2, <1>3

\* A task that runs for the first time: all tasks before it have run.
LEMMA FirstToStart ==
  ASSUME IInv, CreationOrder, NEW t \in Tasks, pc[t] = "start",
         RunHandle(Step(t), <<>>)
  PROVE  /\ StepsInOrder(ready, NotStarted)
         /\ pc[Main] # "start"
         /\ \A u \in Tasks : u < t => pc[u] # "start"
<1>1. ready[1] = Step(t) /\ 1 \in 1..Len(ready)
  BY DEF RunHandle, IInv, TypeOK
<1>2. pc[Main] # "start"
  BY <1>1 DEF IInv, MainWaits, InSeq
<1>3. ASSUME NEW u \in Tasks, u < t, pc[u] = "start" PROVE FALSE
  <2>1. PICK i \in 1..Len(ready) : ready[i] = Step(u)
    BY <1>2, <1>3 DEF CreationOrder, NotStarted, InSeq
  <2>2. i # 1
    BY <1>1, <1>3, <2>1, HandlesDiffer, HandleFacts
  <2>3. 1 < i
    BY <2>2 DEF IInv, TypeOK
  <2>4. t < u
    BY <1>1, <1>3, <2>1, <2>3 DEF CreationOrder, StepsInOrder, NotStarted
  <2> QED
    BY <1>3, <2>4, HandleFacts
<1> QED
  BY <1>2, <1>3 DEF CreationOrder

(* No task has been created: there is nothing to order. *)
LEMMA InitCreationOrder == Init => CreationOrder
<1> SUFFICES ASSUME Init PROVE CreationOrder
  OBVIOUS
<1>1. StepsInOrder(ready, NotStarted)
  BY HandleFacts, HandlesDiffer DEF Init, LoopInit, StepsInOrder, NotStarted
<1> QED
  BY <1>1 DEF Init, CreationOrder

\* Whoever gets the lock comes after nobody who still wants it.
LEMMA GrantedInOrder ==
  ASSUME IInv, CreationOrder, NEW t \in Tasks, AcquireFree(t) \/ AcquireWoken(t)
  PROVE  \A u \in Tasks : u < t => pc[u] = "done"
<1>1. SUFFICES ASSUME NEW u \in Tasks, u < t PROVE pc[u] = "done"
  OBVIOUS
<1>2. pc[u] \in {"start", "waiting", "sleeping", "done"}
  BY DEF IInv, TypeOK, HandlesMakeSense
<1>3. CASE AcquireFree(t)
  <2>1. pc[t] = "start" /\ RunHandle(Step(t), <<>>) /\ ~locked /\ waiters = <<>>
    BY <1>3 DEF AcquireFree
  <2>2. pc[u] # "start"
    BY <1>1, <2>1, FirstToStart
  <2>3. pc[u] # "waiting" /\ pc[u] # "sleeping"
    BY <2>1 DEF IInv, WaitersWait, InSeq, MutualExclusion, Inside
  <2> QED
    BY <1>2, <2>2, <2>3
<1>4. CASE AcquireWoken(t)
  <2>1. /\ pc[t] = "waiting"
        /\ InSeq(Step(t), ready)
    BY <1>4 DEF AcquireWoken, RunHandle, InSeq, IInv, TypeOK
  <2>2. waiters # <<>> /\ t = Head(waiters) /\ ~locked
    BY <2>1 DEF IInv, HandlesMakeSense, WokenIsFirst
  <2>3. pc[u] # "start" /\ pc[u] # "sleeping"
    BY <1>1, <2>1, <2>2 DEF CreationOrder, IInv, MutualExclusion, Inside
  <2>4. ASSUME pc[u] = "waiting" PROVE FALSE
    <3>1. PICK i \in 1..Len(waiters) : waiters[i] = u
      BY <2>4 DEF IInv, WaitersWait, InSeq
    <3>2. waiters[1] = t /\ 1 \in 1..Len(waiters)
      BY <2>2 DEF IInv, TypeOK
    <3>3. u \in Nat /\ t \in Nat
      BY HandleFacts
    <3>4. 1 < i
      BY <1>1, <3>1, <3>2, <3>3
    <3>5. t < u
      BY <3>1, <3>2, <3>4 DEF CreationOrder
    <3> QED
      BY <1>1, <3>3, <3>5
  <2> QED
    BY <1>2, <2>3, <2>4
<1> QED
  BY <1>3, <1>4

(* A task enters the critical section: all before it are done. *)
LEMMA EnterCreationOrder ==
  ASSUME IInv, CreationOrder, NEW t \in Tasks, AcquireFree(t) \/ AcquireWoken(t)
  PROVE  CreationOrder'
<1>1. /\ RunHandle(Step(t), <<>>)
      /\ \A u \in Coroutines : pc'[u] = IF u = t THEN "sleeping" ELSE pc[u]
  BY DEF AcquireFree, AcquireWoken, Enter, IInv, TypeOK, Coroutines
<1>2. NotStarted' = NotStarted \ {t}
  BY <1>1 DEF NotStarted, Coroutines
<1>3. /\ pc'[Main] = pc[Main]
      /\ pc[Main] # "start"
  <2>1. InSeq(Step(t), ready)
    BY <1>1 DEF RunHandle, InSeq, IInv, TypeOK
  <2> QED
    BY <1>1, <2>1, HandleFacts DEF IInv, MainWaits, Coroutines
<1>4. /\ StepsInOrder(ready', NotStarted')
      /\ pc'[Main] # "start" => \A u \in NotStarted' : InSeq(Step(u), ready')
  <2>1. \A u \in NotStarted' : ~InSeq(Step(u), <<>>) /\ Step(u) # Step(t)
    BY <1>2, QueueShort, HandlesDiffer
  <2>2. <<>> \in Seq(Handles) /\ NotStarted' \subseteq NotStarted
    BY <1>2
  <2> QED
    BY <1>1, <1>3, <2>1, <2>2, OrderedRun
<1>5. \A i, j \in 1..Len(waiters') : i < j => waiters'[i] < waiters'[j]
  <2>1. CASE AcquireFree(t)
    BY <2>1 DEF AcquireFree
  <2>2. CASE AcquireWoken(t)
    <3>1. /\ waiters \in Seq(Tasks) /\ waiters # <<>>
          /\ waiters' = Tail(waiters)
      <4>1. InSeq(Step(t), ready) /\ pc[t] = "waiting"
        BY <2>2 DEF AcquireWoken, RunHandle, InSeq, IInv, TypeOK
      <4>2. waiters # <<>> /\ t = Head(waiters)
        BY <4>1 DEF IInv, HandlesMakeSense, WokenIsFirst
      <4> QED
        BY <2>2, <4>2, RemoveHead DEF AcquireWoken, IInv, TypeOK, WaitersWait
    <3>2. /\ Len(waiters') = Len(waiters) - 1
          /\ \A i \in 1..Len(waiters') :
               i + 1 \in 1..Len(waiters) /\ waiters'[i] = waiters[i + 1]
      BY <3>1
    <3> QED
      BY <3>1, <3>2 DEF CreationOrder
  <2> QED
    BY <2>1, <2>2
<1>6. \A u \in Tasks : u < t => pc[u] = "done"
  BY GrantedInOrder
<1>7. /\ \A v, u \in Tasks : u < v /\ pc'[u] = "start" => pc'[v] = "start"
      /\ \A v, u \in Tasks : u < v /\ pc'[u] = "waiting" => pc'[v] \in {"start", "waiting"}
  BY <1>1, <1>6 DEF CreationOrder, Coroutines
<1> QED
  BY <1>4, <1>5, <1>7 DEF CreationOrder

(* A task joins the FIFO: all that wait were created before it. *)
LEMMA WaitCreationOrder ==
  ASSUME IInv, CreationOrder, NEW t \in Tasks, AcquireWait(t)
  PROVE  CreationOrder'
<1>1. /\ RunHandle(Step(t), <<>>)
      /\ pc[t] = "start"
      /\ waiters' = Append(waiters, t)
      /\ \A u \in Coroutines : pc'[u] = IF u = t THEN "waiting" ELSE pc[u]
  BY DEF AcquireWait, IInv, TypeOK, Coroutines
<1>2. NotStarted' = NotStarted \ {t}
  BY <1>1 DEF NotStarted, Coroutines
<1>3. /\ pc'[Main] = pc[Main]
      /\ pc[Main] # "start"
      /\ \A u \in Tasks : u < t => pc[u] # "start"
  BY <1>1, HandleFacts, FirstToStart DEF Coroutines
<1>4. /\ StepsInOrder(ready', NotStarted')
      /\ pc'[Main] # "start" => \A u \in NotStarted' : InSeq(Step(u), ready')
  <2>1. \A u \in NotStarted' : ~InSeq(Step(u), <<>>) /\ Step(u) # Step(t)
    BY <1>2, QueueShort, HandlesDiffer
  <2>2. <<>> \in Seq(Handles) /\ NotStarted' \subseteq NotStarted
    BY <1>2
  <2> QED
    BY <1>1, <1>3, <2>1, <2>2, OrderedRun
<1>5. \A i, j \in 1..Len(waiters') : i < j => waiters'[i] < waiters'[j]
  <2>1. waiters \in Seq(Tasks)
    BY DEF IInv, TypeOK
  <2>2. ASSUME NEW i \in 1..Len(waiters) PROVE waiters[i] < t
    <3>1. waiters[i] \in Tasks /\ pc[waiters[i]] = "waiting"
      BY <2>1, <2>2 DEF IInv, WaitersWait, InSeq
    <3>2. ~(t < waiters[i]) /\ t # waiters[i]
      BY <1>1, <3>1 DEF CreationOrder
    <3>3. waiters[i] \in Nat /\ t \in Nat
      BY <3>1, HandleFacts
    <3> QED
      BY <3>2, <3>3
  <2> QED
    BY <1>1, <2>1, <2>2 DEF CreationOrder
<1>6. /\ \A v, u \in Tasks : u < v /\ pc'[u] = "start" => pc'[v] = "start"
      /\ \A v, u \in Tasks : u < v /\ pc'[u] = "waiting" => pc'[v] \in {"start", "waiting"}
  BY <1>1, <1>3 DEF CreationOrder, Coroutines
<1> QED
  BY <1>4, <1>5, <1>6 DEF CreationOrder

(* The end of a sleep starts no task. *)
LEMMA SleepOverCreationOrder ==
  ASSUME IInv, CreationOrder, NEW t \in Tasks, SleepOver(t)
  PROVE  CreationOrder'
<1> USE DEF SleepOver, programVars
<1> DEFINE new == <<Step(t)>>
<1>1. RunHandle(Fire(t), new) /\ InSeq(Fire(t), ready)
  BY DEF RunHandle, InSeq, IInv, TypeOK
<1>2. pc[t] = "sleeping"
  BY <1>1 DEF IInv, HandlesMakeSense
<1>3. /\ new \in Seq(Handles)
      /\ \A x : InSeq(x, new) <=> x = Step(t)
  BY QueueShort, HandleFacts DEF Coroutines
<1> HIDE DEF new
<1>4. NotStarted' = NotStarted /\ t \notin NotStarted
  BY <1>2 DEF NotStarted
<1>5. \A u \in NotStarted' : ~InSeq(Step(u), new) /\ Step(u) # Fire(t)
  BY <1>3, <1>4, HandlesDiffer
<1>6. pc[Main] # "start"
  BY <1>2 DEF IInv, MainWaits
<1>7. /\ StepsInOrder(ready', NotStarted')
      /\ \A u \in NotStarted' : InSeq(Step(u), ready')
  BY <1>1, <1>3, <1>4, <1>5, <1>6, OrderedRun
<1> QED
  BY <1>7 DEF CreationOrder

(* Leaving wakes a task that waits: it starts none. *)
LEMMA LeaveCreationOrder ==
  ASSUME IInv, CreationOrder, NEW t \in Tasks, Leave(t)
  PROVE  CreationOrder'
<1>1. /\ \A u \in Coroutines : pc'[u] = IF u = t THEN "done" ELSE pc[u]
      /\ pc[t] = "sleeping"
      /\ waiters' = waiters
  BY DEF Leave, IInv, TypeOK, Coroutines
<1>2. NotStarted' = NotStarted /\ t \notin NotStarted
  BY <1>1 DEF NotStarted, Coroutines
<1>3. pc[Main] # "start" /\ pc'[Main] = pc[Main]
  BY <1>1, HandleFacts DEF IInv, MainWaits, Coroutines
<1>4. /\ StepsInOrder(ready', NotStarted')
      /\ \A u \in NotStarted' : InSeq(Step(u), ready')
  <2> DEFINE new == [i \in DOMAIN ToWake |-> Step(ToWake[i])] \o <<DoneCb(t)>>
  <2>1. RunHandle(Step(t), new)
    BY DEF Leave
  <2>2. /\ new \in Seq(Handles)
        /\ \A x : InSeq(x, new) =>
             x = DoneCb(t) \/ (waiters # <<>> /\ x = Step(Head(waiters)))
    <3> USE HandleFacts DEF Coroutines
    <3>1. CASE ToWake = <<>>
      BY <3>1 DEF InSeq
    <3>2. CASE ToWake = <<Head(waiters)>> /\ waiters # <<>>
      <4> DEFINE first == <<Step(Head(waiters))>>
                 last  == <<DoneCb(t)>>
      <4>1. [i \in DOMAIN ToWake |-> Step(ToWake[i])] = first
        BY <3>2
      <4>2. /\ first \in Seq(Handles) /\ last \in Seq(Handles)
            /\ \A x : InSeq(x, first) => x = Step(Head(waiters))
            /\ \A x : InSeq(x, last) => x = DoneCb(t)
        BY <3>2, QueueShort DEF IInv, TypeOK
      <4> HIDE DEF first, last
      <4>3. /\ first \o last \in Seq(Handles)
            /\ \A i \in 1..Len(first \o last) :
                 \/ i \in 1..Len(first) /\ (first \o last)[i] = first[i]
                 \/ /\ i - Len(first) \in 1..Len(last)
                    /\ (first \o last)[i] = last[i - Len(first)]
        BY <4>2
      <4> QED
        BY <3>2, <4>1, <4>2, <4>3 DEF InSeq
    <3> QED
      BY <3>1, <3>2 DEF ToWake
  <2>3. waiters # <<>> => Head(waiters) \in Tasks /\ pc[Head(waiters)] = "waiting"
    BY LeaveReady
  <2> HIDE DEF new
  <2>4. \A u \in NotStarted' : ~InSeq(Step(u), new) /\ Step(u) # Step(t)
    BY <1>2, <2>2, <2>3, HandlesDiffer DEF NotStarted
  <2> QED
    BY <1>2, <1>3, <2>1, <2>2, <2>4, OrderedRun
<1>5. /\ \A v, u \in Tasks : u < v /\ pc'[u] = "start" => pc'[v] = "start"
      /\ \A v, u \in Tasks : u < v /\ pc'[u] = "waiting" => pc'[v] \in {"start", "waiting"}
  BY <1>1 DEF CreationOrder, Coroutines
<1> QED
  BY <1>1, <1>4, <1>5 DEF CreationOrder

(* gather's callback starts no task. *)
LEMMA GatherChildCreationOrder ==
  ASSUME IInv, CreationOrder, NEW t \in Tasks, GatherChild(t)
  PROVE  CreationOrder'
<1> USE DEF GatherChild
<1> DEFINE new == IF gathered' = Tasks THEN <<Step(Main)>> ELSE <<>>
<1>1. RunHandle(DoneCb(t), new) /\ InSeq(DoneCb(t), ready)
  BY DEF RunHandle, InSeq, IInv, TypeOK
<1>2. pc[t] = "done"
  BY <1>1 DEF IInv, HandlesMakeSense
<1>3. /\ new \in Seq(Handles)
      /\ \A x : InSeq(x, new) => x = Step(Main)
  BY QueueShort, HandleFacts DEF Coroutines
<1> HIDE DEF new
<1>4. NotStarted' = NotStarted
  BY DEF NotStarted
<1>5. \A u \in NotStarted' : ~InSeq(Step(u), new) /\ Step(u) # DoneCb(t)
  BY <1>3, HandlesDiffer, HandleFacts DEF NotStarted
<1>6. pc[Main] # "start"
  BY <1>2 DEF IInv, MainWaits
<1>7. /\ StepsInOrder(ready', NotStarted')
      /\ \A u \in NotStarted' : InSeq(Step(u), ready')
  BY <1>1, <1>3, <1>4, <1>5, <1>6, OrderedRun
<1> QED
  BY <1>7 DEF CreationOrder

(* The caller creates the tasks in their order, and returns. *)
LEMMA MainCreationOrder ==
  ASSUME IInv, CreationOrder, MainStart \/ MainReturn
  PROVE  CreationOrder'
<1>1. /\ \A t \in Tasks : pc'[t] = pc[t]
      /\ pc'[Main] # "start"
      /\ waiters' = waiters
  BY HandleFacts DEF MainStart, MainReturn, IInv, TypeOK
<1>2. NotStarted' = NotStarted
  BY <1>1 DEF NotStarted
<1>3. CASE MainReturn
  <2>1. RunHandle(Step(Main), <<>>) /\ pc[Main] # "start"
    BY <1>3 DEF MainReturn
  <2>2. \A t \in NotStarted' : ~InSeq(Step(t), <<>>) /\ Step(t) # Step(Main)
    BY QueueShort, HandlesDiffer, HandleFacts DEF NotStarted
  <2>3. <<>> \in Seq(Handles)
    OBVIOUS
  <2>4. /\ StepsInOrder(ready', NotStarted')
        /\ \A t \in NotStarted' : InSeq(Step(t), ready')
    BY <1>1, <1>2, <2>1, <2>2, <2>3, OrderedRun
  <2> QED
    BY <1>1, <2>4 DEF CreationOrder
<1>4. CASE MainStart
  <2> DEFINE new == [t \in Tasks |-> Step(t)]
             rest == Tail(ready)
  <2>1. /\ \A t \in Tasks : ~InSeq(Step(t), ready)
        /\ ready \in Seq(Handles)
        /\ ready # <<>>
        /\ ready' = rest \o new
    BY <1>4 DEF MainStart, RunHandle, IInv, TypeOK, MainWaits
  <2>2. /\ rest \in Seq(Handles)
        /\ \A i \in 1..Len(rest) :
             i + 1 \in 1..Len(ready) /\ rest[i] = ready[i + 1]
    BY <2>1
  <2>3. \A t \in Tasks, i \in 1..Len(rest) : rest[i] # Step(t)
    BY <2>1, <2>2 DEF InSeq
  <2>4. /\ new \in Seq(Handles)
        /\ Len(new) = num_tasks
        /\ \A i \in 1..Len(new) : i \in Tasks /\ new[i] = Step(i)
    BY HandleFacts DEF Tasks, Coroutines
  <2> HIDE DEF new, rest
  <2>5. /\ Len(ready') = Len(rest) + Len(new)
        /\ \A k \in 1..Len(ready') :
             \/ k \in 1..Len(rest) /\ ready'[k] = rest[k]
             \/ /\ k - Len(rest) \in 1..Len(new)
                /\ ready'[k] = new[k - Len(rest)]
        /\ \A t \in 1..Len(new) : /\ Len(rest) + t \in 1..Len(ready')
                                  /\ ready'[Len(rest) + t] = new[t]
    <3>1. rest \in Seq(Handles) /\ new \in Seq(Handles) /\ ready' = rest \o new
      BY <2>1, <2>2, <2>4
    <3> QED
      BY <3>1
  <2>6. \A t \in Tasks : InSeq(Step(t), ready')
    BY <2>4, <2>5 DEF InSeq, Tasks
  <2>7. \A k \in 1..Len(ready'), t \in Tasks :
          ready'[k] = Step(t) => t = k - Len(rest)
    <3>1. SUFFICES ASSUME NEW k \in 1..Len(ready'), NEW t \in Tasks,
                          ready'[k] = Step(t)
                   PROVE  t = k - Len(rest)
      OBVIOUS
    <3>2. k - Len(rest) \in 1..Len(new) /\ ready'[k] = new[k - Len(rest)]
      BY <2>3, <2>5, <3>1
    <3>3. Step(k - Len(rest)) = Step(t)
      BY <2>4, <3>1, <3>2
    <3> QED
      BY <3>3, HandlesDiffer
  <2>8. StepsInOrder(ready', NotStarted')
    <3>1. Len(rest) \in Nat /\ Len(ready') \in Nat
      BY <2>2, <2>4, <2>5
    <3> QED
      BY <2>7, <3>1 DEF StepsInOrder, NotStarted
  <2> QED
    BY <1>1, <2>6, <2>8 DEF CreationOrder, NotStarted
<1> QED
  BY <1>3, <1>4

(* A poll adds callbacks of timers only. *)
LEMMA LoopCreationOrder ==
  ASSUME IInv, CreationOrder, Loop
  PROVE  CreationOrder'
<1> USE DEF Loop, programVars
<1>1. NotStarted' = NotStarted
  BY DEF NotStarted
<1>2. CASE Tick
  BY <1>1, <1>2 DEF Tick, CreationOrder
<1>3. CASE StartIteration
  <2>1. PICK q \in ByDeadline(Due) : ready' = ready \o [i \in DOMAIN q |-> q[i].handle]
    BY <1>3 DEF StartIteration
  <2> DEFINE new == [i \in DOMAIN q |-> q[i].handle]
  <2>2. /\ Due \in SUBSET [left : Int, handle : Handles]
        /\ IsFiniteSet(Due)
        /\ \A k, l \in Due : k.handle = l.handle => k = l
        /\ \A k \in Due : \E x \in Tasks : k.handle = Fire(x)
    BY FS_Subset DEF IInv, TypeOK, Queues, Due
  <2>3. /\ new \in Seq(Handles)
        /\ \A x : InSeq(x, new) => \E k \in Due : k.handle = x
    BY <2>2, Poll, ZenonT(40)
  <2>4. ready' = ready \o new /\ ready \in Seq(Handles)
    BY <2>1 DEF IInv, TypeOK
  <2> HIDE DEF new
  <2>5. \A t : ~InSeq(Step(t), new)
    BY <2>2, <2>3, HandlesDiffer
  <2>6. StepsInOrder(ready', NotStarted')
    BY <1>1, <2>3, <2>4, <2>5, StepsInOrderAppend DEF CreationOrder
  <2>7. /\ Len(ready) \in Nat
        /\ \A i \in 1..Len(ready) : i \in 1..Len(ready') /\ ready'[i] = ready[i]
    BY <2>3, <2>4
  <2>8. \A x : InSeq(x, ready) => InSeq(x, ready')
    BY <2>7 DEF InSeq
  <2> QED
    BY <1>1, <2>6, <2>8 DEF CreationOrder
<1> QED
  BY <1>2, <1>3

(* The order is kept by every step. *)
LEMMA NextCreationOrder == IInv /\ CreationOrder /\ [Next]_vars => CreationOrder'
<1> SUFFICES ASSUME IInv, CreationOrder, [Next]_vars PROVE CreationOrder'
  OBVIOUS
<1>1. CASE Loop
  BY <1>1, LoopCreationOrder
<1>2. CASE MainStart \/ MainReturn
  BY <1>2, MainCreationOrder
<1>3. ASSUME NEW t \in Tasks, TaskStep(t) PROVE CreationOrder'
  BY <1>3, EnterCreationOrder, WaitCreationOrder, SleepOverCreationOrder,
     LeaveCreationOrder, GatherChildCreationOrder DEF TaskStep
<1>4. CASE UNCHANGED vars
  BY <1>4 DEF vars, loopVars, programVars, CreationOrder, NotStarted
<1> QED
  BY <1>1, <1>2, <1>3, <1>4 DEF Next, Finished

(***************************************************************************)
(* SNF-4: for every number of tasks the lock is granted in the order in    *)
(* which they were created.                                                *)
(***************************************************************************)
THEOREM LockIsFair == Spec => FifoGrant
<1>1. IInv /\ CreationOrder /\ [Next]_vars =>
        [\A t \in Tasks : ~Inside(t) /\ Inside(t)' =>
            \A u \in Tasks : u < t => pc[u] = "done"]_vars
  <2> SUFFICES ASSUME IInv, CreationOrder, Next, NEW t \in Tasks,
                      ~Inside(t), Inside(t)'
               PROVE  \A u \in Tasks : u < t => pc[u] = "done"
    OBVIOUS
  <2>1. pc[t] # "sleeping" /\ pc'[t] = "sleeping"
    BY DEF Inside
  <2>2. ASSUME NEW v \in Tasks, TaskStep(v)
        PROVE  AcquireFree(t) \/ AcquireWoken(t)
    BY <2>1, <2>2 DEF TaskStep, AcquireWait, SleepOver, Leave, GatherChild,
         AcquireFree, AcquireWoken, Enter, programVars, IInv, TypeOK
  <2>3. ~(Loop \/ MainStart \/ MainReturn \/ Finished)
    BY <2>1, HandleFacts DEF Loop, MainStart, MainReturn, Finished, vars,
         programVars, IInv, TypeOK
  <2> QED
    BY <2>2, <2>3, GrantedInOrder DEF Next
<1> QED
  BY <1>1, InitIInv, NextIInv, InitCreationOrder, NextCreationOrder, PTL
     DEF Spec, FifoGrant
=============================================================================
