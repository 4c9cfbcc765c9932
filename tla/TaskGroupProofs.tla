--------------------------- MODULE TaskGroupProofs ---------------------------
(***************************************************************************)
(* Benchmark b1 for any number of workers, any delays and a loop that is   *)
(* late by any amount: a group that fails counts nothing, its abort        *)
(* reaches every worker, nobody outlives it, and it does not hang.         *)
(***************************************************************************)
EXTENDS TaskGroup, EventLoopProofs

Everybody == {Main} \union Workers

Handles == {Step(t) : t \in Everybody}
             \union {Fire(w) : w \in Workers} \union {DoneCb(w) : w \in Workers}

Timers == [left : Int, handle : {Fire(w) : w \in Workers}]

(***************************************************************************)
(* The inductive invariant, in parts.                                      *)
(***************************************************************************)
Types ==
  /\ ready \in Seq(Handles)
  /\ todo \in 0..Len(ready)
  /\ timers \subseteq Timers
  /\ fut \in [Everybody -> FutureStates]
  /\ must_cancel \subseteq Everybody
  /\ fail_trigger \in BOOLEAN
  /\ pc \in [Everybody ->
        {"start", "sleep", "ok", "error", "cancelled", "exit", "done"}]
  /\ count \in Nat
  /\ tasks \subseteq Workers
  /\ aborting \in BOOLEAN

\* No handle is queued twice, in one place or in two.
Queues ==
  /\ Unique(ready)
  /\ IsFiniteSet(timers)
  /\ \A t, u \in timers : t.handle = u.handle => t = u
  /\ \A w \in Workers : ~(InSeq(Fire(w), ready) /\ IsPending(Fire(w)))

\* The caller waits for the group as long as there is a child.
MainWaits ==
  /\ pc[Main] \in {"start", "exit", "done"}
  /\ pc[Main] = "start" =>
       /\ ready = <<Step(Main)>> /\ timers = {} /\ ~aborting
       /\ \A w \in Workers : pc[w] = "start" /\ fut[w] = "none"
  /\ pc[Main] = "exit" =>
       /\ fut[Main] # "none"
       /\ InSeq(Step(Main), ready) <=> fut[Main] # "pending"
       /\ fut[Main] = "pending" => tasks # {}
       /\ fut[Main] = "result" => tasks = {}
       /\ fut[Main] = "cancelled" => aborting
  /\ pc[Main] = "done" => ~InSeq(Step(Main), ready) /\ tasks = {}

\* What a worker in each of its states has, waits for, and leaves behind.
WorkerState(w) ==
  /\ pc[w] \in {"start", "sleep", "ok", "error", "cancelled"}
  /\ InSeq(Step(w), ready) <=>
       pc[w] = "start" \/ (pc[w] = "sleep" /\ fut[w] # "pending")
  /\ pc[w] = "start" => ~InSeq(Fire(w), ready) /\ ~IsPending(Fire(w))
  /\ pc[w] = "sleep" =>
       /\ fut[w] # "none"
       /\ fut[w] = "pending" => InSeq(Fire(w), ready) \/ IsPending(Fire(w))
  /\ pc[w] # "sleep" => fut[w] = "none"
  /\ ~Over(w) => w \in tasks
  /\ InSeq(DoneCb(w), ready) <=> Over(w) /\ w \in tasks

WorkerStates == pc[Main] # "start" => \A w \in Workers : WorkerState(w)

\* Only the first worker fails, and only then anybody is cancelled.
Failure ==
  /\ must_cancel = {}
  /\ \A w \in Workers : pc[w] = "error" => w = 1 /\ fail_trigger
  /\ aborting => pc[1] = "error" /\ 1 \notin tasks
  /\ \A w \in Workers :
       /\ (pc[w] = "cancelled" \/ fut[w] = "cancelled") => aborting
       /\ aborting => pc[w] \in {"error", "cancelled"}
                        \/ (pc[w] = "sleep" /\ fut[w] = "cancelled")

\* Before the abort of a group that is to fail, nobody's sleep has ended:
\* the callback of worker 1 is ahead of every timer, and behind the first
\* steps of the other workers.
NothingBegun ==
  /\ \A w \in Workers : pc[w] = "start" /\ Step(w) = ready[w]
  /\ Len(ready) = NumWorkers
  /\ timers = {}

Failing ==
  /\ pc[1] = "error"
  /\ \A w \in Workers \ {1} : pc[w] = "start" \/ (pc[w] = "sleep" /\ fut[w] = "pending")
  /\ \E d \in 1..Len(ready) :
       /\ ready[d] = DoneCb(1)
       /\ \A i \in 1..d - 1 : \E w \in Workers : ready[i] = Step(w)
       /\ \A i \in d + 1..Len(ready) : \E w \in Workers : ready[i] = Fire(w)

AbortIsFirst ==
  fail_trigger /\ ~aborting /\ pc[Main] # "start" => NothingBegun \/ Failing

Counted == {w \in Workers : pc[w] = "ok"}

CountIsRight == count = Cardinality(Counted)

IInv ==
  /\ Types
  /\ Queues
  /\ MainWaits
  /\ WorkerStates
  /\ Failure
  /\ AbortIsFirst
  /\ CountIsRight
-----------------------------------------------------------------------------
USE WorkersAssumption

LEMMA HandleFacts ==
  /\ \A t \in Everybody : Step(t) \in Handles
  /\ \A w \in Workers : Fire(w) \in Handles /\ DoneCb(w) \in Handles
  /\ Main \in Everybody /\ Main \notin Workers
  /\ 1 \in Workers /\ Workers \subseteq Everybody /\ Workers \subseteq Nat
BY DEF Handles, Everybody, Main, Workers

LEMMA WorkersFinite ==
  /\ IsFiniteSet(Workers) /\ Cardinality(Workers) = NumWorkers
  /\ IsFiniteSet(Counted) /\ Cardinality(Counted) \in 0..NumWorkers
<1>1. IsFiniteSet(Workers) /\ Cardinality(Workers) = NumWorkers
  BY FS_Interval DEF Workers
<1>2. Counted \subseteq Workers
  BY DEF Counted
<1> QED
  BY <1>1, <1>2, FS_Subset, FS_CardinalityType

(* The handle that runs schedules nothing, or one other. *)
LEMMA RunsAlone ==
  ASSUME Types, Queues, NEW h, RunHandle(h, <<>>)
  PROVE  /\ ready' \in Seq(Handles) /\ todo' \in 0..Len(ready') /\ Unique(ready')
         /\ InSeq(h, ready)
         /\ \A x : InSeq(x, ready') <=> InSeq(x, ready) /\ x # h
BY RunNothing DEF Types, Queues

LEMMA RunsForOne ==
  ASSUME Types, Queues, NEW h, NEW k \in Handles, ~InSeq(k, ready),
         RunHandle(h, <<k>>)
  PROVE  /\ ready' \in Seq(Handles) /\ todo' \in 0..Len(ready') /\ Unique(ready')
         /\ InSeq(h, ready)
         /\ \A x : InSeq(x, ready') <=> (InSeq(x, ready) /\ x # h) \/ x = k
BY RunOne DEF Types, Queues

(* Whatever runs is in the queue, and first in it. *)
LEMMA RunsFirst ==
  ASSUME Types, NEW h, NEW new, RunHandle(h, new)
  PROVE  InSeq(h, ready) /\ 1 \in 1..Len(ready) /\ ready[1] = h
<1>1. ready # <<>> /\ Head(ready) = h
  BY DEF RunHandle, Types
<1> QED
  BY <1>1 DEF Types, InSeq

(* Until the abort of a group that is to fail, only the first steps of the *)
(* workers and then the callback of the first worker run.                  *)
LEMMA FirstInLine ==
  ASSUME IInv, fail_trigger, ~aborting, pc[Main] # "start",
         NEW h, NEW new, RunHandle(h, new)
  PROVE  \/ NothingBegun /\ h = Step(1)
         \/ Failing /\ h = DoneCb(1)
         \/ Failing /\ \E w \in Workers : h = Step(w) /\ pc[w] = "start"
<1>1. ready[1] = h /\ InSeq(h, ready) /\ 1 \in 1..Len(ready)
  BY RunsFirst DEF IInv
<1>2. CASE NothingBegun
  BY <1>1, <1>2, HandleFacts DEF NothingBegun
<1>3. CASE Failing
  <2>1. PICK d \in 1..Len(ready) :
               /\ ready[d] = DoneCb(1)
               /\ \A i \in 1..d - 1 : \E w \in Workers : ready[i] = Step(w)
    BY <1>3 DEF Failing
  <2>2. CASE d = 1
    BY <1>1, <1>3, <2>1, <2>2
  <2>3. CASE d # 1
    <3>1. 1 \in 1..d - 1
      BY <2>1, <2>3, <1>1
    <3>2. PICK w \in Workers : h = Step(w)
      BY <1>1, <2>1, <3>1
    <3>3. pc[w] = "start"
      <4>1. WorkerStates /\ InSeq(Step(w), ready) /\ pc[1] = "error"
        BY <1>1, <1>3, <3>2 DEF IInv, Failing
      <4>2. pc[w] = "start" \/ (pc[w] = "sleep" /\ fut[w] # "pending")
        BY <4>1 DEF WorkerStates, WorkerState
      <4> QED
        BY <1>3, <4>1, <4>2 DEF Failing
    <3> QED
      BY <1>3, <3>2, <3>3
  <2> QED
    BY <2>2, <2>3
<1> QED
  BY <1>2, <1>3 DEF IInv, AbortIsFirst

(* The invariant holds initially. *)
LEMMA InitIInv == Init => IInv
<1> SUFFICES ASSUME Init PROVE IInv
  OBVIOUS
<1> USE HandleFacts DEF Init, LoopInit, TasksInit
<1>1. /\ ready = <<Step(Main)>> /\ timers = {}
      /\ Unique(ready)
      /\ \A x : InSeq(x, ready) <=> x = Step(Main)
  BY QueueShort
<1>2. Types
  <2>1. ready \in Seq(Handles) /\ todo \in 0..Len(ready)
    BY <1>1
  <2> QED
    BY <2>1 DEF Types, Everybody, FutureStates
<1>3. Queues
  BY <1>1, FS_EmptySet DEF Queues, IsPending
<1>4. MainWaits /\ WorkerStates
  BY <1>1 DEF MainWaits, WorkerStates
<1>5. Failure /\ AbortIsFirst
  BY <1>1 DEF Failure, AbortIsFirst
<1>6. CountIsRight
  <2>1. Counted = {}
    BY DEF Counted
  <2> QED
    BY <2>1, FS_EmptySet DEF CountIsRight
<1> QED
  BY <1>2, <1>3, <1>4, <1>5, <1>6 DEF IInv

(* The caller creates the workers and waits for them. *)
LEMMA MainStartIInv ==
  ASSUME IInv, MainStart
  PROVE  IInv'
<1> DEFINE new == [w \in Workers |-> Step(w)]
<1>1. /\ Types /\ Queues /\ MainWaits /\ Failure /\ CountIsRight
      /\ pc[Main] = "start" /\ RunHandle(Step(Main), new)
      /\ tasks' = Workers
      /\ fut' = [fut EXCEPT ![Main] = "pending"]
      /\ must_cancel' = must_cancel \ {Main}
      /\ pc' = [pc EXCEPT ![Main] = "exit"]
      /\ UNCHANGED <<timers, fail_trigger, count, aborting>>
  BY DEF IInv, MainStart, Suspend, Goto
<1>2. /\ new \in Seq(Handles) /\ Len(new) = NumWorkers
      /\ \A i \in 1..NumWorkers : new[i] = Step(i)
  BY HandleFacts DEF Workers
<1>3. Unique(new) /\ \A x : InSeq(x, new) <=> \E w \in Workers : x = Step(w)
  BY <1>2, HandlesDiffer DEF Unique, InSeq, Workers
<1> HIDE DEF new
<1>4. /\ ready = <<Step(Main)>> /\ timers = {} /\ ~aborting
      /\ \A w \in Workers : pc[w] = "start" /\ fut[w] = "none"
      /\ \A x : InSeq(x, ready) <=> x = Step(Main)
  BY <1>1, QueueShort DEF MainWaits
<1>5. \A x : InSeq(x, new) => ~InSeq(x, ready)
  BY <1>3, <1>4, HandlesDiffer, HandleFacts
<1>6. /\ ready' \in Seq(Handles) /\ todo' \in 0..Len(ready') /\ Unique(ready')
      /\ \A x : InSeq(x, ready') <=> \E w \in Workers : x = Step(w)
  <2>1. /\ ready' \in Seq(Handles) /\ todo' \in 0..Len(ready') /\ Unique(ready')
        /\ \A x : InSeq(x, ready') <=> (InSeq(x, ready) /\ x # Step(Main)) \/ InSeq(x, new)
    BY <1>1, <1>2, <1>3, <1>5, RunFacts DEF Types, Queues
  <2> QED
    BY <1>3, <1>4, <2>1
<1>7. Len(ready') = NumWorkers /\ \A i \in 1..NumWorkers : ready'[i] = Step(i)
  <2>1. Len(ready) = 1
    BY <1>4
  <2>2. /\ Len(ready') = Len(ready) - 1 + Len(new)
        /\ \A i \in 1..Len(new) : ready'[Len(ready) - 1 + i] = new[i]
    BY <1>1, <1>2, RunPositions DEF Types
  <2> QED
    BY <1>2, <2>1, <2>2
<1>8. /\ pc'[Main] = "exit" /\ fut'[Main] = "pending"
      /\ \A w \in Workers : pc'[w] = "start" /\ fut'[w] = "none"
  BY <1>1, <1>4, HandleFacts DEF Types
<1>9. Types'
  BY <1>1, <1>6, HandleFacts DEF Types, FutureStates
<1>10. Queues'
  BY <1>1, <1>4, <1>6, FS_EmptySet DEF Queues, IsPending
<1>11. MainWaits'
  <2>1. InSeq(Step(Main), ready') <=> FALSE
    BY <1>6, HandleFacts, HandlesDiffer
  <2>2. tasks' # {}
    BY <1>1, HandleFacts
  <2> QED
    BY <1>8, <2>1, <2>2 DEF MainWaits
<1>12. WorkerStates'
  <2>1. SUFFICES ASSUME NEW w \in Workers PROVE WorkerState(w)'
    BY DEF WorkerStates
  <2>2. /\ InSeq(Step(w), ready') /\ ~InSeq(Fire(w), ready') /\ ~InSeq(DoneCb(w), ready')
        /\ ~IsPending(Fire(w))'
    BY <1>1, <1>4, <1>6, HandlesDiffer DEF IsPending
  <2> QED
    BY <1>1, <1>8, <2>2 DEF WorkerState, Over
<1>13. Failure'
  BY <1>1, <1>4, <1>8 DEF Failure
<1>14. AbortIsFirst'
  <2>1. NothingBegun'
    BY <1>1, <1>4, <1>7, <1>8 DEF NothingBegun, Workers
  <2> QED
    BY <2>1 DEF AbortIsFirst
<1>15. CountIsRight'
  <2>1. Counted' = Counted
    BY <1>4, <1>8 DEF Counted
  <2> QED
    BY <1>1, <2>1 DEF CountIsRight
<1> QED
  BY <1>9, <1>10, <1>11, <1>12, <1>13, <1>14, <1>15 DEF IInv

-----------------------------------------------------------------------------
(* A poll puts timers into the ready queue, behind all that is there. *)
LEMMA StartIterationIInv ==
  ASSUME IInv, StartIteration, UNCHANGED <<taskVars, programVars>>
  PROVE  IInv'
<1> USE DEF taskVars, programVars
<1>1. /\ Types /\ Queues /\ MainWaits /\ WorkerStates /\ Failure
      /\ AbortIsFirst /\ CountIsRight
  BY DEF IInv
<1>2. PICK q \in ByDeadline(Due) :
        /\ ready' = ready \o [i \in DOMAIN q |-> q[i].handle]
        /\ todo' = Len(ready) + Len(q)
  BY DEF StartIteration
<1> DEFINE new == [i \in DOMAIN q |-> q[i].handle]
<1>3. /\ Due \subseteq timers /\ timers' = timers \ Due
      /\ IsFiniteSet(Due) /\ IsFiniteSet(timers')
  BY <1>1, FS_Subset DEF Queues, Due, StartIteration
<1>4. \A k \in timers : \E w \in Workers : k.handle = Fire(w)
  BY <1>1 DEF Types, Timers
<1>5. /\ new \in Seq(Handles) /\ Len(new) = Len(q) /\ Len(q) \in Nat /\ Unique(new)
      /\ \A x : InSeq(x, new) => \E k \in Due : k.handle = x
  <2>1. Due \in SUBSET [left : Int, handle : Handles]
    BY <1>1, <1>3, HandleFacts DEF Types, Timers
  <2>2. \A k, l \in Due : k.handle = l.handle => k = l
    BY <1>1, <1>3 DEF Queues
  <2> QED
    BY <1>3, <2>1, <2>2, Poll
<1>6. \A k \in Due : InSeq(k.handle, new)
  BY <1>3, PollAll
<1>7. ready' = ready \o new
  BY <1>2
<1> HIDE DEF new
<1>8. \A x : InSeq(x, new) => \E w \in Workers : x = Fire(w) /\ IsPending(Fire(w))
  BY <1>3, <1>4, <1>5 DEF IsPending
<1>9. \A x : InSeq(x, new) => ~InSeq(x, ready)
  BY <1>1, <1>8 DEF Queues
<1>10. ready \in Seq(Handles) /\ Unique(ready) /\ Len(ready) \in Nat
  BY <1>1 DEF Types, Queues
<1>11. /\ ready' \in Seq(Handles) /\ Len(ready') = Len(ready) + Len(new) /\ Unique(ready')
       /\ \A x : InSeq(x, ready') <=> InSeq(x, ready) \/ InSeq(x, new)
  BY <1>5, <1>7, <1>9, <1>10, QueueAppend
<1>12. \A w \in Workers :
         /\ InSeq(Step(w), ready') <=> InSeq(Step(w), ready)
         /\ InSeq(DoneCb(w), ready') <=> InSeq(DoneCb(w), ready)
         /\ InSeq(Step(Main), ready') <=> InSeq(Step(Main), ready)
  BY <1>8, <1>11, HandlesDiffer
<1>13. \A w \in Workers :
         /\ ~(InSeq(Fire(w), ready') /\ IsPending(Fire(w))')
         /\ InSeq(Fire(w), ready') \/ IsPending(Fire(w))'
              <=> InSeq(Fire(w), ready) \/ IsPending(Fire(w))
  <2>1. SUFFICES ASSUME NEW w \in Workers
                 PROVE  /\ IsPending(Fire(w))' <=> IsPending(Fire(w)) /\ ~InSeq(Fire(w), new)
                        /\ InSeq(Fire(w), new) => IsPending(Fire(w))
    BY <1>1, <1>11 DEF Queues
  <2>2. InSeq(Fire(w), new) => IsPending(Fire(w))
    BY <1>8, HandlesDiffer
  <2>3. ASSUME IsPending(Fire(w)), ~InSeq(Fire(w), new) PROVE IsPending(Fire(w))'
    BY <1>3, <1>6, <2>3 DEF IsPending
  <2>4. ASSUME IsPending(Fire(w))' PROVE IsPending(Fire(w)) /\ ~InSeq(Fire(w), new)
    <3>1. PICK k \in timers \ Due : k.handle = Fire(w)
      BY <1>3, <2>4 DEF IsPending
    <3>2. \A l \in Due : l.handle # Fire(w)
      BY <1>1, <1>3, <3>1 DEF Queues
    <3> QED
      BY <1>5, <3>1, <3>2 DEF IsPending
  <2> QED
    BY <2>2, <2>3, <2>4
<1>14. Types'
  <2>1. todo' \in 0..Len(ready')
    BY <1>2, <1>5, <1>10, <1>11
  <2> QED
    BY <1>1, <1>3, <1>11, <2>1 DEF Types
<1>15. Queues'
  BY <1>1, <1>3, <1>11, <1>13 DEF Queues
<1>16. MainWaits'
  <2>1. CASE pc[Main] = "start"
    <3>1. Due = {} /\ \A x : ~InSeq(x, new)
      BY <1>1, <1>3, <1>5, <2>1 DEF MainWaits
    <3>2. ready' = ready /\ timers' = timers
      BY <1>1, <1>10, <3>1, PollNothing DEF IInv
    <3> QED
      BY <1>1, <2>1, <3>2 DEF MainWaits
  <2>2. CASE pc[Main] # "start"
    BY <1>1, <1>12, <2>2, HandleFacts DEF MainWaits
  <2> QED
    BY <2>1, <2>2
<1>17. WorkerStates'
  BY <1>1, <1>12, <1>13 DEF WorkerStates, WorkerState, Over
<1>18. Failure'
  BY <1>1 DEF Failure
<1>19. AbortIsFirst'
  <2>1. SUFFICES ASSUME fail_trigger, ~aborting, pc[Main] # "start"
                 PROVE  NothingBegun' \/ Failing'
    BY DEF AbortIsFirst
  <2>2. CASE NothingBegun
    <3>1. Due = {}
      BY <1>3, <2>2 DEF NothingBegun
    <3>2. ready' = ready /\ timers' = timers
      BY <1>10, <3>1, PollNothing
    <3> QED
      BY <2>2, <3>2 DEF NothingBegun
  <2>3. CASE Failing
    <3>1. PICK d \in 1..Len(ready) :
                 /\ ready[d] = DoneCb(1)
                 /\ \A i \in 1..d - 1 : \E w \in Workers : ready[i] = Step(w)
                 /\ \A i \in d + 1..Len(ready) : \E w \in Workers : ready[i] = Fire(w)
      BY <2>3 DEF Failing
    <3>2. /\ \A i \in 1..Len(ready) : ready'[i] = ready[i]
          /\ \A i \in Len(ready) + 1..Len(ready') :
               i - Len(ready) \in 1..Len(new) /\ ready'[i] = new[i - Len(ready)]
      BY <1>5, <1>7, <1>10, <1>11
    <3>3. \A i \in Len(ready) + 1..Len(ready') : \E w \in Workers : ready'[i] = Fire(w)
      BY <1>8, <3>2 DEF InSeq
    <3>4. d \in 1..Len(ready') /\ \A i \in d + 1..Len(ready') :
            i \in d + 1..Len(ready) \/ i \in Len(ready) + 1..Len(ready')
      BY <1>5, <1>10, <1>11
    <3>5. \A i \in d + 1..Len(ready') : \E w \in Workers : ready'[i] = Fire(w)
      BY <1>10, <3>1, <3>2, <3>3, <3>4
    <3>6. ready'[d] = DoneCb(1) /\ \A i \in 1..d - 1 : \E w \in Workers : ready'[i] = Step(w)
      BY <1>10, <3>1, <3>2
    <3> QED
      BY <2>3, <3>4, <3>5, <3>6 DEF Failing
  <2> QED
    BY <1>1, <2>1, <2>2, <2>3 DEF AbortIsFirst
<1>20. CountIsRight'
  BY <1>1 DEF CountIsRight, Counted
<1> QED
  BY <1>14, <1>15, <1>16, <1>17, <1>18, <1>19, <1>20 DEF IInv

(* The passing of time changes no handle. *)
LEMMA TickIInv ==
  ASSUME IInv, Tick, UNCHANGED <<taskVars, programVars>>
  PROVE  IInv'
<1> USE DEF taskVars, programVars
<1> DEFINE Older(k) == Timer(k.left - 1, k.handle)
           f == [k \in timers |-> Older(k)]
<1>1. timers' = {Older(k) : k \in timers} /\ timers # {} /\ UNCHANGED <<ready, todo>>
  BY DEF Tick
<1>2. /\ Types /\ Queues /\ MainWaits /\ WorkerStates /\ Failure
      /\ AbortIsFirst /\ CountIsRight
  BY DEF IInv
<1>3. \A k \in timers : Older(k) \in Timers /\ Older(k).handle = k.handle
  BY <1>2 DEF Types, Timer, Timers
<1> HIDE DEF Older
<1>4. IsFiniteSet(timers')
  <2>1. f \in Surjection(timers, timers')
    BY <1>1 DEF Surjection
  <2> QED
    BY <1>2, <2>1, FS_Surjection DEF Queues
<1>5. Types'
  <2>1. timers' \subseteq Timers
    BY <1>1, <1>3
  <2> QED
    BY <1>1, <1>2, <2>1 DEF Types
<1>6. \A x : IsPending(x)' <=> IsPending(x)
  BY <1>1, <1>3 DEF IsPending
<1>7. Queues'
  <2>1. \A k, l \in timers' : k.handle = l.handle => k = l
    BY <1>1, <1>2, <1>3 DEF Queues
  <2> QED
    BY <1>1, <1>2, <1>4, <1>6, <2>1 DEF Queues
<1>8. MainWaits' /\ Failure' /\ CountIsRight'
  BY <1>1, <1>2 DEF MainWaits, Failure, CountIsRight, Counted
<1>9. WorkerStates'
  BY <1>1, <1>2, <1>6 DEF WorkerStates, WorkerState, Over
<1>10. AbortIsFirst'
  BY <1>1, <1>2 DEF AbortIsFirst, NothingBegun, Failing
<1> QED
  BY <1>5, <1>7, <1>8, <1>9, <1>10 DEF IInv

-----------------------------------------------------------------------------
(* Before the caller has run nothing else is in the queue. *)
LEMMA Begun ==
  ASSUME IInv, NEW h, InSeq(h, ready), h # Step(Main)
  PROVE  pc[Main] # "start" /\ WorkerStates
BY QueueShort DEF IInv, MainWaits

(* What a step of one worker leaves as it is. *)
LEMMA WorkerFrame ==
  ASSUME IInv, NEW w \in Workers, pc[Main] # "start",
         \A u \in Everybody \ {w} : pc'[u] = pc[u] /\ fut'[u] = fut[u],
         UNCHANGED <<tasks, aborting>>,
         \A u \in Everybody \ {w} :
           /\ InSeq(Step(u), ready') <=> InSeq(Step(u), ready)
           /\ InSeq(Fire(u), ready') <=> InSeq(Fire(u), ready)
           /\ InSeq(DoneCb(u), ready') <=> InSeq(DoneCb(u), ready),
         \A u \in Workers \ {w} : IsPending(Fire(u))' <=> IsPending(Fire(u)),
         WorkerState(w)'
  PROVE  MainWaits' /\ WorkerStates'
<1>1. Main \in Everybody \ {w} /\ \A u \in Workers \ {w} : u \in Everybody \ {w}
  BY HandleFacts
<1>2. MainWaits'
  BY <1>1 DEF IInv, MainWaits
<1>3. ASSUME NEW u \in Workers PROVE WorkerState(u)'
  <2>1. CASE u = w
    BY <2>1
  <2>2. CASE u # w
    <3>1. WorkerState(u)
      BY DEF IInv, WorkerStates
    <3>2. /\ pc'[u] = pc[u] /\ fut'[u] = fut[u]
          /\ InSeq(Step(u), ready') <=> InSeq(Step(u), ready)
          /\ InSeq(Fire(u), ready') <=> InSeq(Fire(u), ready)
          /\ InSeq(DoneCb(u), ready') <=> InSeq(DoneCb(u), ready)
          /\ IsPending(Fire(u))' <=> IsPending(Fire(u))
      BY <1>1, <2>2
    <3> QED
      BY <3>1, <3>2 DEF WorkerState, Over
  <2> QED
    BY <2>1, <2>2
<1> QED
  BY <1>2, <1>3 DEF WorkerStates

(* A worker begins: the one that is to fail does not come here. *)
LEMMA WorkerSleepsIInv ==
  ASSUME IInv, NEW w \in Workers, WorkerSleeps(w)
  PROVE  IInv'
<1> DEFINE k == Timer(Delay(w), Fire(w))
<1>1. /\ Types /\ Queues /\ MainWaits /\ Failure /\ AbortIsFirst /\ CountIsRight
      /\ pc[w] = "start" /\ ~Raises(w) /\ RunHandle(Step(w), <<>>)
      /\ timers' = timers \union {k}
      /\ fut' = [fut EXCEPT ![w] = "pending"]
      /\ must_cancel' = must_cancel \ {w}
      /\ pc' = [pc EXCEPT ![w] = "sleep"]
      /\ UNCHANGED <<fail_trigger, count, tasks, aborting>>
  BY DEF IInv, WorkerSleeps, Suspend, Goto
<1>2. /\ ready' \in Seq(Handles) /\ todo' \in 0..Len(ready') /\ Unique(ready')
      /\ InSeq(Step(w), ready)
      /\ \A x : InSeq(x, ready') <=> InSeq(x, ready) /\ x # Step(w)
  BY <1>1, RunsAlone
<1>3. pc[Main] # "start" /\ WorkerState(w) /\ ~aborting
  <2>1. pc[Main] # "start" /\ WorkerStates
    BY <1>2, Begun, HandlesDiffer, HandleFacts
  <2> QED
    BY <1>1, <2>1 DEF WorkerStates, Failure
<1>4. k \in Timers /\ k.handle = Fire(w)
  BY DelayAssumption DEF Timers, Timer
<1> HIDE DEF k
<1>5. /\ ~InSeq(Fire(w), ready) /\ ~IsPending(Fire(w)) /\ w \in tasks
      /\ ~InSeq(DoneCb(w), ready)
  BY <1>1, <1>3 DEF WorkerState, Over
<1>6. \A u \in Workers : IsPending(Fire(u))' <=> IsPending(Fire(u)) \/ u = w
  BY <1>1, <1>4, HandlesDiffer DEF IsPending
<1>7. Types'
  <2>1. timers' \subseteq Timers
    BY <1>1, <1>4 DEF Types
  <2>2. /\ fut' \in [Everybody -> FutureStates]
        /\ pc' \in [Everybody ->
              {"start", "sleep", "ok", "error", "cancelled", "exit", "done"}]
    BY <1>1 DEF Types, FutureStates
  <2> QED
    BY <1>1, <1>2, <2>1, <2>2 DEF Types
<1>8. Queues'
  <2>1. IsFiniteSet(timers')
    BY <1>1, FS_AddElement DEF Queues
  <2>2. \A l, m \in timers' : l.handle = m.handle => l = m
    <3>1. \A l \in timers : l.handle # k.handle
      BY <1>4, <1>5 DEF IsPending
    <3> QED
      BY <1>1, <3>1 DEF Queues
  <2>3. \A u \in Workers : ~(InSeq(Fire(u), ready') /\ IsPending(Fire(u))')
    BY <1>1, <1>2, <1>5, <1>6 DEF Queues
  <2> QED
    BY <1>2, <2>1, <2>2, <2>3 DEF Queues
<1>9. /\ pc'[w] = "sleep" /\ fut'[w] = "pending"
      /\ \A u \in Everybody \ {w} : pc'[u] = pc[u] /\ fut'[u] = fut[u]
  BY <1>1, HandleFacts DEF Types
<1>10. MainWaits' /\ WorkerStates'
  <2>1. WorkerState(w)'
    BY <1>1, <1>2, <1>5, <1>6, <1>9, HandlesDiffer DEF WorkerState, Over
  <2>2. \A u \in Everybody \ {w} :
          /\ InSeq(Step(u), ready') <=> InSeq(Step(u), ready)
          /\ InSeq(Fire(u), ready') <=> InSeq(Fire(u), ready)
          /\ InSeq(DoneCb(u), ready') <=> InSeq(DoneCb(u), ready)
    BY <1>2, HandlesDiffer
  <2> QED
    BY <1>1, <1>3, <1>6, <1>9, <2>1, <2>2, WorkerFrame
<1>11. Failure'
  BY <1>1, <1>3, <1>9, HandleFacts DEF Failure
<1>12. AbortIsFirst'
  <2>1. SUFFICES ASSUME fail_trigger PROVE Failing'
    BY <1>1 DEF AbortIsFirst
  <2>2. w # 1
    BY <1>1, <2>1 DEF Raises
  <2>3. Failing
    BY <1>1, <1>3, <2>1, <2>2, FirstInLine, HandlesDiffer
  <2>4. PICK d \in 1..Len(ready) :
               /\ ready[d] = DoneCb(1)
               /\ \A i \in 1..d - 1 : \E u \in Workers : ready[i] = Step(u)
               /\ \A i \in d + 1..Len(ready) : \E u \in Workers : ready[i] = Fire(u)
    BY <2>3 DEF Failing
  <2>5. ready[1] = Step(w) /\ d # 1
    BY <1>1, <2>4, RunsFirst, HandlesDiffer
  <2> DEFINE new == <<>>
  <2>6. new \in Seq(Handles) /\ RunHandle(Step(w), new) /\ Len(new) = 0
    BY <1>1
  <2> HIDE DEF new
  <2>7. /\ Len(ready) \in Nat \ {0} /\ Len(ready') = Len(ready) - 1
        /\ \A i \in 1..Len(ready) - 1 : ready'[i] = ready[i + 1]
    <3>1. /\ Len(ready) \in Nat \ {0} /\ Len(ready') = Len(ready) - 1 + Len(new)
          /\ \A i \in 1..Len(ready) - 1 : ready'[i] = ready[i + 1]
      BY <1>1, <2>6, RunPositions DEF Types
    <3> QED
      BY <2>6, <3>1
  <2>8. /\ d - 1 \in 1..Len(ready')
        /\ ready'[d - 1] = DoneCb(1)
        /\ \A i \in 1..(d - 1) - 1 : \E u \in Workers : ready'[i] = Step(u)
        /\ \A i \in (d - 1) + 1..Len(ready') : \E u \in Workers : ready'[i] = Fire(u)
    <3>1. d - 1 \in 1..Len(ready) - 1 /\ d - 1 + 1 = d
      BY <2>4, <2>5, <2>7
    <3>2. \A i \in 1..(d - 1) - 1 : i \in 1..Len(ready) - 1 /\ i + 1 \in 1..d - 1
      BY <2>4, <2>7
    <3>3. \A i \in (d - 1) + 1..Len(ready') :
             i \in 1..Len(ready) - 1 /\ i + 1 \in d + 1..Len(ready)
      BY <2>4, <2>7
    <3> QED
      BY <2>4, <2>7, <3>1, <3>2, <3>3
  <2>9. /\ pc'[1] = "error"
        /\ \A u \in Workers \ {1} :
             pc'[u] = "start" \/ (pc'[u] = "sleep" /\ fut'[u] = "pending")
    BY <1>9, <2>2, <2>3, HandleFacts DEF Failing
  <2> QED
    BY <2>8, <2>9 DEF Failing
<1>13. CountIsRight'
  <2>1. Counted' = Counted
    BY <1>1, <1>9, HandleFacts DEF Counted
  <2> QED
    BY <1>1, <2>1 DEF CountIsRight
<1> QED
  BY <1>7, <1>8, <1>10, <1>11, <1>12, <1>13 DEF IInv

(* Worker 1 fails before any other worker has begun. *)
LEMMA WorkerRaisesIInv ==
  ASSUME IInv, NEW w \in Workers, WorkerRaises(w)
  PROVE  IInv'
<1>1. /\ Types /\ Queues /\ MainWaits /\ Failure /\ AbortIsFirst /\ CountIsRight
      /\ pc[w] = "start" /\ w = 1 /\ fail_trigger
      /\ RunHandle(Step(w), <<DoneCb(w)>>)
      /\ pc' = [pc EXCEPT ![w] = "error"]
      /\ UNCHANGED <<timers, fut, must_cancel, fail_trigger, count, tasks, aborting>>
  BY DEF IInv, WorkerRaises, Raises, Goto, taskVars
<1>2. InSeq(Step(w), ready)
  BY <1>1, RunsFirst
<1>3. pc[Main] # "start" /\ WorkerState(w) /\ ~aborting
  <2>1. pc[Main] # "start" /\ WorkerStates
    BY <1>2, Begun, HandlesDiffer, HandleFacts
  <2> QED
    BY <1>1, <2>1 DEF WorkerStates, Failure
<1>4. /\ ~InSeq(Fire(w), ready) /\ ~IsPending(Fire(w)) /\ w \in tasks
      /\ ~InSeq(DoneCb(w), ready) /\ fut[w] = "none"
  BY <1>1, <1>3 DEF WorkerState, Over
<1>5. /\ ready' \in Seq(Handles) /\ todo' \in 0..Len(ready') /\ Unique(ready')
      /\ \A x : InSeq(x, ready') <=> (InSeq(x, ready) /\ x # Step(w)) \/ x = DoneCb(w)
  BY <1>1, <1>4, RunsForOne, HandleFacts
<1>6. \A x : IsPending(x)' <=> IsPending(x)
  BY <1>1 DEF IsPending
<1>7. Types'
  <2>1. pc' \in [Everybody ->
              {"start", "sleep", "ok", "error", "cancelled", "exit", "done"}]
    BY <1>1 DEF Types
  <2> QED
    BY <1>1, <1>5, <2>1 DEF Types
<1>8. Queues'
  BY <1>1, <1>5, <1>6, HandlesDiffer DEF Queues
<1>9. pc'[w] = "error" /\ \A u \in Everybody \ {w} : pc'[u] = pc[u] /\ fut'[u] = fut[u]
  BY <1>1, HandleFacts DEF Types
<1>10. MainWaits' /\ WorkerStates'
  <2>1. WorkerState(w)'
    BY <1>1, <1>4, <1>5, <1>9, HandlesDiffer DEF WorkerState, Over
  <2>2. \A u \in Everybody \ {w} :
          /\ InSeq(Step(u), ready') <=> InSeq(Step(u), ready)
          /\ InSeq(Fire(u), ready') <=> InSeq(Fire(u), ready)
          /\ InSeq(DoneCb(u), ready') <=> InSeq(DoneCb(u), ready)
    BY <1>5, HandlesDiffer
  <2> QED
    BY <1>1, <1>3, <1>6, <1>9, <2>1, <2>2, WorkerFrame
<1>11. Failure'
  BY <1>1, <1>3, <1>9, HandleFacts DEF Failure
<1>12. AbortIsFirst'
  <2>1. NothingBegun
    BY <1>1, <1>3, FirstInLine, HandlesDiffer DEF Failing
  <2> DEFINE new == <<DoneCb(w)>>
  <2>2. new \in Seq(Handles) /\ RunHandle(Step(w), new) /\ Len(new) = 1 /\ new[1] = DoneCb(1)
    BY <1>1, HandleFacts
  <2> HIDE DEF new
  <2>3. /\ Len(ready') = NumWorkers
        /\ \A i \in 1..NumWorkers - 1 : ready'[i] = ready[i + 1]
        /\ ready'[NumWorkers] = DoneCb(1)
    <3>1. /\ Len(ready) \in Nat \ {0} /\ Len(ready') = Len(ready) - 1 + Len(new)
          /\ \A i \in 1..Len(ready) - 1 : ready'[i] = ready[i + 1]
          /\ \A i \in 1..Len(new) : ready'[Len(ready) - 1 + i] = new[i]
      BY <1>1, <2>2, RunPositions, ZenonT(40) DEF Types
    <3>2. 1 \in 1..Len(new) /\ Len(ready) = NumWorkers /\ Len(ready) - 1 + 1 = NumWorkers
      BY <2>1, <2>2, <3>1 DEF NothingBegun
    <3>3. ready'[Len(ready) - 1 + 1] = new[1]
      BY <3>1, <3>2
    <3> QED
      BY <2>2, <3>1, <3>2, <3>3
  <2>4. \A i \in 1..NumWorkers - 1 : \E u \in Workers : ready'[i] = Step(u)
    <3>1. \A i \in 1..NumWorkers - 1 : i + 1 \in Workers
      BY DEF Workers
    <3> QED
      BY <2>1, <2>3, <3>1 DEF NothingBegun
  <2>5. /\ pc'[1] = "error"
        /\ \A u \in Workers \ {1} : pc'[u] = "start"
    BY <1>1, <1>9, <2>1, HandleFacts DEF NothingBegun
  <2>6. Failing'
    BY <2>3, <2>4, <2>5 DEF Failing
  <2> QED
    BY <2>6 DEF AbortIsFirst
<1>13. CountIsRight'
  <2>1. Counted' = Counted
    BY <1>1, <1>9, HandleFacts DEF Counted
  <2> QED
    BY <1>1, <2>1 DEF CountIsRight
<1> QED
  BY <1>7, <1>8, <1>10, <1>11, <1>12, <1>13 DEF IInv

(* A worker counts only in a group that does not fail. *)
LEMMA WorkerCountsIInv ==
  ASSUME IInv, NEW w \in Workers, WorkerCounts(w)
  PROVE  IInv'
<1>1. /\ Types /\ Queues /\ MainWaits /\ Failure /\ AbortIsFirst /\ CountIsRight
      /\ pc[w] = "sleep" /\ ~Throws(w) /\ RunHandle(Step(w), <<DoneCb(w)>>)
      /\ count' = count + 1
      /\ fut' = [fut EXCEPT ![w] = "none"]
      /\ must_cancel' = must_cancel \ {w}
      /\ pc' = [pc EXCEPT ![w] = "ok"]
      /\ UNCHANGED <<timers, fail_trigger, tasks, aborting>>
  BY DEF IInv, WorkerCounts, Clear, Goto
<1>2. InSeq(Step(w), ready)
  BY <1>1, RunsFirst
<1>3. pc[Main] # "start" /\ WorkerState(w)
  BY <1>2, Begun, HandlesDiffer, HandleFacts DEF WorkerStates
<1>4. /\ fut[w] # "pending" /\ w \in tasks /\ ~InSeq(DoneCb(w), ready)
  BY <1>1, <1>2, <1>3 DEF WorkerState, Over
<1>5. ~aborting
  BY <1>1 DEF Failure, Throws
<1>6. ~fail_trigger
  <2>1. SUFFICES ASSUME fail_trigger PROVE FALSE
    OBVIOUS
  <2>2. NothingBegun \/ Failing
    BY <1>1, <1>3, <1>5, <2>1 DEF AbortIsFirst
  <2>3. w = 1
    BY <1>1, <1>4, <2>2 DEF NothingBegun, Failing
  <2> QED
    BY <1>1, <2>2, <2>3 DEF NothingBegun, Failing
<1>7. /\ ready' \in Seq(Handles) /\ todo' \in 0..Len(ready') /\ Unique(ready')
      /\ \A x : InSeq(x, ready') <=> (InSeq(x, ready) /\ x # Step(w)) \/ x = DoneCb(w)
  BY <1>1, <1>4, RunsForOne, HandleFacts
<1>8. \A x : IsPending(x)' <=> IsPending(x)
  BY <1>1 DEF IsPending
<1>9. Types'
  <2>1. /\ fut' \in [Everybody -> FutureStates]
        /\ pc' \in [Everybody ->
              {"start", "sleep", "ok", "error", "cancelled", "exit", "done"}]
    BY <1>1 DEF Types, FutureStates
  <2> QED
    BY <1>1, <1>7, <2>1 DEF Types
<1>10. Queues'
  BY <1>1, <1>7, <1>8, HandlesDiffer DEF Queues
<1>11. /\ pc'[w] = "ok" /\ fut'[w] = "none"
       /\ \A u \in Everybody \ {w} : pc'[u] = pc[u] /\ fut'[u] = fut[u]
  BY <1>1, HandleFacts DEF Types
<1>12. MainWaits' /\ WorkerStates'
  <2>1. WorkerState(w)'
    BY <1>1, <1>4, <1>7, <1>11, HandlesDiffer DEF WorkerState, Over
  <2>2. \A u \in Everybody \ {w} :
          /\ InSeq(Step(u), ready') <=> InSeq(Step(u), ready)
          /\ InSeq(Fire(u), ready') <=> InSeq(Fire(u), ready)
          /\ InSeq(DoneCb(u), ready') <=> InSeq(DoneCb(u), ready)
    BY <1>7, HandlesDiffer
  <2> QED
    BY <1>1, <1>3, <1>8, <1>11, <2>1, <2>2, WorkerFrame
<1>13. Failure'
  BY <1>1, <1>5, <1>11, HandleFacts DEF Failure
<1>14. AbortIsFirst'
  BY <1>1, <1>6 DEF AbortIsFirst
<1>15. CountIsRight'
  <2>1. Counted' = Counted \union {w} /\ w \notin Counted
    BY <1>1, <1>11, HandleFacts DEF Counted
  <2> QED
    BY <1>1, <2>1, WorkersFinite, FS_AddElement DEF CountIsRight
<1> QED
  BY <1>9, <1>10, <1>12, <1>13, <1>14, <1>15 DEF IInv

(* A worker that is cancelled leaves, and its timer with it. *)
LEMMA WorkerCancelledIInv ==
  ASSUME IInv, NEW w \in Workers, WorkerCancelled(w)
  PROVE  IInv'
<1>1. /\ Types /\ Queues /\ MainWaits /\ Failure /\ AbortIsFirst /\ CountIsRight
      /\ pc[w] = "sleep" /\ Throws(w) /\ RunHandle(Step(w), <<DoneCb(w)>>)
      /\ timers' = WithoutTimer(Fire(w))
      /\ fut' = [fut EXCEPT ![w] = "none"]
      /\ must_cancel' = must_cancel \ {w}
      /\ pc' = [pc EXCEPT ![w] = "cancelled"]
      /\ UNCHANGED <<fail_trigger, count, tasks, aborting>>
  BY DEF IInv, WorkerCancelled, Clear, Goto
<1>2. InSeq(Step(w), ready)
  BY <1>1, RunsFirst
<1>3. pc[Main] # "start" /\ WorkerState(w)
  BY <1>2, Begun, HandlesDiffer, HandleFacts DEF WorkerStates
<1>4. w \in tasks /\ ~InSeq(DoneCb(w), ready) /\ aborting
  BY <1>1, <1>3 DEF WorkerState, Over, Failure, Throws
<1>5. /\ ready' \in Seq(Handles) /\ todo' \in 0..Len(ready') /\ Unique(ready')
      /\ \A x : InSeq(x, ready') <=> (InSeq(x, ready) /\ x # Step(w)) \/ x = DoneCb(w)
  BY <1>1, <1>4, RunsForOne, HandleFacts
<1>6. timers' \subseteq timers /\ IsFiniteSet(timers')
  BY <1>1, FS_Subset DEF Queues, WithoutTimer
<1>7. \A u \in Workers : IsPending(Fire(u))' <=> IsPending(Fire(u)) /\ u # w
  BY <1>1, HandlesDiffer DEF IsPending, WithoutTimer
<1>8. Types'
  <2>1. /\ fut' \in [Everybody -> FutureStates]
        /\ pc' \in [Everybody ->
              {"start", "sleep", "ok", "error", "cancelled", "exit", "done"}]
    BY <1>1 DEF Types, FutureStates
  <2> QED
    BY <1>1, <1>5, <1>6, <2>1 DEF Types
<1>9. Queues'
  BY <1>1, <1>5, <1>6, <1>7, HandlesDiffer DEF Queues
<1>10. /\ pc'[w] = "cancelled" /\ fut'[w] = "none"
       /\ \A u \in Everybody \ {w} : pc'[u] = pc[u] /\ fut'[u] = fut[u]
  BY <1>1, HandleFacts DEF Types
<1>11. MainWaits' /\ WorkerStates'
  <2>1. WorkerState(w)'
    BY <1>1, <1>4, <1>5, <1>10, HandlesDiffer DEF WorkerState, Over
  <2>2. \A u \in Everybody \ {w} :
          /\ InSeq(Step(u), ready') <=> InSeq(Step(u), ready)
          /\ InSeq(Fire(u), ready') <=> InSeq(Fire(u), ready)
          /\ InSeq(DoneCb(u), ready') <=> InSeq(DoneCb(u), ready)
    BY <1>5, HandlesDiffer
  <2> QED
    BY <1>1, <1>3, <1>7, <1>10, <2>1, <2>2, WorkerFrame
<1>12. Failure'
  BY <1>1, <1>4, <1>10, HandleFacts DEF Failure
<1>13. AbortIsFirst'
  BY <1>1, <1>4 DEF AbortIsFirst
<1>14. CountIsRight'
  <2>1. Counted' = Counted
    BY <1>1, <1>10, HandleFacts DEF Counted
  <2> QED
    BY <1>1, <2>1 DEF CountIsRight
<1> QED
  BY <1>8, <1>9, <1>11, <1>12, <1>13, <1>14 DEF IInv

(* A sleep ends; one that was interrupted before is over already. *)
LEMMA SleepsIInv ==
  ASSUME IInv, NEW w \in Workers, Sleeps(w)
  PROVE  IInv'
<1> DEFINE wakes == fut[w] = "pending"
<1>1. /\ Types /\ Queues /\ MainWaits /\ Failure /\ AbortIsFirst /\ CountIsRight
      /\ RunHandle(Fire(w), IF wakes THEN <<Step(w)>> ELSE <<>>)
      /\ fut' = [fut EXCEPT ![w] = IF wakes THEN "result" ELSE fut[w]]
      /\ UNCHANGED <<timers, must_cancel, fail_trigger, pc, count, tasks, aborting>>
  BY DEF IInv, Sleeps, SleepFires, programVars
<1>2. InSeq(Fire(w), ready)
  BY <1>1, RunsFirst
<1>3. pc[Main] # "start" /\ WorkerState(w)
  BY <1>2, Begun, HandlesDiffer, HandleFacts DEF WorkerStates
<1>4. ~(fail_trigger /\ ~aborting)
  BY <1>1, <1>3, FirstInLine, HandlesDiffer
<1>5. /\ wakes => pc[w] = "sleep" /\ ~InSeq(Step(w), ready) /\ ~aborting
      /\ pc[w] # "start"
      /\ pc[w] = "sleep" => fut[w] # "none"
      /\ ~IsPending(Fire(w))
  BY <1>1, <1>2, <1>3, HandleFacts DEF WorkerState, Failure, Queues
<1>6. /\ ready' \in Seq(Handles) /\ todo' \in 0..Len(ready') /\ Unique(ready')
      /\ \A x : InSeq(x, ready') <=>
                  (InSeq(x, ready) /\ x # Fire(w)) \/ (wakes /\ x = Step(w))
  <2>1. CASE wakes
    <3>1. RunHandle(Fire(w), <<Step(w)>>) /\ Step(w) \in Handles
      BY <1>1, <2>1, HandleFacts
    <3>2. /\ ready' \in Seq(Handles) /\ todo' \in 0..Len(ready') /\ Unique(ready')
          /\ \A x : InSeq(x, ready') <=> (InSeq(x, ready) /\ x # Fire(w)) \/ x = Step(w)
      BY <1>1, <1>5, <2>1, <3>1, RunsForOne
    <3> QED
      BY <2>1, <3>2
  <2>2. CASE ~wakes
    <3>1. RunHandle(Fire(w), <<>>)
      BY <1>1, <2>2
    <3>2. /\ ready' \in Seq(Handles) /\ todo' \in 0..Len(ready') /\ Unique(ready')
          /\ \A x : InSeq(x, ready') <=> InSeq(x, ready) /\ x # Fire(w)
      BY <1>1, <3>1, RunsAlone
    <3> QED
      BY <2>2, <3>2
  <2> QED
    BY <2>1, <2>2
<1>7. \A x : IsPending(x)' <=> IsPending(x)
  BY <1>1 DEF IsPending
<1>8. /\ fut'[w] = IF wakes THEN "result" ELSE fut[w]
      /\ \A u \in Everybody \ {w} : pc'[u] = pc[u] /\ fut'[u] = fut[u]
      /\ pc' = pc
  BY <1>1, HandleFacts DEF Types
<1>9. Types'
  <2>1. fut' \in [Everybody -> FutureStates]
    BY <1>1, HandleFacts DEF Types, FutureStates
  <2> QED
    BY <1>1, <1>6, <2>1 DEF Types
<1>10. Queues'
  BY <1>1, <1>6, <1>7, HandlesDiffer DEF Queues
<1>11. MainWaits' /\ WorkerStates'
  <2>1. WorkerState(w)'
    <3>1. /\ InSeq(Step(w), ready') <=> InSeq(Step(w), ready) \/ wakes
          /\ InSeq(DoneCb(w), ready') <=> InSeq(DoneCb(w), ready)
      BY <1>6, HandlesDiffer
    <3>2. CASE wakes
      BY <1>1, <1>3, <1>5, <1>8, <3>1, <3>2 DEF WorkerState, Over
    <3>3. CASE ~wakes
      BY <1>1, <1>3, <1>5, <1>8, <3>1, <3>3 DEF WorkerState, Over
    <3> QED
      BY <3>2, <3>3
  <2>2. \A u \in Everybody \ {w} :
          /\ InSeq(Step(u), ready') <=> InSeq(Step(u), ready)
          /\ InSeq(Fire(u), ready') <=> InSeq(Fire(u), ready)
          /\ InSeq(DoneCb(u), ready') <=> InSeq(DoneCb(u), ready)
    BY <1>6, HandlesDiffer
  <2> QED
    BY <1>1, <1>3, <1>7, <1>8, <2>1, <2>2, WorkerFrame
<1>12. Failure'
  BY <1>1, <1>5, <1>8, HandleFacts DEF Failure
<1>13. AbortIsFirst'
  BY <1>1, <1>4 DEF AbortIsFirst
<1>14. CountIsRight'
  BY <1>1 DEF CountIsRight, Counted
<1> QED
  BY <1>9, <1>10, <1>11, <1>12, <1>13, <1>14 DEF IInv

-----------------------------------------------------------------------------
(* While a child is left the caller is in __aexit__. *)
LEMMA ChildMeansExit ==
  ASSUME IInv, NEW w \in Workers, InSeq(DoneCb(w), ready)
  PROVE  /\ pc[Main] = "exit" /\ w \in tasks /\ WorkerState(w) /\ Over(w)
         /\ fut[w] = "none" /\ ~InSeq(Step(w), ready)
<1>1. pc[Main] # "start" /\ WorkerState(w)
  BY Begun, HandlesDiffer DEF WorkerStates
<1>2. w \in tasks /\ Over(w)
  BY <1>1 DEF WorkerState
<1>3. pc[Main] = "exit"
  BY <1>1, <1>2 DEF IInv, MainWaits
<1> QED
  BY <1>1, <1>2, <1>3 DEF WorkerState, Over

(* A child that has counted or was cancelled leaves the group, and the last *)
(* one wakes the caller.                                                   *)
LEMMA ChildDoneIInv ==
  ASSUME IInv, NEW w \in Workers, ChildDone(w)
  PROVE  IInv'
<1> DEFINE wakes == tasks' = {} /\ fut[Main] = "pending"
<1>1. /\ Types /\ Queues /\ MainWaits /\ WorkerStates /\ Failure /\ AbortIsFirst
      /\ CountIsRight
      /\ pc[w] # "error" /\ tasks' = tasks \ {w}
      /\ RunHandle(DoneCb(w), IF wakes THEN <<Step(Main)>> ELSE <<>>)
      /\ fut' = [fut EXCEPT ![Main] = IF wakes THEN "result" ELSE fut[Main]]
      /\ UNCHANGED <<timers, must_cancel, fail_trigger, pc, count, aborting>>
  BY DEF IInv, ChildDone
<1> HIDE DEF wakes
<1>2. InSeq(DoneCb(w), ready)
  BY <1>1, RunsFirst
<1>3. pc[Main] = "exit" /\ w \in tasks /\ WorkerState(w) /\ Over(w)
  BY <1>2, ChildMeansExit
<1>4. ~(fail_trigger /\ ~aborting)
  <2>1. SUFFICES ASSUME fail_trigger, ~aborting PROVE FALSE
    OBVIOUS
  <2>2. Failing /\ DoneCb(w) = DoneCb(1)
    BY <1>1, <1>3, <2>1, FirstInLine, HandlesDiffer
  <2> QED
    BY <1>1, <2>2, HandlesDiffer DEF Failing
<1>5. wakes => ~InSeq(Step(Main), ready)
  BY <1>1, <1>3 DEF MainWaits, wakes
<1>6. /\ ready' \in Seq(Handles) /\ todo' \in 0..Len(ready') /\ Unique(ready')
      /\ \A x : InSeq(x, ready') <=>
                  (InSeq(x, ready) /\ x # DoneCb(w)) \/ (wakes /\ x = Step(Main))
  <2>1. CASE wakes
    <3>1. RunHandle(DoneCb(w), <<Step(Main)>>) /\ Step(Main) \in Handles
      BY <1>1, <2>1, HandleFacts
    <3>2. /\ ready' \in Seq(Handles) /\ todo' \in 0..Len(ready') /\ Unique(ready')
          /\ \A x : InSeq(x, ready') <=> (InSeq(x, ready) /\ x # DoneCb(w)) \/ x = Step(Main)
      BY <1>1, <1>5, <2>1, <3>1, RunsForOne
    <3> QED
      BY <2>1, <3>2
  <2>2. CASE ~wakes
    <3>1. RunHandle(DoneCb(w), <<>>)
      BY <1>1, <2>2
    <3>2. /\ ready' \in Seq(Handles) /\ todo' \in 0..Len(ready') /\ Unique(ready')
          /\ \A x : InSeq(x, ready') <=> InSeq(x, ready) /\ x # DoneCb(w)
      BY <1>1, <3>1, RunsAlone
    <3> QED
      BY <2>2, <3>2
  <2> QED
    BY <2>1, <2>2
<1>7. \A x : IsPending(x)' <=> IsPending(x)
  BY <1>1 DEF IsPending
<1>8. /\ fut'[Main] = IF wakes THEN "result" ELSE fut[Main]
      /\ \A u \in Workers : fut'[u] = fut[u]
  BY <1>1, HandleFacts DEF Types
<1>9. Types'
  <2>1. fut' \in [Everybody -> FutureStates]
    BY <1>1, HandleFacts DEF Types, FutureStates
  <2> QED
    BY <1>1, <1>6, <2>1 DEF Types
<1>10. Queues'
  BY <1>1, <1>6, <1>7, HandlesDiffer DEF Queues
<1>11. MainWaits'
  <2>1. InSeq(Step(Main), ready') <=> InSeq(Step(Main), ready) \/ wakes
    BY <1>6, HandlesDiffer
  <2>2. CASE wakes
    BY <1>1, <1>3, <1>8, <2>1, <2>2 DEF MainWaits, wakes
  <2>3. CASE ~wakes
    BY <1>1, <1>3, <1>8, <2>1, <2>3 DEF MainWaits, wakes
  <2> QED
    BY <2>2, <2>3
<1>12. WorkerStates'
  <2>1. SUFFICES ASSUME NEW u \in Workers PROVE WorkerState(u)'
    BY DEF WorkerStates
  <2>2. WorkerState(u)
    BY <1>1, <1>3 DEF WorkerStates
  <2>3. /\ InSeq(Step(u), ready') <=> InSeq(Step(u), ready)
        /\ InSeq(Fire(u), ready') <=> InSeq(Fire(u), ready)
        /\ InSeq(DoneCb(u), ready') <=> InSeq(DoneCb(u), ready) /\ u # w
    BY <1>6, HandlesDiffer, HandleFacts
  <2> QED
    BY <1>1, <1>3, <1>7, <1>8, <2>2, <2>3 DEF WorkerState, Over
<1>13. Failure'
  BY <1>1, <1>8 DEF Failure
<1>14. AbortIsFirst'
  BY <1>1, <1>4 DEF AbortIsFirst
<1>15. CountIsRight'
  BY <1>1 DEF CountIsRight, Counted
<1> QED
  BY <1>9, <1>10, <1>11, <1>12, <1>13, <1>14, <1>15 DEF IInv

(* The abort finds every other worker in its sleep. *)
LEMMA AbortFindsAllAsleep ==
  ASSUME IInv, NEW w \in Workers, ChildFailed(w)
  PROVE  /\ w = 1 /\ fail_trigger /\ pc[Main] = "exit" /\ fut[Main] = "pending"
         /\ pc[1] = "error" /\ fut[1] = "none" /\ 1 \in tasks
         /\ ~InSeq(Step(Main), ready)
         /\ \A u \in Workers : ~InSeq(Step(u), ready)
         /\ \A u \in Workers \ {1} : pc[u] = "sleep" /\ fut[u] = "pending" /\ u \in tasks
<1>1. /\ Types /\ Queues /\ MainWaits /\ WorkerStates /\ Failure
      /\ pc[w] = "error" /\ ~aborting
      /\ \E new : RunHandle(DoneCb(w), new)
  BY DEF IInv, ChildFailed
<1>2. w = 1 /\ fail_trigger
  BY <1>1 DEF Failure
<1>3. InSeq(DoneCb(1), ready) /\ ready[1] = DoneCb(1) /\ 1 \in 1..Len(ready)
  BY <1>1, <1>2, RunsFirst
<1>4. pc[Main] = "exit" /\ 1 \in tasks /\ fut[1] = "none"
  BY <1>3, ChildMeansExit, HandleFacts
<1>5. fut[Main] = "pending" /\ ~InSeq(Step(Main), ready)
  BY <1>1, <1>4, HandleFacts DEF MainWaits, Types, FutureStates
<1>6. Failing
  BY <1>1, <1>2, <1>4, FirstInLine, HandlesDiffer
<1>7. PICK d \in 1..Len(ready) :
             /\ ready[d] = DoneCb(1)
             /\ \A i \in d + 1..Len(ready) : \E u \in Workers : ready[i] = Fire(u)
  BY <1>6 DEF Failing
<1>8. d = 1
  BY <1>1, <1>3, <1>7 DEF Queues, Unique
<1>9. \A i \in 1..Len(ready) : i = 1 \/ i \in d + 1..Len(ready)
  BY <1>1, <1>8 DEF Types
<1>10. \A u \in Workers : ~InSeq(Step(u), ready)
  BY <1>3, <1>7, <1>9, HandlesDiffer DEF InSeq
<1>11. \A u \in Workers \ {1} : pc[u] = "sleep" /\ fut[u] = "pending" /\ u \in tasks
  BY <1>1, <1>4, <1>6, <1>10 DEF WorkerStates, WorkerState, Failing, Over
<1> QED
  BY <1>1, <1>2, <1>4, <1>5, <1>10, <1>11

(* The group cancels the others, in any order, and its parent. *)
LEMMA ChildFailedIInv ==
  ASSUME IInv, NEW w \in Workers, ChildFailed(w)
  PROVE  IInv'
<1> DEFINE live == {u \in tasks' : ~Over(u)}
           woken == Interrupted(live)
           n == Cardinality(woken)
<1>1. /\ Types /\ Queues /\ MainWaits /\ WorkerStates /\ Failure /\ AbortIsFirst
      /\ CountIsRight
      /\ ~aborting /\ tasks' = tasks \ {w}
      /\ fut' = FutAfterCancel(live \union {Main})
      /\ must_cancel' = MarkedAfterCancel(live \union {Main})
      /\ aborting' = TRUE
      /\ UNCHANGED <<timers, fail_trigger, pc, count>>
  BY DEF IInv, ChildFailed
<1>2. /\ w = 1 /\ fail_trigger /\ pc[Main] = "exit" /\ fut[Main] = "pending"
      /\ pc[1] = "error" /\ fut[1] = "none" /\ 1 \in tasks
      /\ ~InSeq(Step(Main), ready)
      /\ \A u \in Workers : ~InSeq(Step(u), ready)
      /\ \A u \in Workers \ {1} : pc[u] = "sleep" /\ fut[u] = "pending" /\ u \in tasks
  BY AbortFindsAllAsleep
<1>3. live = Workers \ {1} /\ woken = Workers \ {1}
  BY <1>1, <1>2, ZenonT(40) DEF Types, Over, Interrupted
<1>4. PICK order \in [1..n -> woken] :
        /\ \A u \in woken : \E i \in DOMAIN order : order[i] = u
        /\ RunHandle(DoneCb(w),
             [i \in DOMAIN order |-> Step(order[i])]
               \o (IF fut[Main] = "pending" THEN <<Step(Main)>> ELSE <<>>))
  BY DEF ChildFailed
<1> HIDE DEF live, woken
<1> DEFINE steps == [i \in DOMAIN order |-> Step(order[i])]
           last == <<Step(Main)>>
           new == steps \o last
<1>5. /\ IsFiniteSet(woken) /\ n \in Nat
      /\ IsFiniteSet(1..n) /\ Cardinality(1..n) = n
  <2>1. woken \subseteq Workers
    BY <1>3
  <2>2. IsFiniteSet(woken)
    BY <2>1, WorkersFinite, FS_Subset
  <2>3. n \in Nat
    BY <2>2, FS_CardinalityType
  <2> HIDE DEF n
  <2>4. IsFiniteSet(1..n) /\ Cardinality(1..n) = n
    BY <2>3, FS_Interval
  <2> QED
    BY <2>2, <2>3, <2>4
<1>6. \A i, j \in 1..n : order[i] = order[j] => i = j
  <2>1. order \in Surjection(1..n, woken)
    BY <1>4 DEF Surjection
  <2>2. order \in Injection(1..n, woken)
    BY <1>5, <2>1, FS_SurjSameCardinalityImpliesInj
  <2> QED
    BY <2>2 DEF Injection, IsInjective
<1>7. /\ steps \in Seq(Handles) /\ Len(steps) = n
      /\ \A i \in 1..n : steps[i] = Step(order[i])
  <2>1. \A i \in 1..n : order[i] \in Workers /\ Step(order[i]) \in Handles
    BY <1>3, HandleFacts
  <2>2. steps = [i \in 1..n |-> Step(order[i])] /\ n \in Nat
    BY <1>5
  <2> HIDE DEF n
  <2> QED
    BY <2>1, <2>2
<1>8. /\ Unique(steps)
      /\ \A x : InSeq(x, steps) <=> \E u \in Workers \ {1} : x = Step(u)
  <2>1. Unique(steps)
    BY <1>6, <1>7, HandlesDiffer DEF Unique
  <2>2. ASSUME NEW x, InSeq(x, steps) PROVE \E u \in Workers \ {1} : x = Step(u)
    BY <1>3, <1>4, <1>7, <2>2 DEF InSeq
  <2>3. ASSUME NEW u \in Workers \ {1} PROVE InSeq(Step(u), steps)
    <3>1. PICK i \in 1..n : order[i] = u
      BY <1>3, <1>4
    <3> QED
      BY <1>7, <3>1 DEF InSeq
  <2> QED
    BY <2>1, <2>2, <2>3
<1>9. last \in Seq(Handles) /\ Unique(last) /\ \A x : InSeq(x, last) <=> x = Step(Main)
  BY QueueShort, HandleFacts
<1>10. RunHandle(DoneCb(w), new)
  BY <1>2, <1>4
<1> HIDE DEF steps, last
<1>11. /\ new \in Seq(Handles) /\ Unique(new)
       /\ \A x : InSeq(x, new) <=> x = Step(Main) \/ \E u \in Workers \ {1} : x = Step(u)
  <2>1. \A x : InSeq(x, last) => ~InSeq(x, steps)
    BY <1>8, <1>9, HandlesDiffer, HandleFacts
  <2>2. /\ new \in Seq(Handles) /\ Unique(new)
        /\ \A x : InSeq(x, new) <=> InSeq(x, steps) \/ InSeq(x, last)
    BY <1>7, <1>8, <1>9, <2>1, QueueAppend
  <2> QED
    BY <1>8, <1>9, <2>2
<1> HIDE DEF new
<1>12. /\ ready' \in Seq(Handles) /\ todo' \in 0..Len(ready') /\ Unique(ready')
       /\ InSeq(DoneCb(1), ready)
       /\ \A x : InSeq(x, ready') <=> (InSeq(x, ready) /\ x # DoneCb(1)) \/ InSeq(x, new)
  <2>1. \A x : InSeq(x, new) => ~InSeq(x, ready)
    BY <1>2, <1>11
  <2> QED
    BY <1>1, <1>2, <1>10, <1>11, <2>1, RunFacts DEF Types, Queues
<1>13. \A x : IsPending(x)' <=> IsPending(x)
  BY <1>1 DEF IsPending
<1>14. /\ fut'[Main] = "cancelled" /\ fut'[1] = "none"
       /\ \A u \in Workers \ {1} : fut'[u] = "cancelled"
       /\ fut' \in [Everybody -> FutureStates]
  <2>1. \A u \in live \union {Main} : fut[u] = "pending"
    BY <1>2, <1>3
  <2>2. DOMAIN fut = Everybody /\ Interrupted(live \union {Main}) = live \union {Main}
    BY <1>1, <2>1 DEF Types, Interrupted
  <2>3. fut' = [t \in Everybody |-> IF t \in live \union {Main} THEN "cancelled" ELSE fut[t]]
    BY <1>1, <2>2 DEF FutAfterCancel
  <2>4. \A t \in Everybody : fut[t] \in FutureStates /\ "cancelled" \in FutureStates
    BY <1>1 DEF Types, FutureStates
  <2>5. fut' \in [Everybody -> FutureStates]
    BY <2>3, <2>4
  <2>6. /\ fut'[Main] = "cancelled" /\ fut'[1] = fut[1]
        /\ \A u \in Workers \ {1} : fut'[u] = "cancelled"
    BY <1>3, <2>3, HandleFacts
  <2> QED
    BY <1>2, <2>5, <2>6
<1>15. must_cancel' = {}
  <2>1. Interrupted(live \union {Main}) = live \union {Main}
    BY <1>2, <1>3 DEF Interrupted
  <2> QED
    BY <1>1, <2>1 DEF MarkedAfterCancel, Failure
<1>16. Types'
  BY <1>1, <1>12, <1>14, <1>15 DEF Types
<1>17. \A u \in Workers :
         /\ InSeq(Step(u), ready') <=> u # 1
         /\ InSeq(Fire(u), ready') <=> InSeq(Fire(u), ready)
         /\ InSeq(DoneCb(u), ready') <=> InSeq(DoneCb(u), ready) /\ u # 1
  BY <1>2, <1>11, <1>12, HandlesDiffer, HandleFacts
<1>18. Queues'
  BY <1>1, <1>12, <1>13, <1>17 DEF Queues
<1>19. MainWaits'
  BY <1>1, <1>2, <1>11, <1>12, <1>14, HandlesDiffer DEF MainWaits
<1>20. WorkerStates'
  <2>1. SUFFICES ASSUME NEW u \in Workers PROVE WorkerState(u)'
    BY DEF WorkerStates
  <2>2. WorkerState(u)
    BY <1>1, <1>2 DEF WorkerStates
  <2>3. CASE u = 1
    BY <1>1, <1>2, <1>13, <1>14, <1>17, <2>2, <2>3 DEF WorkerState, Over
  <2>4. CASE u # 1
    BY <1>1, <1>2, <1>13, <1>14, <1>17, <2>2, <2>4 DEF WorkerState, Over
  <2> QED
    BY <2>3, <2>4
<1>21. Failure'
  BY <1>1, <1>2, <1>14, <1>15 DEF Failure
<1>22. AbortIsFirst'
  BY <1>1 DEF AbortIsFirst
<1>23. CountIsRight'
  BY <1>1 DEF CountIsRight, Counted
<1> QED
  BY <1>16, <1>18, <1>19, <1>20, <1>21, <1>22, <1>23 DEF IInv

(* The caller goes on: it waits again for the children that are left, ... *)
LEMMA MainWaitsOnIInv ==
  ASSUME IInv, MainWaitsOn
  PROVE  IInv'
<1>1. /\ Types /\ Queues /\ MainWaits /\ WorkerStates /\ Failure /\ AbortIsFirst
      /\ CountIsRight
      /\ pc[Main] = "exit" /\ tasks # {} /\ RunHandle(Step(Main), <<>>)
      /\ fut' = [fut EXCEPT ![Main] = "pending"]
      /\ must_cancel' = must_cancel \ {Main}
      /\ UNCHANGED <<timers, fail_trigger, pc, count, tasks, aborting>>
  BY DEF IInv, MainWaitsOn, Suspend, programVars
<1>2. ~(fail_trigger /\ ~aborting)
  BY <1>1, FirstInLine, HandlesDiffer, HandleFacts
<1>3. /\ ready' \in Seq(Handles) /\ todo' \in 0..Len(ready') /\ Unique(ready')
      /\ \A x : InSeq(x, ready') <=> InSeq(x, ready) /\ x # Step(Main)
  BY <1>1, RunsAlone
<1>4. \A x : IsPending(x)' <=> IsPending(x)
  BY <1>1 DEF IsPending
<1>5. fut'[Main] = "pending" /\ \A u \in Workers : fut'[u] = fut[u]
  BY <1>1, HandleFacts DEF Types
<1>6. Types'
  <2>1. fut' \in [Everybody -> FutureStates]
    BY <1>1 DEF Types, FutureStates
  <2> QED
    BY <1>1, <1>3, <2>1 DEF Types
<1>7. Queues'
  BY <1>1, <1>3, <1>4 DEF Queues
<1>8. MainWaits'
  BY <1>1, <1>3, <1>5 DEF MainWaits
<1>9. WorkerStates'
  <2>1. \A u \in Workers : /\ InSeq(Step(u), ready') <=> InSeq(Step(u), ready)
                           /\ InSeq(Fire(u), ready') <=> InSeq(Fire(u), ready)
                           /\ InSeq(DoneCb(u), ready') <=> InSeq(DoneCb(u), ready)
    BY <1>3, HandlesDiffer, HandleFacts
  <2> QED
    BY <1>1, <1>4, <1>5, <2>1 DEF WorkerStates, WorkerState, Over
<1>10. Failure' /\ AbortIsFirst' /\ CountIsRight'
  BY <1>1, <1>2, <1>5 DEF Failure, AbortIsFirst, CountIsRight, Counted
<1> QED
  BY <1>6, <1>7, <1>8, <1>9, <1>10 DEF IInv

(* ... or returns. *)
LEMMA MainReturnIInv ==
  ASSUME IInv, MainReturn
  PROVE  IInv'
<1>1. /\ Types /\ Queues /\ MainWaits /\ WorkerStates /\ Failure /\ AbortIsFirst
      /\ CountIsRight
      /\ pc[Main] = "exit" /\ tasks = {} /\ RunHandle(Step(Main), <<>>)
      /\ fut' = [fut EXCEPT ![Main] = "none"]
      /\ must_cancel' = must_cancel \ {Main}
      /\ pc' = [pc EXCEPT ![Main] = "done"]
      /\ UNCHANGED <<timers, fail_trigger, count, tasks, aborting>>
  BY DEF IInv, MainReturn, Clear, Goto
<1>2. ~(fail_trigger /\ ~aborting)
  BY <1>1, FirstInLine, HandlesDiffer, HandleFacts
<1>3. /\ ready' \in Seq(Handles) /\ todo' \in 0..Len(ready') /\ Unique(ready')
      /\ \A x : InSeq(x, ready') <=> InSeq(x, ready) /\ x # Step(Main)
  BY <1>1, RunsAlone
<1>4. \A x : IsPending(x)' <=> IsPending(x)
  BY <1>1 DEF IsPending
<1>5. /\ fut'[Main] = "none" /\ pc'[Main] = "done"
      /\ \A u \in Workers : fut'[u] = fut[u] /\ pc'[u] = pc[u]
  BY <1>1, HandleFacts DEF Types
<1>6. Types'
  <2>1. /\ fut' \in [Everybody -> FutureStates]
        /\ pc' \in [Everybody ->
              {"start", "sleep", "ok", "error", "cancelled", "exit", "done"}]
    BY <1>1 DEF Types, FutureStates
  <2> QED
    BY <1>1, <1>3, <2>1 DEF Types
<1>7. Queues'
  BY <1>1, <1>3, <1>4 DEF Queues
<1>8. MainWaits'
  BY <1>1, <1>3, <1>5 DEF MainWaits
<1>9. WorkerStates'
  <2>1. \A u \in Workers : /\ InSeq(Step(u), ready') <=> InSeq(Step(u), ready)
                           /\ InSeq(Fire(u), ready') <=> InSeq(Fire(u), ready)
                           /\ InSeq(DoneCb(u), ready') <=> InSeq(DoneCb(u), ready)
    BY <1>3, HandlesDiffer, HandleFacts
  <2> QED
    BY <1>1, <1>4, <1>5, <2>1 DEF WorkerStates, WorkerState, Over
<1>10. Failure' /\ AbortIsFirst'
  BY <1>1, <1>2, <1>5, HandleFacts DEF Failure, AbortIsFirst
<1>11. CountIsRight'
  <2>1. Counted' = Counted
    BY <1>5 DEF Counted
  <2> QED
    BY <1>1, <2>1 DEF CountIsRight
<1> QED
  BY <1>6, <1>7, <1>8, <1>9, <1>10, <1>11 DEF IInv

(* The invariant is inductive. *)
LEMMA NextIInv == IInv /\ [Next]_vars => IInv'
<1> SUFFICES ASSUME IInv, [Next]_vars PROVE IInv'
  OBVIOUS
<1>1. CASE Loop
  BY <1>1, StartIterationIInv, TickIInv DEF Loop
<1>2. CASE MainStart
  BY <1>2, MainStartIInv
<1>3. ASSUME NEW w \in Workers,
             \/ Sleeps(w) \/ WorkerSleeps(w) \/ WorkerRaises(w) \/ WorkerCounts(w)
             \/ WorkerCancelled(w) \/ ChildDone(w) \/ ChildFailed(w)
      PROVE  IInv'
  BY <1>3, SleepsIInv, WorkerSleepsIInv, WorkerRaisesIInv, WorkerCountsIInv,
     WorkerCancelledIInv, ChildDoneIInv, ChildFailedIInv
<1>4. CASE MainWaitsOn
  BY <1>4, MainWaitsOnIInv
<1>5. CASE MainReturn
  BY <1>5, MainReturnIInv
<1>6. CASE Finished \/ UNCHANGED vars
  <2>1. /\ UNCHANGED <<ready, todo, timers, fut, must_cancel>>
        /\ UNCHANGED <<fail_trigger, pc, count, tasks, aborting>>
    BY <1>6 DEF Finished, vars, loopVars, taskVars, programVars
  <2>2. Types' /\ Queues' /\ MainWaits' /\ Failure' /\ CountIsRight'
    BY <2>1 DEF IInv, Types, Queues, MainWaits, Failure, CountIsRight, Counted, IsPending
  <2>3. WorkerStates' /\ AbortIsFirst'
    BY <2>1 DEF IInv, WorkerStates, WorkerState, AbortIsFirst, NothingBegun, Failing,
         Over, IsPending
  <2> QED
    BY <2>2, <2>3 DEF IInv
<1> QED
  BY <1>1, <1>2, <1>3, <1>4, <1>5, <1>6 DEF Next
-----------------------------------------------------------------------------
(* Type correctness for every number of workers. *)
THEOREM TypeCorrect == Spec => []TypeOK
<1>1. IInv => TypeOK
  BY WorkersFinite DEF IInv, Types, CountIsRight, TypeOK, Everybody
<1> QED
  BY <1>1, InitIInv, NextIInv, PTL DEF Spec

(***************************************************************************)
(* A group that is to fail never counts a worker, however late the loop is *)
(* and however short the others sleep: the abort comes before every timer. *)
(***************************************************************************)
THEOREM FailureCountsNobody == Spec => []FailureCountsNothing
<1>1. IInv => FailureCountsNothing
  <2>1. SUFFICES ASSUME IInv, fail_trigger PROVE count = 0
    BY DEF FailureCountsNothing
  <2>2. \A w \in Workers : pc[w] # "ok"
    <3>1. CASE pc[Main] = "start"
      BY <2>1, <3>1 DEF IInv, MainWaits
    <3>2. CASE pc[Main] # "start" /\ aborting
      BY <2>1, <3>2 DEF IInv, Failure
    <3>3. CASE pc[Main] # "start" /\ ~aborting
      BY <2>1, <3>3 DEF IInv, AbortIsFirst, NothingBegun, Failing
    <3> QED
      BY <3>1, <3>2, <3>3
  <2>3. Counted = {}
    BY <2>2 DEF Counted
  <2> QED
    BY <2>1, <2>3, FS_EmptySet DEF IInv, CountIsRight
<1> QED
  BY <1>1, InitIInv, NextIInv, PTL DEF Spec

(***************************************************************************)
(* The abort reaches every worker: whoever is not over has a               *)
(* CancelledError and the step that throws it coming.                      *)
(***************************************************************************)
THEOREM AbortReachesEveryWorker == Spec => []AbortReachesAll
<1>1. IInv => AbortReachesAll
  <2>1. SUFFICES ASSUME IInv, aborting, NEW w \in Workers, ~Over(w)
                 PROVE  Throws(w) /\ IsReady(Step(w))
    BY DEF AbortReachesAll
  <2>2. pc[w] = "sleep" /\ fut[w] = "cancelled"
    BY <2>1 DEF IInv, Failure, Over
  <2>3. InSeq(Step(w), ready)
    BY <2>1, <2>2 DEF IInv, MainWaits, WorkerStates, WorkerState
  <2> QED
    BY <2>2, <2>3 DEF Throws, IsReady, InSeq
<1> QED
  BY <1>1, InitIInv, NextIInv, PTL DEF Spec

(* No worker outlives the benchmark. *)
THEOREM NobodyOutlivesTheGroup == Spec => []NoOrphan
<1>1. IInv => NoOrphan
  BY DEF IInv, NoOrphan, MainWaits, WorkerStates, WorkerState
<1> QED
  BY <1>1, InitIInv, NextIInv, PTL DEF Spec

(***************************************************************************)
(* What the benchmark returns: nothing of a group that failed, and every   *)
(* worker of one that did not.                                             *)
(***************************************************************************)
ReturnsOnlyCount ==
  pc[Main] = "done" => count = IF fail_trigger THEN 0 ELSE NumWorkers

THEOREM ReturnIsRight == Spec => []ReturnsOnlyCount
<1>1. IInv /\ FailureCountsNothing => ReturnsOnlyCount
  <2>1. SUFFICES ASSUME IInv, pc[Main] = "done", ~fail_trigger
                 PROVE  count = NumWorkers
    BY DEF ReturnsOnlyCount, FailureCountsNothing
  <2>2. \A w \in Workers : pc[w] = "ok"
    BY <2>1, HandleFacts
       DEF IInv, MainWaits, WorkerStates, WorkerState, Failure, Over
  <2>3. Counted = Workers
    BY <2>2 DEF Counted
  <2> QED
    BY <2>1, <2>3, WorkersFinite DEF IInv, CountIsRight
<1> QED
  BY <1>1, InitIInv, NextIInv, FailureCountsNobody, PTL DEF Spec

(***************************************************************************)
(* The group never hangs: when nothing is ready and no timer is left, the  *)
(* benchmark has returned.                                                 *)
(***************************************************************************)
DoneWhenIdle == ready = <<>> /\ timers = {} => pc[Main] = "done"

THEOREM NeverStuck == Spec => []DoneWhenIdle
<1>1. IInv => DoneWhenIdle
  <2>1. SUFFICES ASSUME IInv, ready = <<>>, timers = {}, pc[Main] # "done"
                 PROVE  FALSE
    BY DEF DoneWhenIdle
  <2>2. (\A x : ~InSeq(x, ready)) /\ \A x : ~IsPending(x)
    BY <2>1, QueueShort DEF IsPending
  <2>3. pc[Main] = "exit"
    <3>1. Len(<<Step(Main)>>) # Len(<<>>)
      OBVIOUS
    <3> QED
      BY <2>1, <3>1 DEF IInv, MainWaits
  <2>4. tasks # {}
    BY <2>1, <2>2, <2>3 DEF IInv, MainWaits
  <2>5. PICK w \in Workers : w \in tasks
    BY <2>1, <2>4 DEF IInv, Types
  <2>6. WorkerState(w)
    BY <2>1, <2>3 DEF IInv, WorkerStates
  <2> QED
    BY <2>2, <2>5, <2>6 DEF WorkerState, Over
<1> QED
  BY <1>1, InitIInv, NextIInv, PTL DEF Spec
=============================================================================
