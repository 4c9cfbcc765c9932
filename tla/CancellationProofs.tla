-------------------------- MODULE CancellationProofs --------------------------
(***************************************************************************)
(* The two benchmarks in which a cancellation races a timer: b2 (a caller  *)
(* cancels a sleeping job) and b5 (wait_for), for all delays and however   *)
(* late the loop is.  Who wins is a matter of the order in the ready       *)
(* queue, and that one of the time left on the timers.                     *)
(***************************************************************************)
EXTENDS FireAndForget, RaceTimeout, EventLoopProofs

(***************************************************************************)
(* Order in a queue.                                                       *)
(***************************************************************************)
\* Every x is before every y.
Ahead(s, x, y) == \A i, j \in 1..Len(s) : s[i] = x /\ s[j] = y => i < j

Once(s, x) == \A i, j \in 1..Len(s) : s[i] = x /\ s[j] = x => i = j

LEMMA JoinOrder ==
  ASSUME NEW S, NEW s \in Seq(S), NEW n \in Seq(S)
  PROVE  /\ s \o n \in Seq(S) /\ Len(s \o n) = Len(s) + Len(n)
         /\ \A x : InSeq(x, s \o n) <=> InSeq(x, s) \/ InSeq(x, n)
         /\ \A x, y : Ahead(s, x, y) /\ Ahead(n, x, y) /\ ~(InSeq(x, n) /\ InSeq(y, s))
              => Ahead(s \o n, x, y)
         /\ \A x : Once(s, x) /\ ~InSeq(x, n) => Once(s \o n, x)
<1> DEFINE r == s \o n
<1>1. /\ r \in Seq(S) /\ Len(r) = Len(s) + Len(n) /\ Len(s) \in Nat /\ Len(n) \in Nat
      /\ \A i \in 1..Len(s) : r[i] = s[i]
      /\ \A i \in 1..Len(n) : r[Len(s) + i] = n[i]
  OBVIOUS
<1>2. \A i \in 1..Len(r) : \/ i \in 1..Len(s) /\ r[i] = s[i]
                           \/ i - Len(s) \in 1..Len(n) /\ r[i] = n[i - Len(s)]
  OBVIOUS
<1> HIDE DEF r
<1>3. ASSUME NEW x PROVE InSeq(x, r) <=> InSeq(x, s) \/ InSeq(x, n)
  <2>1. \A i \in 1..Len(s) : i \in 1..Len(r)
    BY <1>1
  <2>2. \A i \in 1..Len(n) : Len(s) + i \in 1..Len(r)
    BY <1>1
  <2>3. InSeq(x, s) => InSeq(x, r)
    BY <1>1, <2>1 DEF InSeq
  <2>4. InSeq(x, n) => InSeq(x, r)
    BY <1>1, <2>2 DEF InSeq
  <2>5. InSeq(x, r) => InSeq(x, s) \/ InSeq(x, n)
    BY <1>2 DEF InSeq
  <2> QED
    BY <2>3, <2>4, <2>5
<1>4. ASSUME NEW x, NEW y, Ahead(s, x, y), Ahead(n, x, y), ~(InSeq(x, n) /\ InSeq(y, s))
      PROVE  Ahead(r, x, y)
  <2>1. SUFFICES ASSUME NEW i \in 1..Len(r), NEW j \in 1..Len(r), r[i] = x, r[j] = y
                 PROVE  i < j
    BY DEF Ahead
  <2>2. CASE i \in 1..Len(s) /\ r[i] = s[i] /\ j \in 1..Len(s) /\ r[j] = s[j]
    BY <1>4, <2>1, <2>2 DEF Ahead
  <2>3. CASE i \in 1..Len(s) /\ j - Len(s) \in 1..Len(n)
    BY <1>1, <2>3
  <2>4. CASE /\ i - Len(s) \in 1..Len(n) /\ r[i] = n[i - Len(s)]
             /\ j - Len(s) \in 1..Len(n) /\ r[j] = n[j - Len(s)]
    <3>1. i - Len(s) < j - Len(s)
      BY <1>4, <2>1, <2>4 DEF Ahead
    <3> QED
      BY <1>1, <3>1
  <2>5. CASE /\ i - Len(s) \in 1..Len(n) /\ r[i] = n[i - Len(s)]
             /\ j \in 1..Len(s) /\ r[j] = s[j]
    BY <1>4, <2>1, <2>5 DEF InSeq
  <2> QED
    BY <1>2, <2>1, <2>2, <2>3, <2>4, <2>5
<1>5. ASSUME NEW x, Once(s, x), ~InSeq(x, n) PROVE Once(r, x)
  <2>1. \A i \in 1..Len(r) : r[i] = x => i \in 1..Len(s) /\ s[i] = x
    BY <1>2, <1>5 DEF InSeq
  <2> QED
    BY <1>5, <2>1 DEF Once
<1> QED
  BY <1>1, <1>3, <1>4, <1>5 DEF r

LEMMA TailOrder ==
  ASSUME NEW S, NEW s \in Seq(S), s # <<>>
  PROVE  /\ Tail(s) \in Seq(S) /\ Len(Tail(s)) = Len(s) - 1
         /\ \A x : InSeq(x, Tail(s)) => InSeq(x, s)
         /\ \A x : InSeq(x, s) /\ x # Head(s) => InSeq(x, Tail(s))
         /\ \A x, y : Ahead(s, x, y) => Ahead(Tail(s), x, y)
         /\ \A x : Once(s, x) => Once(Tail(s), x)
         /\ InSeq(Head(s), s) /\ Head(s) \in S
         /\ \A x : Ahead(s, x, Head(s)) => ~InSeq(x, s)
         /\ Once(s, Head(s)) => ~InSeq(Head(s), Tail(s))
<1> DEFINE r == Tail(s)
<1>1. /\ r \in Seq(S) /\ Len(s) \in Nat \ {0} /\ Len(r) = Len(s) - 1 /\ Head(s) = s[1]
      /\ Head(s) \in S
      /\ \A i \in 1..Len(r) : i + 1 \in 1..Len(s) /\ r[i] = s[i + 1]
  OBVIOUS
<1>2. \A i \in 1..Len(s) : i = 1 \/ (i - 1 \in 1..Len(r) /\ r[i - 1] = s[i])
  OBVIOUS
<1> HIDE DEF r
<1>3. \A x : InSeq(x, r) => InSeq(x, s)
  BY <1>1 DEF InSeq
<1>4. \A x : InSeq(x, s) /\ x # Head(s) => InSeq(x, r)
  BY <1>1, <1>2 DEF InSeq
<1>5. ASSUME NEW x, NEW y, Ahead(s, x, y) PROVE Ahead(r, x, y)
  <2>1. SUFFICES ASSUME NEW i \in 1..Len(r), NEW j \in 1..Len(r), r[i] = x, r[j] = y
                 PROVE  i < j
    BY DEF Ahead
  <2>2. i + 1 < j + 1
    BY <1>1, <1>5, <2>1 DEF Ahead
  <2> QED
    BY <2>2
<1>6. ASSUME NEW x, Once(s, x) PROVE Once(r, x)
  <2>1. SUFFICES ASSUME NEW i \in 1..Len(r), NEW j \in 1..Len(r), r[i] = x, r[j] = x
                 PROVE  i = j
    BY DEF Once
  <2>2. i + 1 = j + 1
    BY <1>1, <1>6, <2>1 DEF Once
  <2> QED
    BY <2>2
<1>7. InSeq(Head(s), s) /\ 1 \in 1..Len(s)
  BY <1>1 DEF InSeq
<1>8. ASSUME NEW x, Ahead(s, x, Head(s)) PROVE ~InSeq(x, s)
  BY <1>1, <1>7, <1>8 DEF Ahead, InSeq
<1>9. ASSUME Once(s, Head(s)), InSeq(Head(s), r) PROVE FALSE
  <2>1. PICK i \in 1..Len(r) : r[i] = Head(s)
    BY <1>9 DEF InSeq
  <2>2. i + 1 \in 1..Len(s) /\ s[i + 1] = Head(s) /\ i + 1 # 1
    BY <1>1, <2>1
  <2> QED
    BY <1>1, <1>7, <1>9, <2>2 DEF Once
<1> QED
  BY <1>1, <1>3, <1>4, <1>5, <1>6, <1>7, <1>8, <1>9 DEF r

(* A handle that was not queued is queued once.                            *)
LEMMA OnceAppended ==
  ASSUME NEW S, NEW s \in Seq(S), s # <<>>, NEW x \in S, ~InSeq(x, s)
  PROVE  Once(Tail(s) \o <<x>>, x)
<1>1. /\ Tail(s) \in Seq(S) /\ \A y : InSeq(y, Tail(s)) => InSeq(y, s)
  BY TailOrder
<1> PICK r : r = Tail(s)
  OBVIOUS
<1>2. r \in Seq(S) /\ ~InSeq(x, r)
  BY <1>1
<1>3. r \o <<x>> = Append(r, x)
  BY <1>2
<1>4. /\ Len(Append(r, x)) = Len(r) + 1 /\ Len(r) \in Nat
      /\ \A j \in 1..Len(r) : Append(r, x)[j] = r[j]
  BY <1>2
<1>5. \A j \in 1..Len(Append(r, x)) : Append(r, x)[j] = x => j = Len(r) + 1
  <2>1. \A j \in 1..Len(Append(r, x)) : j \in 1..Len(r) \/ j = Len(r) + 1
    BY <1>4
  <2> QED
    BY <1>2, <1>4, <2>1 DEF InSeq
<1> QED
  BY <1>3, <1>5 DEF Once

LEMMA NotEmpty ==
  ASSUME NEW S, NEW s \in Seq(S), s # <<>>
  PROVE  Len(s) \in Nat \ {0} /\ DOMAIN s = 1..Len(s) /\ \A i \in 1..Len(s) : s[i] \in S
OBVIOUS

(* What a handle that runs does to the order.                              *)
LEMMA RunOrder ==
  ASSUME NEW S, NEW h, NEW new \in Seq(S), ready \in Seq(S), todo \in 0..Len(ready),
         RunHandle(h, new)
  PROVE  /\ ready' \in Seq(S) /\ todo' \in 0..Len(ready') /\ InSeq(h, ready)
         /\ \A x : InSeq(x, ready') => InSeq(x, ready) \/ InSeq(x, new)
         /\ \A x : InSeq(x, new) => InSeq(x, ready')
         /\ \A x : InSeq(x, ready) /\ x # h => InSeq(x, ready')
         /\ \A x, y : Ahead(ready, x, y) /\ Ahead(new, x, y)
                      /\ ~(InSeq(x, new) /\ InSeq(y, ready)) => Ahead(ready', x, y)
         /\ \A x : Once(ready, x) /\ ~InSeq(x, new) => Once(ready', x)
         /\ \A x : Ahead(ready, x, h) => ~InSeq(x, ready)
         /\ Once(ready, h) /\ ~InSeq(h, new) => ~InSeq(h, ready')
<1> PICK rest : rest = Tail(ready)
  OBVIOUS
<1>1. /\ ready # <<>> /\ Head(ready) = h /\ ready' = rest \o new /\ todo' = todo - 1
      /\ todo > 0 /\ Len(ready) \in Nat /\ Len(new) \in Nat
  BY DEF RunHandle
<1>2. /\ rest \in Seq(S) /\ Len(rest) = Len(ready) - 1
      /\ \A x : InSeq(x, rest) => InSeq(x, ready)
      /\ \A x : InSeq(x, ready) /\ x # h => InSeq(x, rest)
      /\ \A x, y : Ahead(ready, x, y) => Ahead(rest, x, y)
      /\ \A x : Once(ready, x) => Once(rest, x)
      /\ InSeq(h, ready)
      /\ \A x : Ahead(ready, x, h) => ~InSeq(x, ready)
      /\ Once(ready, h) => ~InSeq(h, rest)
  BY <1>1, TailOrder
<1>3. /\ rest \o new \in Seq(S) /\ Len(rest \o new) = Len(rest) + Len(new)
      /\ \A x : InSeq(x, rest \o new) <=> InSeq(x, rest) \/ InSeq(x, new)
      /\ \A x, y : Ahead(rest, x, y) /\ Ahead(new, x, y) /\ ~(InSeq(x, new) /\ InSeq(y, rest))
           => Ahead(rest \o new, x, y)
      /\ \A x : Once(rest, x) /\ ~InSeq(x, new) => Once(rest \o new, x)
  BY <1>2, JoinOrder
<1>4. todo' \in 0..Len(ready')
  BY <1>1, <1>2, <1>3
<1> QED
  BY <1>1, <1>2, <1>3, <1>4

(* ... and what a poll does: the timers that are due come behind, by the   *)
(* time they have left.                                                    *)
LEMMA PollOrder ==
  ASSUME NEW S, ready \in Seq(S), NEW T, timers \in SUBSET [left : Int, handle : T],
         T \subseteq S, IsFiniteSet(timers), StartIteration
  PROVE  /\ ready' \in Seq(S) /\ todo' \in 0..Len(ready') /\ timers' = timers \ Due
         /\ todo = 0 /\ todo' = Len(ready')
         /\ \A x : InSeq(x, ready') <=> InSeq(x, ready) \/ \E t \in Due : t.handle = x
         /\ \A x, y : /\ Ahead(ready, x, y)
                      /\ \A t, u \in Due : t.handle = x /\ u.handle = y => t.left < u.left
                      /\ InSeq(y, ready) => \A t \in Due : t.handle # x
                      => Ahead(ready', x, y)
         /\ \A x : Once(ready, x) /\ (\A t \in Due : t.handle # x) => Once(ready', x)
<1>1. PICK q \in ByDeadline(Due) : /\ ready' = ready \o [i \in DOMAIN q |-> q[i].handle]
                                   /\ todo' = Len(ready) + Len(q)
                                   /\ todo = 0 /\ timers' = timers \ Due
  BY DEF StartIteration
<1> PICK n : n = [i \in DOMAIN q |-> q[i].handle]
  OBVIOUS
<1>2. Due \subseteq timers /\ IsFiniteSet(Due)
  BY FS_Subset DEF Due
<1>3. Cardinality(Due) \in Nat
  BY <1>2, FS_CardinalityType
<1>4. /\ q \in [1..Cardinality(Due) -> Due]
      /\ \A i, j \in DOMAIN q : i < j => q[i].left <= q[j].left
  BY <1>1 DEF ByDeadline
<1>5. q \in Seq(Due) /\ Len(q) \in Nat /\ DOMAIN q = 1..Len(q)
  BY <1>3, <1>4
<1>6. /\ n \in Seq(S) /\ Len(n) = Len(q)
      /\ \A i \in 1..Len(n) : q[i] \in Due /\ n[i] = q[i].handle
  BY <1>2, <1>5
<1>7. \A x : InSeq(x, n) <=> \E t \in Due : t.handle = x
  <2> TAKE x
  <2>1. \A t \in Due : InSeq(t.handle, n)
    BY <1>1, <1>2, PollAll
  <2>2. ASSUME InSeq(x, n) PROVE \E t \in Due : t.handle = x
    <3>1. PICK i \in 1..Len(n) : n[i] = x
      BY <2>2 DEF InSeq
    <3> QED
      BY <1>6, <3>1
  <2> QED
    BY <2>1, <2>2
<1>8. ASSUME NEW x, NEW y,
             \A t, u \in Due : t.handle = x /\ u.handle = y => t.left < u.left
      PROVE  Ahead(n, x, y)
  <2>1. SUFFICES ASSUME NEW i \in 1..Len(n), NEW j \in 1..Len(n), n[i] = x, n[j] = y
                 PROVE  i < j
    BY DEF Ahead
  <2>2. q[i].left < q[j].left /\ q[i].left \in Int /\ q[j].left \in Int
    BY <1>2, <1>6, <1>8, <2>1
  <2>3. ~(j < i) /\ i # j
    BY <1>4, <1>5, <1>6, <2>2
  <2> QED
    BY <1>5, <1>6, <2>3
<1>9. /\ ready \o n \in Seq(S) /\ Len(ready \o n) = Len(ready) + Len(n)
      /\ \A x : InSeq(x, ready \o n) <=> InSeq(x, ready) \/ InSeq(x, n)
      /\ \A x, y : Ahead(ready, x, y) /\ Ahead(n, x, y) /\ ~(InSeq(x, n) /\ InSeq(y, ready))
           => Ahead(ready \o n, x, y)
      /\ \A x : Once(ready, x) /\ ~InSeq(x, n) => Once(ready \o n, x)
  BY <1>6, JoinOrder
<1>10. todo' = Len(ready') /\ todo' \in 0..Len(ready')
  BY <1>1, <1>5, <1>6, <1>9
<1> QED
  BY <1>1, <1>7, <1>8, <1>9, <1>10

(* Time passes: what is pending stays so, with one tick less.              *)
LEMMA TickOrder ==
  ASSUME NEW T, timers \in SUBSET [left : Int, handle : T], IsFiniteSet(timers), Tick
  PROVE  /\ timers' \in SUBSET [left : Int, handle : T] /\ IsFiniteSet(timers')
         /\ \A t \in timers' : Timer(t.left + 1, t.handle) \in timers
         /\ \A t \in timers : Timer(t.left - 1, t.handle) \in timers'
         /\ Idle \/ \A t \in timers : t.left > -MaxLate
         /\ ready' = ready /\ todo' = todo
<1> DEFINE E(t) == Timer(t.left - 1, t.handle)
<1>1. timers' = {E(t) : t \in timers}
  BY DEF Tick
<1>2. IsFiniteSet({E(t) : t \in timers})
  <2> DEFINE f == [t \in timers |-> E(t)]
  <2> HIDE DEF E
  <2>1. f \in Surjection(timers, {E(t) : t \in timers})
    BY DEF Surjection
  <2> QED
    BY <2>1, FS_Surjection
<1>3. \A t \in timers : /\ t \in [left : Int, handle : T]
                        /\ E(t) \in [left : Int, handle : T]
                        /\ E(t).handle = t.handle /\ E(t).left = t.left - 1
                        /\ Timer(E(t).left + 1, E(t).handle) = t
  BY DEF Timer
<1>4. ASSUME NEW u \in timers' PROVE Timer(u.left + 1, u.handle) \in timers
  <2>1. PICK t \in timers : u = E(t)
    BY <1>1
  <2> HIDE DEF E
  <2> QED
    BY <1>3, <2>1
<1>5. \A t \in timers : E(t) \in timers'
  BY <1>1
<1>6. timers' \in SUBSET [left : Int, handle : T]
  BY <1>1, <1>3
<1> QED
  BY <1>1, <1>2, <1>4, <1>5, <1>6 DEF Tick
-----------------------------------------------------------------------------
(***************************************************************************)
(* b2.  Until the caller cancels the job it is ahead of it at every stage: *)
(* its timer has less time left than the job's, its timer is polled first, *)
(* and its step is queued first.  From then on the job is bound to throw.  *)
(***************************************************************************)
JobHandles == {Step(Main), Step(Job), Fire(Main), Fire(Job)}

JobTimers == [left : Int, handle : {Fire(Main), Fire(Job)}]

ForgetTypes ==
  /\ ready \in Seq(JobHandles) /\ todo \in 0..Len(ready)
  /\ timers \in SUBSET JobTimers /\ IsFiniteSet(timers)
  /\ fut \in [{Main, Job} -> FutureStates] /\ must_cancel \subseteq {Main, Job}
  /\ pc \in [{Main, Job} -> {"start", "sleep", "await", "completed", "cancelled", "done"}]

AtTheStart ==
  /\ ready = <<Step(Main)>> /\ timers = {} /\ pc[Job] = "start"

TimersInOrder ==
  \A t \in timers : t.handle = Fire(Main) =>
    /\ t.left <= MainDelay
    /\ \A u \in timers : u.handle = Fire(Job) => t.left < u.left
    /\ ~InSeq(Fire(Job), ready)

QueueInOrder ==
  /\ Ahead(ready, Fire(Main), Fire(Job))
  /\ pc[Job] = "sleep" => Ahead(ready, Step(Main), Step(Job))

JobWaitsForMain ==
  pc[Job] = "sleep" /\ InSeq(Step(Job), ready) =>
    /\ ~InSeq(Fire(Main), ready)
    /\ \A t \in timers : t.handle # Fire(Main)

MainOnItsWay ==
  \/ InSeq(Step(Main), ready)
  \/ fut[Main] = "pending" /\ (InSeq(Fire(Main), ready) \/ IsPending(Fire(Main)))

JobNotStarted ==
  pc[Job] = "start" => /\ ~InSeq(Fire(Job), ready) /\ Once(ready, Step(Job))
                       /\ \A t \in timers : t.handle # Fire(Job)

CallerFirst ==
  /\ pc[Job] \in {"start", "sleep"}
  /\ TimersInOrder /\ QueueInOrder /\ JobWaitsForMain /\ MainOnItsWay /\ JobNotStarted

CancelSticks ==
  pc[Job] # "completed" /\ (pc[Job] \in {"start", "sleep"} => Throws(Job))

CancelStages ==
  \/ pc[Main] = "start" /\ AtTheStart
  \/ pc[Main] = "sleep" /\ CallerFirst
  \/ pc[Main] \in {"await", "done"} /\ CancelSticks

CancelInv == fail_trigger => ~processed /\ ForgetTypes /\ CancelStages

(* While the caller sleeps, the next handle is not a sleeping job's step.  *)
LEMMA JobIsNotNext ==
  ASSUME ForgetTypes, CallerFirst, pc[Job] = "sleep", NEW new \in Seq(JobHandles),
         RunHandle(Step(Job), new)
  PROVE  FALSE
<1> USE DEF ForgetTypes, CallerFirst
<1>1. InSeq(Step(Job), ready) /\ (Ahead(ready, Step(Main), Step(Job)) => ~InSeq(Step(Main), ready))
  BY RunOrder
<1>2. ~InSeq(Step(Main), ready)
  BY <1>1 DEF QueueInOrder
<1> QED
  BY <1>1, <1>2 DEF JobWaitsForMain, MainOnItsWay, IsPending
(* The handles of the two tasks, and their timers.                         *)
LEMMA JobHandlesDiffer ==
  /\ Main # Job
  /\ Step(Main) # Step(Job) /\ Step(Main) # Fire(Main) /\ Step(Main) # Fire(Job)
  /\ Step(Job) # Fire(Main) /\ Step(Job) # Fire(Job) /\ Fire(Main) # Fire(Job)
  /\ {Step(Main), Step(Job), Fire(Main), Fire(Job)} \subseteq JobHandles
  /\ {Fire(Main), Fire(Job)} \subseteq JobHandles
  /\ <<>> \in Seq(JobHandles) /\ \A x : ~InSeq(x, <<>>)
  /\ \A a \in JobHandles : <<a>> \in Seq(JobHandles)
  /\ \A a, x : InSeq(x, <<a>>) <=> x = a
  /\ \A a, x, y : x # a \/ y # a => Ahead(<<a>>, x, y)
  /\ \A x, y : Ahead(<<>>, x, y)
<1>1. Main # Job
  BY DEF Main, Job
<1> QED
  BY <1>1, HandlesDiffer DEF JobHandles, InSeq, Ahead

(* A task that is cancelled is bound to throw, ...                         *)
LEMMA CancelMakesThrow ==
  ASSUME ForgetTypes, fut' = [FutAfterCancel({Job}) EXCEPT ![Main] = "pending"],
         must_cancel' = MarkedAfterCancel({Job})
  PROVE  /\ Throws(Job)' /\ fut' \in [{Main, Job} -> FutureStates]
         /\ must_cancel' \subseteq {Main, Job}
<1>1. fut' \in [{Main, Job} -> FutureStates]
  BY DEF ForgetTypes, FutAfterCancel, FutureStates, Interrupted
<1>2. must_cancel' \subseteq {Main, Job}
  BY DEF ForgetTypes, MarkedAfterCancel
<1>3. CASE fut[Job] = "pending"
  <2>1. fut'[Job] = "cancelled"
    BY <1>3, JobHandlesDiffer DEF ForgetTypes, FutAfterCancel, Interrupted
  <2> QED
    BY <1>1, <1>2, <2>1 DEF Throws
<1>4. CASE fut[Job] # "pending"
  BY <1>1, <1>2, <1>4 DEF MarkedAfterCancel, Interrupted, Throws
<1> QED
  BY <1>3, <1>4

LEMMA CancelInvInit ==
  Init => CancelInv
<1> SUFFICES ASSUME Init PROVE CancelInv
  OBVIOUS
<1>1. ForgetTypes
  BY JobHandlesDiffer, FS_EmptySet DEF Init, LoopInit, TasksInit, ForgetTypes, FutureStates
<1>2. pc[Main] = "start" /\ AtTheStart
  BY DEF Init, LoopInit, AtTheStart
<1> QED
  BY <1>1, <1>2 DEF Init, CancelInv, CancelStages

(* The caller creates the job and goes to sleep.                           *)
LEMMA CancelInvMainStart ==
  ASSUME ForgetTypes, CancelStages, MainStart
  PROVE  ForgetTypes' /\ CancelStages'
<1> USE DEF ForgetTypes
<1>1. AtTheStart
  BY DEF CancelStages, MainStart
<1>2. ready' = <<Step(Job)>> /\ todo' \in 0..Len(ready')
  BY <1>1, JobHandlesDiffer DEF AtTheStart, MainStart, RunHandle
<1>3. /\ timers' = {Timer(MainDelay, Fire(Main))}
      /\ Timer(MainDelay, Fire(Main)) \in JobTimers
      /\ \A t \in timers' : t.left = MainDelay /\ t.handle = Fire(Main)
  BY <1>1, DelayAssumption DEF AtTheStart, MainStart, Timer, JobTimers
<1>4. /\ pc' = [pc EXCEPT ![Main] = "sleep"] /\ pc'[Job] = "start" /\ pc'[Main] = "sleep"
      /\ fut' = [fut EXCEPT ![Main] = "pending"] /\ must_cancel' = must_cancel \ {Main}
  BY <1>1, JobHandlesDiffer DEF AtTheStart, MainStart, Goto, Suspend
<1>5. ForgetTypes'
  BY <1>2, <1>3, <1>4, JobHandlesDiffer, FS_Singleton DEF FutureStates
<1>6. /\ InSeq(Step(Job), ready') /\ ~InSeq(Fire(Job), ready') /\ ~InSeq(Fire(Main), ready')
      /\ Ahead(ready', Fire(Main), Fire(Job)) /\ Once(ready', Step(Job))
  BY <1>2, JobHandlesDiffer DEF Once
<1>7. TimersInOrder'
  BY <1>3, <1>6, DelayAssumption, JobHandlesDiffer DEF TimersInOrder
<1>8. QueueInOrder' /\ JobWaitsForMain'
  BY <1>4, <1>6 DEF QueueInOrder, JobWaitsForMain
<1>9. MainOnItsWay'
  BY <1>3, <1>4 DEF MainOnItsWay, IsPending
<1>10. JobNotStarted'
  BY <1>3, <1>6, JobHandlesDiffer DEF JobNotStarted
<1> QED
  BY <1>4, <1>5, <1>7, <1>8, <1>9, <1>10 DEF CancelStages, CallerFirst

(* The job goes to sleep, for longer.                                      *)
LEMMA CancelInvJobStart ==
  ASSUME ForgetTypes, CancelStages, JobStart
  PROVE  ForgetTypes' /\ CancelStages'
<1> USE DEF ForgetTypes
<1> DEFINE k == Timer(JobDelay, Fire(Job))
<1>1. /\ RunHandle(Step(Job), <<>>) /\ pc[Job] = "start" /\ ~Throws(Job)
      /\ timers' = timers \union {k}
      /\ pc' = [pc EXCEPT ![Job] = "sleep"]
      /\ fut' = [fut EXCEPT ![Job] = "pending"] /\ must_cancel' = must_cancel \ {Job}
  BY DEF JobStart, Goto, Suspend
<1>2. k \in JobTimers /\ k.left = JobDelay /\ k.handle = Fire(Job)
  BY DelayAssumption DEF Timer, JobTimers
<1> HIDE DEF k
<1>3. /\ ready' \in Seq(JobHandles) /\ todo' \in 0..Len(ready') /\ InSeq(Step(Job), ready)
      /\ \A x : InSeq(x, ready') => InSeq(x, ready)
      /\ \A x : InSeq(x, ready) /\ x # Step(Job) => InSeq(x, ready')
      /\ \A x, y : Ahead(ready, x, y) => Ahead(ready', x, y)
      /\ Once(ready, Step(Job)) => ~InSeq(Step(Job), ready')
      /\ \A x : Ahead(ready, x, Step(Job)) => ~InSeq(x, ready)
  <2> PICK new : new = <<>>
    OBVIOUS
  <2>1. /\ new \in Seq(JobHandles) /\ RunHandle(Step(Job), new)
        /\ \A x, y : ~InSeq(x, new) /\ Ahead(new, x, y)
    BY <1>1, JobHandlesDiffer
  <2> QED
    BY <2>1, RunOrder
<1>4. /\ pc'[Job] = "sleep" /\ pc'[Main] = pc[Main] /\ fut'[Main] = fut[Main]
      /\ pc' \in [{Main, Job} -> {"start", "sleep", "await", "completed", "cancelled", "done"}]
      /\ fut' \in [{Main, Job} -> FutureStates] /\ must_cancel' \subseteq {Main, Job}
  BY <1>1, JobHandlesDiffer DEF FutureStates
<1>5. ForgetTypes'
  BY <1>1, <1>2, <1>3, <1>4, FS_AddElement
<1>6. CASE pc[Main] = "start" /\ AtTheStart
  <2>1. ~InSeq(Step(Job), ready)
    BY <1>6, JobHandlesDiffer DEF AtTheStart
  <2> QED
    BY <1>3, <2>1
<1>7. CASE pc[Main] = "sleep" /\ CallerFirst
  <2>1. /\ TimersInOrder /\ QueueInOrder /\ JobWaitsForMain /\ MainOnItsWay /\ JobNotStarted
        /\ ~InSeq(Fire(Job), ready) /\ ~InSeq(Step(Job), ready')
        /\ \A t \in timers : t.handle # Fire(Job)
    BY <1>1, <1>3, <1>7 DEF CallerFirst, JobNotStarted
  <2>2. TimersInOrder'
    <3>1. SUFFICES ASSUME NEW t \in timers', t.handle = Fire(Main)
                   PROVE  /\ t.left <= MainDelay /\ ~InSeq(Fire(Job), ready')
                          /\ \A u \in timers' : u.handle = Fire(Job) => t.left < u.left
      BY DEF TimersInOrder
    <3>2. t \in timers /\ t.left <= MainDelay /\ t.left \in Int
      BY <1>1, <1>2, <2>1, <3>1, JobHandlesDiffer DEF TimersInOrder, JobTimers
    <3>3. \A u \in timers' : u.handle = Fire(Job) => u = k
      BY <1>1, <2>1
    <3> QED
      BY <1>2, <1>3, <2>1, <3>2, <3>3, DelayAssumption
  <2>3. QueueInOrder'
    BY <1>3, <2>1 DEF QueueInOrder, Ahead, InSeq
  <2>4. JobWaitsForMain'
    BY <2>1 DEF JobWaitsForMain
  <2>5. MainOnItsWay'
    BY <1>1, <1>3, <1>4, <2>1, JobHandlesDiffer DEF MainOnItsWay, IsPending
  <2>6. JobNotStarted'
    BY <1>4 DEF JobNotStarted
  <2> QED
    BY <1>4, <1>5, <1>7, <2>2, <2>3, <2>4, <2>5, <2>6 DEF CancelStages, CallerFirst
<1>8. CASE pc[Main] \in {"await", "done"} /\ CancelSticks
  BY <1>1, <1>8 DEF CancelSticks
<1> QED
  BY <1>5, <1>6, <1>7, <1>8 DEF CancelStages
(* The caller's sleep is over: its step is queued, before the job's can be.*)
LEMMA CancelInvMainFires ==
  ASSUME ForgetTypes, CancelStages, SleepFires(Main), pc' = pc
  PROVE  ForgetTypes' /\ CancelStages'
<1> USE DEF ForgetTypes
<1> PICK new : new = IF fut[Main] = "pending" THEN <<Step(Main)>> ELSE <<>>
  OBVIOUS
<1>1. /\ RunHandle(Fire(Main), new) /\ new \in Seq(JobHandles)
      /\ fut' = [fut EXCEPT ![Main] = IF @ = "pending" THEN "result" ELSE @]
      /\ timers' = timers /\ must_cancel' = must_cancel
      /\ \A x : InSeq(x, new) <=> x = Step(Main) /\ fut[Main] = "pending"
      /\ Ahead(new, Fire(Main), Fire(Job)) /\ Ahead(new, Step(Main), Step(Job))
  BY JobHandlesDiffer DEF SleepFires
<1>2. /\ ready' \in Seq(JobHandles) /\ todo' \in 0..Len(ready') /\ InSeq(Fire(Main), ready)
      /\ \A x : InSeq(x, ready') => InSeq(x, ready) \/ InSeq(x, new)
      /\ \A x : InSeq(x, new) => InSeq(x, ready')
      /\ \A x : InSeq(x, ready) /\ x # Fire(Main) => InSeq(x, ready')
      /\ \A x, y : Ahead(ready, x, y) /\ Ahead(new, x, y)
                   /\ ~(InSeq(x, new) /\ InSeq(y, ready)) => Ahead(ready', x, y)
      /\ \A x : Once(ready, x) /\ ~InSeq(x, new) => Once(ready', x)
  BY <1>1, RunOrder
<1>3. /\ fut'[Job] = fut[Job] /\ fut' \in [{Main, Job} -> FutureStates]
      /\ fut[Main] # "pending" => fut'[Main] = fut[Main]
  BY <1>1, JobHandlesDiffer DEF FutureStates
<1>4. ForgetTypes'
  BY <1>1, <1>2, <1>3
<1>5. CASE pc[Main] = "start" /\ AtTheStart
  BY <1>2, <1>5, JobHandlesDiffer DEF AtTheStart
<1>6. CASE pc[Main] = "sleep" /\ CallerFirst
  <2>1. TimersInOrder /\ QueueInOrder /\ JobWaitsForMain /\ MainOnItsWay /\ JobNotStarted
    BY <1>6 DEF CallerFirst
  <2>2. TimersInOrder'
    BY <1>1, <1>2, <2>1, JobHandlesDiffer DEF TimersInOrder
  <2>3. QueueInOrder'
    <3>1. Ahead(ready', Fire(Main), Fire(Job))
      BY <1>1, <1>2, <2>1, JobHandlesDiffer DEF QueueInOrder
    <3>2. pc[Job] = "sleep" => ~InSeq(Step(Job), ready) /\ Ahead(ready, Step(Main), Step(Job))
      BY <1>2, <2>1 DEF JobWaitsForMain, QueueInOrder
    <3>3. pc[Job] = "sleep" => Ahead(ready', Step(Main), Step(Job))
      BY <1>1, <1>2, <3>2
    <3> QED
      BY <3>1, <3>3 DEF QueueInOrder
  <2>4. JobWaitsForMain'
    BY <1>1, <1>2, <2>1, JobHandlesDiffer DEF JobWaitsForMain
  <2>5. MainOnItsWay'
    BY <1>1, <1>2, <1>3, <2>1, JobHandlesDiffer DEF MainOnItsWay
  <2>6. JobNotStarted'
    BY <1>1, <1>2, <2>1, JobHandlesDiffer DEF JobNotStarted
  <2> QED
    BY <1>4, <1>6, <2>2, <2>3, <2>4, <2>5, <2>6 DEF CancelStages, CallerFirst
<1>7. CASE pc[Main] \in {"await", "done"} /\ CancelSticks
  BY <1>1, <1>3, <1>4, <1>7 DEF CancelStages, CancelSticks, Throws
<1> QED
  BY <1>5, <1>6, <1>7 DEF CancelStages

(* The job's sleep is over: the caller's has been before.                  *)
LEMMA CancelInvJobFires ==
  ASSUME ForgetTypes, CancelStages, SleepFires(Job), pc' = pc
  PROVE  ForgetTypes' /\ CancelStages'
<1> USE DEF ForgetTypes
<1> PICK new : new = IF fut[Job] = "pending" THEN <<Step(Job)>> ELSE <<>>
  OBVIOUS
<1>1. /\ RunHandle(Fire(Job), new) /\ new \in Seq(JobHandles)
      /\ fut' = [fut EXCEPT ![Job] = IF @ = "pending" THEN "result" ELSE @]
      /\ timers' = timers /\ must_cancel' = must_cancel
      /\ \A x : InSeq(x, new) => x = Step(Job)
      /\ Ahead(new, Fire(Main), Fire(Job)) /\ Ahead(new, Step(Main), Step(Job))
  BY JobHandlesDiffer DEF SleepFires
<1>2. /\ ready' \in Seq(JobHandles) /\ todo' \in 0..Len(ready') /\ InSeq(Fire(Job), ready)
      /\ \A x : InSeq(x, ready') => InSeq(x, ready) \/ InSeq(x, new)
      /\ \A x : InSeq(x, ready) /\ x # Fire(Job) => InSeq(x, ready')
      /\ \A x, y : Ahead(ready, x, y) /\ Ahead(new, x, y)
                   /\ ~(InSeq(x, new) /\ InSeq(y, ready)) => Ahead(ready', x, y)
      /\ \A x : Ahead(ready, x, Fire(Job)) => ~InSeq(x, ready)
  BY <1>1, RunOrder
<1>3. /\ fut'[Main] = fut[Main] /\ fut' \in [{Main, Job} -> FutureStates]
      /\ fut[Job] = "cancelled" => fut'[Job] = "cancelled"
  BY <1>1, JobHandlesDiffer DEF FutureStates
<1>4. ForgetTypes'
  BY <1>1, <1>2, <1>3
<1>5. CASE pc[Main] = "start" /\ AtTheStart
  BY <1>2, <1>5, JobHandlesDiffer DEF AtTheStart
<1>6. CASE pc[Main] = "sleep" /\ CallerFirst
  <2>1. TimersInOrder /\ QueueInOrder /\ JobWaitsForMain /\ MainOnItsWay /\ JobNotStarted
    BY <1>6 DEF CallerFirst
  <2>2. /\ pc[Job] = "sleep" /\ \A t \in timers : t.handle # Fire(Main)
        /\ ~InSeq(Fire(Main), ready) /\ ~InSeq(Fire(Main), ready')
    BY <1>1, <1>2, <1>6, <2>1, JobHandlesDiffer
       DEF CallerFirst, TimersInOrder, QueueInOrder, JobNotStarted
  <2>3. TimersInOrder' /\ JobWaitsForMain' /\ JobNotStarted'
    BY <1>1, <2>2 DEF TimersInOrder, JobWaitsForMain, JobNotStarted
  <2>4. QueueInOrder'
    BY <1>1, <1>2, <2>1, <2>2, JobHandlesDiffer DEF QueueInOrder
  <2>5. MainOnItsWay'
    BY <1>2, <2>1, <2>2, JobHandlesDiffer DEF MainOnItsWay, IsPending
  <2> QED
    BY <1>4, <1>6, <2>3, <2>4, <2>5 DEF CancelStages, CallerFirst
<1>7. CASE pc[Main] \in {"await", "done"} /\ CancelSticks
  BY <1>1, <1>3, <1>4, <1>7 DEF CancelStages, CancelSticks, Throws
<1> QED
  BY <1>5, <1>6, <1>7 DEF CancelStages

(* The job's step after its sleep: it is never the first of the two, and   *)
(* after the caller's it throws.                                           *)
LEMMA CancelInvJobEnds ==
  ASSUME ForgetTypes, CancelStages, pc[Job] = "sleep", NEW new, new = WakesMain,
         RunHandle(Step(Job), new)
  PROVE  /\ pc[Main] \in {"await", "done"} /\ Throws(Job)
         /\ ready' \in Seq(JobHandles) /\ todo' \in 0..Len(ready')
<1> USE DEF ForgetTypes
<1>1. new \in Seq(JobHandles)
  BY JobHandlesDiffer DEF WakesMain
<1>2. /\ ready' \in Seq(JobHandles) /\ todo' \in 0..Len(ready') /\ InSeq(Step(Job), ready)
  BY <1>1, RunOrder
<1>3. ~(pc[Main] = "start" /\ AtTheStart)
  BY DEF AtTheStart
<1>4. ~(pc[Main] = "sleep" /\ CallerFirst)
  BY <1>1, JobIsNotNext
<1> QED
  BY <1>2, <1>3, <1>4 DEF CancelStages, CancelSticks

LEMMA CancelInvJobCancelled ==
  ASSUME ForgetTypes, CancelStages, JobCancelled
  PROVE  ForgetTypes' /\ CancelStages'
<1> USE DEF ForgetTypes
<1>1. /\ pc[Job] = "sleep" /\ RunHandle(Step(Job), WakesMain)
      /\ timers' = WithoutTimer(Fire(Job))
      /\ pc' = [pc EXCEPT ![Job] = "cancelled"]
      /\ fut' = [fut EXCEPT ![Job] = "none"] /\ must_cancel' = must_cancel \ {Job}
  BY DEF JobCancelled, Clear, Goto
<1>2. /\ pc[Main] \in {"await", "done"}
      /\ ready' \in Seq(JobHandles) /\ todo' \in 0..Len(ready')
  BY <1>1, CancelInvJobEnds
<1>3. timers' \in SUBSET JobTimers /\ IsFiniteSet(timers')
  BY <1>1, FS_Subset DEF WithoutTimer
<1>4. ForgetTypes'
  BY <1>1, <1>2, <1>3 DEF FutureStates
<1>5. pc'[Job] = "cancelled" /\ pc'[Main] = pc[Main]
  BY <1>1, JobHandlesDiffer
<1> QED
  BY <1>2, <1>4, <1>5 DEF CancelStages, CancelSticks

(* The caller cancels the job, ...                                         *)
LEMMA CancelInvMainAwaits ==
  ASSUME ForgetTypes, CancelStages, MainAwaits, fail_trigger
  PROVE  ForgetTypes' /\ CancelStages'
<1> USE DEF ForgetTypes
<1> PICK new : new = IF Interrupted({Job}) # {} THEN <<Step(Job)>> ELSE <<>>
  OBVIOUS
<1>1. /\ RunHandle(Step(Main), new) /\ new \in Seq(JobHandles)
      /\ fut' = [FutAfterCancel({Job}) EXCEPT ![Main] = "pending"]
      /\ must_cancel' = MarkedAfterCancel({Job})
      /\ pc' = [pc EXCEPT ![Main] = "await"] /\ timers' = timers
      /\ pc[Job] \in {"start", "sleep"}
  BY JobHandlesDiffer DEF MainAwaits, Goto
<1>2. ready' \in Seq(JobHandles) /\ todo' \in 0..Len(ready')
  BY <1>1, RunOrder
<1>3. /\ Throws(Job)' /\ fut' \in [{Main, Job} -> FutureStates]
      /\ must_cancel' \subseteq {Main, Job}
  BY <1>1, CancelMakesThrow
<1>4. /\ pc'[Job] = pc[Job] /\ pc'[Main] = "await"
      /\ pc' \in [{Main, Job} -> {"start", "sleep", "await", "completed", "cancelled", "done"}]
  BY <1>1, JobHandlesDiffer
<1> QED
  BY <1>1, <1>2, <1>3, <1>4 DEF CancelStages, CancelSticks

(* ... and returns.                                                        *)
LEMMA CancelInvMainReturn ==
  ASSUME ForgetTypes, CancelStages, MainReturn
  PROVE  ForgetTypes' /\ CancelStages'
<1> USE DEF ForgetTypes
<1>1. /\ RunHandle(Step(Main), <<>>) /\ pc[Main] = "await" /\ timers' = timers
      /\ pc' = [pc EXCEPT ![Main] = "done"]
      /\ fut' = [fut EXCEPT ![Main] = "none"] /\ must_cancel' = must_cancel \ {Main}
  BY DEF MainReturn, Clear, Goto
<1>2. ready' \in Seq(JobHandles) /\ todo' \in 0..Len(ready')
  BY <1>1, RunOrder, JobHandlesDiffer
<1>3. CancelSticks
  BY <1>1 DEF CancelStages
<1>4. /\ pc'[Job] = pc[Job] /\ pc'[Main] = "done" /\ fut'[Job] = fut[Job]
      /\ Job \in must_cancel' <=> Job \in must_cancel
      /\ pc' \in [{Main, Job} -> {"start", "sleep", "await", "completed", "cancelled", "done"}]
      /\ fut' \in [{Main, Job} -> FutureStates] /\ must_cancel' \subseteq {Main, Job}
  BY <1>1, JobHandlesDiffer DEF FutureStates
<1> QED
  BY <1>1, <1>2, <1>3, <1>4 DEF CancelStages, CancelSticks, Throws
(* A poll: the caller's timer is due whenever the job's is.                *)
LEMMA CancelInvPoll ==
  ASSUME ForgetTypes, CancelStages, StartIteration, UNCHANGED <<fut, must_cancel, pc>>
  PROVE  ForgetTypes' /\ CancelStages'
<1> USE DEF ForgetTypes
<1>1. /\ ready' \in Seq(JobHandles) /\ todo' \in 0..Len(ready') /\ timers' = timers \ Due
      /\ \A x : InSeq(x, ready') <=> InSeq(x, ready) \/ \E t \in Due : t.handle = x
      /\ \A x, y : /\ Ahead(ready, x, y)
                   /\ \A t, u \in Due : t.handle = x /\ u.handle = y => t.left < u.left
                   /\ InSeq(y, ready) => \A t \in Due : t.handle # x
                   => Ahead(ready', x, y)
      /\ \A x : Once(ready, x) /\ (\A t \in Due : t.handle # x) => Once(ready', x)
  <2> PICK T : T = {Fire(Main), Fire(Job)}
    OBVIOUS
  <2>1. timers \in SUBSET [left : Int, handle : T] /\ T \subseteq JobHandles
    BY JobHandlesDiffer DEF JobTimers
  <2> QED
    BY <2>1, PollOrder
<1>2. /\ \A t \in timers : t.left \in Int /\ t.handle \in {Fire(Main), Fire(Job)}
      /\ Due \subseteq timers /\ \A t \in timers : t \in Due <=> t.left <= 0
      /\ timers' \subseteq timers /\ IsFiniteSet(timers')
  BY <1>1, FS_Subset DEF JobTimers, Due
<1>3. ForgetTypes'
  BY <1>1, <1>2
<1>4. CASE pc[Main] = "start" /\ AtTheStart
  <2>1. Due = {} /\ timers' = {}
    BY <1>1, <1>4 DEF AtTheStart, Due
  <2>2. ready' = ready
    BY <2>1, PollNothing
  <2> QED
    BY <1>3, <1>4, <2>1, <2>2 DEF CancelStages, AtTheStart
<1>5. CASE pc[Main] = "sleep" /\ CallerFirst
  <2>1. TimersInOrder /\ QueueInOrder /\ JobWaitsForMain /\ MainOnItsWay /\ JobNotStarted
    BY <1>5 DEF CallerFirst
  <2>2. /\ \A x : InSeq(x, ready) => InSeq(x, ready')
        /\ InSeq(Step(Job), ready') => InSeq(Step(Job), ready)
        /\ \A t \in Due : t.handle # Step(Job) /\ t.handle # Step(Main)
    BY <1>1, <1>2, JobHandlesDiffer
  <2>3. TimersInOrder'
    <3>1. SUFFICES ASSUME NEW t \in timers', t.handle = Fire(Main)
                   PROVE  /\ t.left <= MainDelay /\ ~InSeq(Fire(Job), ready')
                          /\ \A u \in timers' : u.handle = Fire(Job) => t.left < u.left
      BY DEF TimersInOrder
    <3>2. /\ t \in timers /\ t \notin Due /\ t.left <= MainDelay /\ ~InSeq(Fire(Job), ready)
          /\ \A u \in timers : u.handle = Fire(Job) => t.left < u.left
      BY <1>1, <1>2, <2>1, <3>1 DEF TimersInOrder
    <3>3. \A u \in Due : u.handle # Fire(Job)
      BY <1>2, <3>2
    <3> QED
      BY <1>1, <1>2, <3>2, <3>3
  <2>4. QueueInOrder'
    <3>1. \A t, u \in Due : t.handle = Fire(Main) /\ u.handle = Fire(Job) => t.left < u.left
      BY <1>2, <2>1 DEF TimersInOrder
    <3>2. InSeq(Fire(Job), ready) => \A t \in Due : t.handle # Fire(Main)
      BY <1>2, <2>1 DEF TimersInOrder
    <3>3. Ahead(ready', Fire(Main), Fire(Job))
      BY <1>1, <2>1, <3>1, <3>2 DEF QueueInOrder
    <3>4. Ahead(ready, Step(Main), Step(Job)) => Ahead(ready', Step(Main), Step(Job))
      BY <1>1, <2>2
    <3> QED
      BY <2>1, <3>3, <3>4 DEF QueueInOrder
  <2>5. JobWaitsForMain'
    BY <1>1, <1>2, <2>1, <2>2 DEF JobWaitsForMain
  <2>6. MainOnItsWay'
    BY <1>1, <2>1, <2>2 DEF MainOnItsWay, IsPending
  <2>7. JobNotStarted'
    BY <1>1, <1>2, <2>1, <2>2 DEF JobNotStarted
  <2> QED
    BY <1>3, <1>5, <2>3, <2>4, <2>5, <2>6, <2>7 DEF CancelStages, CallerFirst
<1>6. CASE pc[Main] \in {"await", "done"} /\ CancelSticks
  BY <1>3, <1>6 DEF CancelStages, CancelSticks, Throws
<1> QED
  BY <1>4, <1>5, <1>6 DEF CancelStages

(* Time passes alike for both.                                             *)
LEMMA CancelInvTick ==
  ASSUME ForgetTypes, CancelStages, Tick, UNCHANGED <<fut, must_cancel, pc>>
  PROVE  ForgetTypes' /\ CancelStages'
<1> USE DEF ForgetTypes
<1>1. /\ timers' \in SUBSET JobTimers /\ IsFiniteSet(timers')
      /\ \A t \in timers' : Timer(t.left + 1, t.handle) \in timers
      /\ \A t \in timers : Timer(t.left - 1, t.handle) \in timers'
      /\ ready' = ready /\ todo' = todo
  BY TickOrder DEF JobTimers
<1>2. ForgetTypes'
  BY <1>1
<1>3. CASE pc[Main] = "start" /\ AtTheStart
  BY <1>3 DEF Tick, AtTheStart
<1>4. CASE pc[Main] = "sleep" /\ CallerFirst
  <2>1. TimersInOrder /\ QueueInOrder /\ JobWaitsForMain /\ MainOnItsWay /\ JobNotStarted
    BY <1>4 DEF CallerFirst
  <2>2. \A h : IsPending(h)' <=> IsPending(h)
    BY <1>1 DEF IsPending, Timer
  <2>3. \A t \in timers' : \E o \in timers : o.handle = t.handle /\ o.left = t.left + 1
    BY <1>1 DEF Timer
  <2>4. \A t \in timers' : t.left \in Int
    BY <1>1 DEF JobTimers
  <2>5. TimersInOrder'
    <3>1. SUFFICES ASSUME NEW t \in timers', t.handle = Fire(Main)
                   PROVE  /\ t.left <= MainDelay /\ ~InSeq(Fire(Job), ready)
                          /\ \A u \in timers' : u.handle = Fire(Job) => t.left < u.left
      BY <1>1 DEF TimersInOrder
    <3>2. PICK o \in timers : o.handle = Fire(Main) /\ o.left = t.left + 1
      BY <2>3, <3>1
    <3>3. /\ t.left + 1 <= MainDelay /\ ~InSeq(Fire(Job), ready)
          /\ \A u \in timers : u.handle = Fire(Job) => t.left + 1 < u.left
      BY <2>1, <3>2 DEF TimersInOrder
    <3>4. \A u \in timers' : u.handle = Fire(Job) => t.left < u.left
      BY <2>3, <2>4, <3>3
    <3> QED
      BY <2>4, <3>3, <3>4, DelayAssumption
  <2>6. QueueInOrder' /\ JobWaitsForMain' /\ JobNotStarted'
    BY <1>1, <2>1, <2>3 DEF QueueInOrder, JobWaitsForMain, JobNotStarted
  <2>7. MainOnItsWay'
    BY <1>1, <2>1, <2>2 DEF MainOnItsWay
  <2> QED
    BY <1>2, <1>4, <2>5, <2>6, <2>7 DEF CancelStages, CallerFirst
<1>5. CASE pc[Main] \in {"await", "done"} /\ CancelSticks
  BY <1>2, <1>5 DEF CancelStages, CancelSticks, Throws
<1> QED
  BY <1>3, <1>4, <1>5 DEF CancelStages

LEMMA CancelInvStep ==
  ASSUME CancelInv, [Next]_vars
  PROVE  CancelInv'
<1>1. fail_trigger' = fail_trigger
  BY DEF Next, vars, programVars, Loop, Sleeps, MainStart, JobStart, JobCompletes,
         JobCancelled, MainAwaits, MainReturn, Finished
<1> SUFFICES ASSUME fail_trigger PROVE ~processed' /\ ForgetTypes' /\ CancelStages'
  BY <1>1 DEF CancelInv
<1>2. ~processed /\ ForgetTypes /\ CancelStages
  BY DEF CancelInv
<1>3. CASE Loop
  BY <1>2, <1>3, CancelInvPoll, CancelInvTick DEF Loop, taskVars, programVars
<1>4. CASE Sleeps
  BY <1>2, <1>4, CancelInvMainFires, CancelInvJobFires DEF Sleeps, programVars
<1>5. CASE MainStart
  BY <1>2, <1>5, CancelInvMainStart DEF MainStart
<1>6. CASE JobStart
  BY <1>2, <1>6, CancelInvJobStart DEF JobStart
<1>7. CASE JobCompletes
  BY <1>2, <1>7, CancelInvJobEnds DEF JobCompletes
<1>8. CASE JobCancelled
  BY <1>2, <1>8, CancelInvJobCancelled DEF JobCancelled
<1>9. CASE MainAwaits
  BY <1>2, <1>9, CancelInvMainAwaits DEF MainAwaits
<1>10. CASE MainReturn
  BY <1>2, <1>10, CancelInvMainReturn DEF MainReturn
<1>11. CASE UNCHANGED vars
  BY <1>2, <1>11 DEF vars, programVars, loopVars, taskVars, ForgetTypes, CancelStages,
     AtTheStart, CallerFirst, CancelSticks, Throws, TimersInOrder, QueueInOrder,
     JobWaitsForMain, MainOnItsWay, JobNotStarted, IsPending
<1> QED
  BY <1>3, <1>4, <1>5, <1>6, <1>7, <1>8, <1>9, <1>10, <1>11 DEF Next, Finished

(* A job that its caller cancels never sets the flag, for all delays with  *)
(* the caller's the shorter one and however late the loop is               *)
(* (b2_fire_and_forget).                                                   *)
THEOREM CancelledJobSetsNothing ==
  Spec => []CancelWins
<1>1. CancelInv => CancelWins
  BY DEF CancelInv, CancelWins
<1> QED
  BY <1>1, CancelInvInit, CancelInvStep, PTL DEF Spec
-----------------------------------------------------------------------------
(***************************************************************************)
(* b5.  In a race that the timeout is to win its timer has less time left  *)
(* than the service's, is polled first, and cancels the sleep before that  *)
(* is over.  In one that the service is to win the timeout has more than   *)
(* MaxLate ticks left when the service's timer is polled; it may be polled *)
(* while the caller's step is queued, but behind it, and no poll comes     *)
(* between the service's timer and that step's being queued, because a     *)
(* poll waits until its predecessor's snapshot has been run.               *)
(***************************************************************************)
SleepTimers   == {SleepTimer(i) : i \in 1..Len(races)}
TimeoutTimers == {TimeoutTimer(i) : i \in 1..Len(races)}
RaceHandles   == {Step(Main)} \union SleepTimers \union TimeoutTimers

RaceTimers == [left : Int, handle : SleepTimers \union TimeoutTimers]

RaceTypes ==
  /\ ready \in Seq(RaceHandles) /\ todo \in 0..Len(ready)
  /\ timers \in SUBSET RaceTimers /\ IsFiniteSet(timers)
  /\ fut \in [{Main} -> FutureStates] /\ must_cancel \subseteq {Main}
  /\ race \in 0..Len(races) /\ results \in Seq({"SUCCESS", "TIMEOUT"})

BeforeRaces ==
  /\ ready = <<Step(Main)>> /\ timers = {} /\ ~finished /\ results = <<>>

OwnTimers ==
  \A t \in timers : t.left >= -MaxLate /\ t.handle \in {SleepTimer(race), TimeoutTimer(race)}

\* What comes behind the snapshot was not polled.
SnapshotHasTimers ==
  \A j \in 1..Len(ready) : j > todo => ready[j] = Step(Main)

NothingAhead ==
  \A i \in 1..Len(races) : i > race =>
    ~InSeq(SleepTimer(i), ready) /\ ~InSeq(TimeoutTimer(i), ready)

OneStep ==
  /\ Once(ready, Step(Main))
  /\ InSeq(Step(Main), ready) => fut[Main] \in {"result", "cancelled"}
  /\ finished => fut[Main] = "none"
  /\ ~finished => fut[Main] # "none"

ResultsInStep ==
  Len(results) = IF finished THEN race ELSE race - 1

\* timeout < sleep
TimeoutLeads ==
  /\ fut[Main] # "result"
  /\ \A t, u \in timers : t.handle = TimeoutTimer(race) /\ u.handle = SleepTimer(race)
       => t.left < u.left
  /\ IsPending(TimeoutTimer(race)) => ~InSeq(SleepTimer(race), ready)
  /\ Ahead(ready, TimeoutTimer(race), SleepTimer(race))
  /\ fut[Main] = "pending"
       => IsPending(TimeoutTimer(race)) \/ InSeq(TimeoutTimer(race), ready)

\* sleep + MaxLate < timeout
SleepLeads ==
  /\ ~Throws(Main)
  /\ \A t, u \in timers : t.handle = TimeoutTimer(race) /\ u.handle = SleepTimer(race)
       => u.left + MaxLate < t.left
  /\ IsPending(SleepTimer(race)) \/ InSeq(SleepTimer(race), ready)
       => ~InSeq(TimeoutTimer(race), ready)
  /\ Ahead(ready, Step(Main), TimeoutTimer(race))
  /\ fut[Main] = "pending"
       => IsPending(SleepTimer(race)) \/ InSeq(SleepTimer(race), ready)
  /\ fut[Main] = "result" => InSeq(Step(Main), ready)

Leader ==
  /\ races[race].timeout < races[race].sleep => TimeoutLeads
  /\ races[race].sleep + MaxLate < races[race].timeout => SleepLeads

RaceInv ==
  /\ RaceTypes /\ FastEnoughSucceed /\ NothingAhead /\ SnapshotHasTimers
  /\ Throws(Main) => race \in expiring
  /\ IF race = 0 THEN BeforeRaces
     ELSE /\ OwnTimers /\ OneStep /\ ResultsInStep
          /\ finished => timers = {}
          /\ ~finished => Leader
LEMMA RaceHandlesDiffer ==
  /\ \A i, j : /\ SleepTimer(i) = SleepTimer(j) => i = j
               /\ TimeoutTimer(i) = TimeoutTimer(j) => i = j
               /\ SleepTimer(i) # TimeoutTimer(j)
               /\ SleepTimer(i) # Step(Main) /\ TimeoutTimer(i) # Step(Main)
  /\ Step(Main) \in RaceHandles
  /\ <<>> \in Seq(RaceHandles) /\ <<Step(Main)>> \in Seq(RaceHandles)
  /\ \A x : ~InSeq(x, <<>>) /\ (InSeq(x, <<Step(Main)>>) <=> x = Step(Main))
  /\ \A x, y : Ahead(<<>>, x, y)
  /\ \A x, y : x # Step(Main) \/ y # Step(Main) => Ahead(<<Step(Main)>>, x, y)
<1>1. \A i, j : /\ SleepTimer(i) = SleepTimer(j) => i = j
                /\ TimeoutTimer(i) = TimeoutTimer(j) => i = j
                /\ SleepTimer(i) # TimeoutTimer(j)
                /\ SleepTimer(i) # Step(Main) /\ TimeoutTimer(i) # Step(Main)
  BY HandlesDiffer DEF SleepTimer, TimeoutTimer
<1> QED
  BY <1>1 DEF RaceHandles, InSeq, Ahead

LEMMA RacesAreTimed ==
  /\ Len(races) \in Nat \ {0} /\ DOMAIN races = 1..Len(races)
  /\ \A i \in 1..Len(races) : /\ races[i].sleep \in Nat \ {0}
                              /\ races[i].timeout \in Nat \ {0}
  /\ MaxLate \in Nat
<1> PICK S : S = [sleep : Nat \ {0}, timeout : Nat \ {0}]
  OBVIOUS
<1>1. \A x \in S : x.sleep \in Nat \ {0} /\ x.timeout \in Nat \ {0}
  OBVIOUS
<1>2. races \in Seq(S) /\ races # <<>>
  BY RacesAssumption
<1>3. /\ Len(races) \in Nat \ {0} /\ DOMAIN races = 1..Len(races)
      /\ \A i \in 1..Len(races) : races[i] \in S
  BY <1>2, NotEmpty
<1> QED
  BY <1>1, <1>3, MaxLateAssumption

(* Behind the snapshot, what a handle schedules is the caller's step.      *)
LEMMA SnapshotRun ==
  ASSUME RaceTypes, SnapshotHasTimers, NEW h, NEW new \in {<<>>, <<Step(Main)>>},
         RunHandle(h, new)
  PROVE  SnapshotHasTimers'
<1>1. /\ new \in Seq(RaceHandles) /\ Len(new) \in Nat
      /\ \A i \in 1..Len(new) : new[i] = Step(Main)
  <2>1. CASE new = <<>>
    BY <2>1, RaceHandlesDiffer
  <2>2. CASE new = <<Step(Main)>>
    BY <2>2, RaceHandlesDiffer
  <2> QED
    BY <2>1, <2>2
<1>2. /\ Len(ready) \in Nat \ {0} /\ Len(ready') = Len(ready) - 1 + Len(new)
      /\ \A i \in 1..Len(ready) - 1 : ready'[i] = ready[i + 1]
      /\ \A i \in 1..Len(new) : ready'[Len(ready) - 1 + i] = new[i]
  <2>1. ready \in Seq(RaceHandles) /\ todo \in 0..Len(ready)
    BY DEF RaceTypes
  <2> QED
    BY <1>1, <2>1, RunPositions
<1>3. todo \in Nat /\ todo' = todo - 1
  BY DEF RunHandle, RaceTypes
<1>4. SUFFICES ASSUME NEW j \in 1..Len(ready'), j > todo' PROVE ready'[j] = Step(Main)
  BY DEF SnapshotHasTimers
<1>5. CASE j <= Len(ready) - 1
  <2>1. j \in 1..Len(ready) - 1 /\ j + 1 \in 1..Len(ready) /\ j + 1 > todo
    BY <1>1, <1>2, <1>3, <1>4, <1>5
  <2> QED
    BY <1>2, <2>1 DEF SnapshotHasTimers
<1>6. CASE j > Len(ready) - 1
  <2> DEFINE i == j - (Len(ready) - 1)
  <2>1. i \in 1..Len(new) /\ j = Len(ready) - 1 + i
    BY <1>1, <1>2, <1>6
  <2> HIDE DEF i
  <2> QED
    BY <1>1, <1>2, <2>1
<1> QED
  BY <1>2, <1>5, <1>6

(* A race begins, and nothing of it was there before.                      *)
LEMMA RaceBegins ==
  ASSUME RaceTypes, Once(ready, Step(Main)), NothingAhead, SnapshotHasTimers,
         race < Len(races), RunHandle(Step(Main), <<>>), Begin(race + 1, {}), ~finished',
         results' \in Seq({"SUCCESS", "TIMEOUT"}), Len(results') = race, FastEnoughSucceed'
  PROVE  RaceInv'
<1> DEFINE r == race + 1
           t == Timer(races[r].timeout, TimeoutTimer(r))
           u == Timer(races[r].sleep, SleepTimer(r))
<1>1. r \in 1..Len(races) /\ race' = r /\ r > race /\ race' # 0
  BY RacesAreTimed DEF RaceTypes, Begin
<1>2. /\ timers' = {t, u} /\ fut' = [fut EXCEPT ![Main] = "pending"]
      /\ must_cancel' = must_cancel \ {Main}
  BY DEF Begin, Suspend
<1>3. /\ t.left = races[r].timeout /\ t.handle = TimeoutTimer(r)
      /\ u.left = races[r].sleep /\ u.handle = SleepTimer(r)
      /\ t \in RaceTimers /\ u \in RaceTimers
  BY <1>1, RacesAreTimed DEF Timer, RaceTimers, SleepTimers, TimeoutTimers
<1> HIDE DEF t, u, r
<1>4. /\ ready' \in Seq(RaceHandles) /\ todo' \in 0..Len(ready')
      /\ \A x : InSeq(x, ready') => InSeq(x, ready)
      /\ ~InSeq(Step(Main), ready')
  BY RaceHandlesDiffer, RunOrder DEF RaceTypes
<1>5. SnapshotHasTimers'
  BY SnapshotRun
<1>6. fut'[Main] = "pending" /\ fut' \in [{Main} -> FutureStates] /\ must_cancel' = {}
  BY <1>2 DEF RaceTypes, FutureStates
<1>7. RaceTypes'
  <2>1. IsFiniteSet({t, u})
    <3>1. IsFiniteSet({t}) /\ {t, u} = {t} \union {u}
      BY FS_Singleton
    <3>2. IsFiniteSet({t} \union {u})
      BY <3>1, FS_AddElement
    <3> QED
      BY <3>1, <3>2
  <2> QED
    BY <1>1, <1>2, <1>3, <1>4, <1>6, <2>1 DEF RaceTypes
<1>8. ~Throws(Main)'
  BY <1>6 DEF Throws
<1>9. ~InSeq(SleepTimer(r), ready') /\ ~InSeq(TimeoutTimer(r), ready')
  BY <1>1, <1>4 DEF NothingAhead
<1>10. NothingAhead'
  BY <1>1, <1>4 DEF NothingAhead, RaceTypes
<1>11. OwnTimers'
  BY <1>1, <1>2, <1>3, RacesAreTimed DEF OwnTimers
<1>12. OneStep'
  BY <1>4, <1>6 DEF OneStep, Once, InSeq
<1>13. ResultsInStep'
  BY <1>1 DEF ResultsInStep, RaceTypes, r
<1>14. races[r].timeout < races[r].sleep => TimeoutLeads'
  BY <1>1, <1>2, <1>3, <1>6, <1>9, RaceHandlesDiffer
     DEF TimeoutLeads, IsPending, Ahead, InSeq
<1>15. races[r].sleep + MaxLate < races[r].timeout => SleepLeads'
  BY <1>1, <1>2, <1>3, <1>4, <1>6, <1>8, <1>9, RaceHandlesDiffer
     DEF SleepLeads, IsPending, Ahead, InSeq
<1> QED
  BY <1>1, <1>5, <1>7, <1>8, <1>10, <1>11, <1>12, <1>13, <1>14, <1>15
     DEF RaceInv, Leader
(* The service's sleep is over.                                            *)
LEMMA RaceInvSleepExpires ==
  ASSUME RaceInv, NEW i \in 1..Len(races), SleepExpires(i)
  PROVE  RaceInv'
<1> DEFINE wakes == ~Stale(i) /\ fut[Main] = "pending"
<1> PICK new : new = IF wakes THEN <<Step(Main)>> ELSE <<>>
  OBVIOUS
<1>1. /\ RunHandle(SleepTimer(i), new) /\ new \in {<<>>, <<Step(Main)>>}
      /\ new \in Seq(RaceHandles)
      /\ fut' = [fut EXCEPT ![Main] = IF wakes THEN "result" ELSE @]
      /\ timers' = timers /\ must_cancel' = must_cancel
      /\ race' = race /\ expiring' = expiring /\ results' = results /\ finished' = finished
      /\ \A x : InSeq(x, new) <=> x = Step(Main) /\ wakes
      /\ \A x, y : x # Step(Main) \/ y # Step(Main) => Ahead(new, x, y)
  BY RaceHandlesDiffer DEF SleepExpires, raceVars
<1>2. wakes => ~finished /\ i = race /\ fut[Main] = "pending"
  BY DEF Stale
<1>3. ~wakes => finished \/ i # race \/ fut[Main] # "pending"
  BY DEF Stale
<1> HIDE DEF wakes
<1>4. RaceTypes /\ FastEnoughSucceed /\ NothingAhead /\ SnapshotHasTimers
  BY DEF RaceInv
<1>5. /\ ready' \in Seq(RaceHandles) /\ todo' \in 0..Len(ready') /\ InSeq(SleepTimer(i), ready)
      /\ \A x : InSeq(x, ready') => InSeq(x, ready) \/ InSeq(x, new)
      /\ \A x : InSeq(x, new) => InSeq(x, ready')
      /\ \A x : InSeq(x, ready) /\ x # SleepTimer(i) => InSeq(x, ready')
      /\ \A x, y : Ahead(ready, x, y) /\ Ahead(new, x, y)
                   /\ ~(InSeq(x, new) /\ InSeq(y, ready)) => Ahead(ready', x, y)
      /\ \A x : Once(ready, x) /\ ~InSeq(x, new) => Once(ready', x)
      /\ \A x : Ahead(ready, x, SleepTimer(i)) => ~InSeq(x, ready)
  BY <1>1, <1>4, RunOrder DEF RaceTypes
<1>6. fut' \in [{Main} -> FutureStates] /\ fut'[Main] = IF wakes THEN "result" ELSE fut[Main]
  BY <1>1, <1>4 DEF RaceTypes, FutureStates
<1>7. RaceTypes' /\ SnapshotHasTimers' /\ FastEnoughSucceed'
  BY <1>1, <1>4, <1>5, <1>6, SnapshotRun DEF RaceTypes, FastEnoughSucceed
<1>8. race # 0 /\ OwnTimers /\ OneStep /\ ResultsInStep /\ (~finished => Leader)
  BY <1>5, RaceHandlesDiffer DEF RaceInv, BeforeRaces
<1>9. NothingAhead'
  BY <1>1, <1>4, <1>5, RaceHandlesDiffer DEF NothingAhead
<1>10. Throws(Main)' => race' \in expiring'
  BY <1>1, <1>6 DEF RaceInv, Throws
<1>11. OwnTimers' /\ ResultsInStep' /\ (finished' => timers' = {})
  BY <1>1, <1>8 DEF RaceInv, OwnTimers, ResultsInStep
<1>12. OneStep'
  <2>1. CASE wakes
    <3>1. ~InSeq(Step(Main), ready)
      BY <1>2, <1>8, <2>1 DEF OneStep
    <3>2. new = <<Step(Main)>> /\ ready' = Tail(ready) \o new /\ ready # <<>>
      BY <1>1, <1>5, <2>1 DEF RunHandle, InSeq
    <3>3. Once(ready', Step(Main))
      BY <1>4, <3>1, <3>2, OnceAppended, RaceHandlesDiffer DEF RaceTypes
    <3> QED
      BY <1>1, <1>2, <1>6, <2>1, <3>3 DEF OneStep
  <2>2. CASE ~wakes
    BY <1>1, <1>5, <1>6, <1>8, <2>2 DEF OneStep
  <2> QED
    BY <2>1, <2>2
<1>13. ASSUME ~finished, TimeoutLeads PROVE TimeoutLeads'
  <2>1. ~wakes
    <3>1. SUFFICES ASSUME i = race, fut[Main] = "pending" PROVE FALSE
      BY <1>2
    <3> QED
      BY <1>5, <1>13, <3>1 DEF TimeoutLeads
  <2> QED
    BY <1>1, <1>5, <1>6, <1>13, <2>1, RaceHandlesDiffer DEF TimeoutLeads, IsPending
<1>14. ASSUME ~finished, SleepLeads PROVE SleepLeads'
  <2>1. ~Throws(Main)'
    BY <1>1, <1>6, <1>14 DEF SleepLeads, Throws
  <2>2. IsPending(SleepTimer(race)) \/ InSeq(SleepTimer(race), ready')
          => ~InSeq(TimeoutTimer(race), ready')
    BY <1>1, <1>5, <1>14, RaceHandlesDiffer DEF SleepLeads
  <2>3. Ahead(ready', Step(Main), TimeoutTimer(race))
    <3>1. wakes => ~InSeq(TimeoutTimer(race), ready)
      BY <1>2, <1>5, <1>14 DEF SleepLeads
    <3> QED
      BY <1>1, <1>5, <1>14, <3>1, RaceHandlesDiffer DEF SleepLeads
  <2>4. /\ fut'[Main] = "pending"
             => IsPending(SleepTimer(race)) \/ InSeq(SleepTimer(race), ready')
        /\ fut'[Main] = "result" => InSeq(Step(Main), ready')
    BY <1>1, <1>2, <1>3, <1>5, <1>6, <1>14, RaceHandlesDiffer DEF SleepLeads
  <2> QED
    BY <1>1, <1>14, <2>1, <2>2, <2>3, <2>4 DEF SleepLeads, IsPending
<1>15. ~finished => Leader'
  BY <1>1, <1>8, <1>13, <1>14 DEF Leader
<1> QED
  BY <1>1, <1>7, <1>8, <1>9, <1>10, <1>11, <1>12, <1>15 DEF RaceInv

(* The timeout has expired.                                                *)
LEMMA RaceInvTimeoutExpires ==
  ASSUME RaceInv, NEW i \in 1..Len(races), TimeoutExpires(i)
  PROVE  RaceInv'
<1> DEFINE acts  == ~Stale(i)
           wakes == ~Stale(i) /\ fut[Main] = "pending"
<1> PICK new : new = IF wakes THEN <<Step(Main)>> ELSE <<>>
  OBVIOUS
<1>1. /\ RunHandle(TimeoutTimer(i), new) /\ new \in {<<>>, <<Step(Main)>>}
      /\ new \in Seq(RaceHandles)
      /\ timers' = timers /\ race' = race /\ results' = results /\ finished' = finished
      /\ expiring' = IF acts THEN expiring \union {i} ELSE expiring
      /\ \A x : InSeq(x, new) <=> x = Step(Main) /\ wakes
      /\ \A x, y : x # Step(Main) \/ y # Step(Main) => Ahead(new, x, y)
  <2>1. (Interrupted(IF Stale(i) THEN {} ELSE {Main}) # {}) <=> wakes
    BY DEF Interrupted
  <2> QED
    BY <2>1, RaceHandlesDiffer DEF TimeoutExpires
<1>2. RaceTypes /\ FastEnoughSucceed /\ NothingAhead /\ SnapshotHasTimers
  BY DEF RaceInv
<1>3. /\ fut' \in [{Main} -> FutureStates] /\ must_cancel' \subseteq {Main}
      /\ fut'[Main] = IF wakes THEN "cancelled" ELSE fut[Main]
      /\ ~acts => must_cancel' = must_cancel
      /\ wakes => must_cancel' = must_cancel
  BY <1>2 DEF TimeoutExpires, FutAfterCancel, MarkedAfterCancel, Interrupted, RaceTypes,
              FutureStates
<1>4. (wakes => acts) /\ (acts => ~finished /\ i = race) /\ (wakes => fut[Main] = "pending")
      /\ (acts /\ ~wakes => fut[Main] # "pending") /\ (~acts => finished \/ i # race)
  BY DEF Stale
<1> HIDE DEF wakes, acts
<1>5. /\ ready' \in Seq(RaceHandles) /\ todo' \in 0..Len(ready')
      /\ InSeq(TimeoutTimer(i), ready)
      /\ \A x : InSeq(x, ready') => InSeq(x, ready) \/ InSeq(x, new)
      /\ \A x : InSeq(x, new) => InSeq(x, ready')
      /\ \A x : InSeq(x, ready) /\ x # TimeoutTimer(i) => InSeq(x, ready')
      /\ \A x, y : Ahead(ready, x, y) /\ Ahead(new, x, y)
                   /\ ~(InSeq(x, new) /\ InSeq(y, ready)) => Ahead(ready', x, y)
      /\ \A x : Once(ready, x) /\ ~InSeq(x, new) => Once(ready', x)
      /\ \A x : Ahead(ready, x, TimeoutTimer(i)) => ~InSeq(x, ready)
  BY <1>1, <1>2, RunOrder DEF RaceTypes
<1>6. RaceTypes' /\ SnapshotHasTimers' /\ FastEnoughSucceed'
  BY <1>1, <1>2, <1>3, <1>5, SnapshotRun DEF RaceTypes, FastEnoughSucceed
<1>7. race # 0 /\ OwnTimers /\ OneStep /\ ResultsInStep /\ (~finished => Leader)
  BY <1>5, RaceHandlesDiffer DEF RaceInv, BeforeRaces
<1>8. NothingAhead'
  BY <1>1, <1>2, <1>5, RaceHandlesDiffer DEF NothingAhead
<1>9. Throws(Main)' => race' \in expiring'
  <2>1. CASE acts
    BY <1>1, <1>4, <2>1
  <2>2. CASE ~acts
    BY <1>1, <1>3, <1>4, <2>2 DEF RaceInv, Throws
  <2> QED
    BY <2>1, <2>2
<1>10. OwnTimers' /\ ResultsInStep' /\ (finished' => timers' = {})
  BY <1>1, <1>7 DEF RaceInv, OwnTimers, ResultsInStep
<1>11. OneStep'
  <2>1. CASE wakes
    <3>1. ~InSeq(Step(Main), ready)
      BY <1>4, <1>7, <2>1 DEF OneStep
    <3>2. new = <<Step(Main)>> /\ ready' = Tail(ready) \o new /\ ready # <<>>
      BY <1>1, <1>5, <2>1 DEF RunHandle, InSeq
    <3>3. Once(ready', Step(Main))
      BY <1>2, <3>1, <3>2, OnceAppended, RaceHandlesDiffer DEF RaceTypes
    <3> QED
      BY <1>1, <1>3, <1>4, <2>1, <3>3 DEF OneStep
  <2>2. CASE ~wakes
    BY <1>1, <1>3, <1>5, <1>7, <2>2 DEF OneStep
  <2> QED
    BY <2>1, <2>2
<1>12. ASSUME ~finished, TimeoutLeads PROVE TimeoutLeads'
  <2>1. fut'[Main] # "result"
    BY <1>3, <1>12 DEF TimeoutLeads
  <2>2. /\ IsPending(TimeoutTimer(race)) => ~InSeq(SleepTimer(race), ready')
        /\ Ahead(ready', TimeoutTimer(race), SleepTimer(race))
    BY <1>1, <1>5, <1>12, RaceHandlesDiffer DEF TimeoutLeads
  <2>3. fut'[Main] = "pending"
          => IsPending(TimeoutTimer(race)) \/ InSeq(TimeoutTimer(race), ready')
    <3>1. SUFFICES ASSUME fut'[Main] = "pending"
                   PROVE  IsPending(TimeoutTimer(race)) \/ InSeq(TimeoutTimer(race), ready')
      OBVIOUS
    <3>2. i # race /\ fut[Main] = "pending"
      BY <1>3, <1>4, <1>12, <3>1
    <3> QED
      BY <1>5, <1>12, <3>2, RaceHandlesDiffer DEF TimeoutLeads
  <2> QED
    BY <1>1, <1>12, <2>1, <2>2, <2>3 DEF TimeoutLeads, IsPending
<1>13. ASSUME ~finished, SleepLeads PROVE SleepLeads'
  <2>1. i # race
    <3>1. SUFFICES ASSUME i = race PROVE FALSE
      OBVIOUS
    <3>2. ~InSeq(Step(Main), ready) /\ InSeq(TimeoutTimer(race), ready)
      BY <1>5, <1>13, <3>1 DEF SleepLeads
    <3>3. fut[Main] \notin {"result", "pending", "cancelled", "none"}
      BY <1>7, <1>13, <3>2 DEF SleepLeads, OneStep, Throws
    <3> QED
      BY <1>2, <3>3 DEF RaceTypes, FutureStates
  <2>2. ~acts /\ ~wakes
    BY <1>4, <2>1
  <2>3. ~Throws(Main)' /\ fut'[Main] = fut[Main]
    BY <1>3, <1>13, <2>2 DEF SleepLeads, Throws
  <2>4. IsPending(SleepTimer(race)) \/ InSeq(SleepTimer(race), ready')
          => ~InSeq(TimeoutTimer(race), ready')
    BY <1>1, <1>5, <1>13, RaceHandlesDiffer DEF SleepLeads
  <2>5. Ahead(ready', Step(Main), TimeoutTimer(race))
    BY <1>1, <1>5, <1>13, <2>2, RaceHandlesDiffer DEF SleepLeads
  <2>6. /\ fut[Main] = "pending"
             => IsPending(SleepTimer(race)) \/ InSeq(SleepTimer(race), ready')
        /\ fut[Main] = "result" => InSeq(Step(Main), ready')
    BY <1>5, <1>13, RaceHandlesDiffer DEF SleepLeads
  <2> QED
    BY <1>1, <1>13, <2>3, <2>4, <2>5, <2>6 DEF SleepLeads, IsPending
<1>14. ~finished => Leader'
  BY <1>1, <1>7, <1>12, <1>13 DEF Leader
<1> QED
  BY <1>1, <1>6, <1>7, <1>8, <1>9, <1>10, <1>11, <1>14 DEF RaceInv
(* The caller's step: the race ends as the timer that led has it.          *)
LEMMA RaceInvDecide ==
  ASSUME RaceInv, race > 0, NEW outcome, Decide(outcome),
         outcome = IF Throws(Main) THEN "TIMEOUT" ELSE "SUCCESS"
  PROVE  RaceInv'
<1>1. /\ RaceTypes /\ FastEnoughSucceed /\ NothingAhead /\ SnapshotHasTimers
      /\ OwnTimers /\ OneStep /\ ResultsInStep
      /\ (finished => timers = {}) /\ (~finished => Leader)
  BY RacesAreTimed DEF RaceInv, RaceTypes
<1>2. /\ RunHandle(Step(Main), <<>>) /\ results' = Append(results, outcome)
      /\ expiring' = expiring
  BY DEF Decide
<1>3. /\ ready' \in Seq(RaceHandles) /\ todo' \in 0..Len(ready') /\ InSeq(Step(Main), ready)
      /\ \A x : InSeq(x, ready') => InSeq(x, ready)
      /\ ~InSeq(Step(Main), ready')
  BY <1>1, <1>2, RaceHandlesDiffer, RunOrder DEF RaceTypes, OneStep
<1>4. ~finished /\ fut[Main] \in {"result", "cancelled"} /\ race \in 1..Len(races)
  BY <1>1, <1>3, RacesAreTimed DEF OneStep, RaceTypes
<1>5. /\ results' \in Seq({"SUCCESS", "TIMEOUT"}) /\ Len(results) \in Nat
      /\ Len(results) = race - 1 /\ Len(results') = race /\ results'[race] = outcome
      /\ DOMAIN results' = 1..race /\ DOMAIN results = 1..race - 1
      /\ \A j \in 1..race - 1 : results'[j] = results[j]
  <2>1. outcome \in {"SUCCESS", "TIMEOUT"} /\ results \in Seq({"SUCCESS", "TIMEOUT"})
        /\ Len(results) = race - 1
    BY <1>1, <1>4 DEF RaceTypes, ResultsInStep
  <2> QED
    BY <1>2, <1>4, <2>1
<1>6. /\ races[race].timeout < races[race].sleep => outcome = "TIMEOUT"
      /\ races[race].sleep + MaxLate < races[race].timeout => outcome = "SUCCESS"
  BY <1>1, <1>4 DEF Leader, TimeoutLeads, SleepLeads, Throws
<1>7. FastEnoughSucceed'
  <2>1. \A j \in 1..race : j \in 1..race - 1 \/ j = race
    BY <1>4
  <2> QED
    BY <1>1, <1>5, <1>6, <2>1 DEF FastEnoughSucceed
<1>8. Remaining = {}
  BY <1>1 DEF Remaining, OwnTimers
<1>9. CASE race < Len(races)
  <2>1. Begin(race + 1, {}) /\ finished' = finished
    BY <1>8, <1>9 DEF Decide
  <2> QED
    BY <1>1, <1>2, <1>4, <1>5, <1>7, <1>9, <2>1, RaceBegins DEF OneStep
<1>10. CASE ~(race < Len(races))
  <2>1. /\ timers' = {} /\ fut' = [fut EXCEPT ![Main] = "none"]
        /\ must_cancel' = must_cancel \ {Main} /\ finished' = TRUE /\ race' = race
    BY <1>8, <1>10 DEF Decide, Clear
  <2>2. fut' \in [{Main} -> FutureStates] /\ fut'[Main] = "none" /\ must_cancel' = {}
    BY <1>1, <2>1 DEF RaceTypes, FutureStates
  <2>3. RaceTypes'
    BY <1>1, <1>3, <1>5, <2>1, <2>2, FS_EmptySet DEF RaceTypes
  <2>4. SnapshotHasTimers'
    BY <1>1, <1>2, SnapshotRun
  <2>5. NothingAhead' /\ OwnTimers' /\ ResultsInStep'
    BY <1>1, <1>3, <1>5, <2>1 DEF NothingAhead, OwnTimers, ResultsInStep
  <2>6. OneStep'
    BY <1>3, <2>1, <2>2 DEF OneStep, Once, InSeq
  <2>7. ~Throws(Main)'
    BY <2>2 DEF Throws
  <2> QED
    BY <1>4, <1>7, <2>1, <2>3, <2>4, <2>5, <2>6, <2>7 DEF RaceInv
<1> QED
  BY <1>9, <1>10

LEMMA RaceInvStart ==
  ASSUME RaceInv, RacesStart
  PROVE  RaceInv'
<1>1. /\ race = 0 /\ RunHandle(Step(Main), <<>>) /\ Begin(1, timers)
      /\ results' = results /\ finished' = finished
  BY DEF RacesStart
<1>2. BeforeRaces /\ RaceTypes /\ NothingAhead /\ SnapshotHasTimers /\ FastEnoughSucceed
  BY <1>1 DEF RaceInv
<1>3. Once(ready, Step(Main)) /\ Begin(race + 1, {})
  BY <1>1, <1>2 DEF BeforeRaces, Once
<1>4. /\ results' \in Seq({"SUCCESS", "TIMEOUT"}) /\ Len(results') = race /\ ~finished'
      /\ FastEnoughSucceed'
  BY <1>1, <1>2 DEF BeforeRaces, FastEnoughSucceed
<1> QED
  BY <1>1, <1>2, <1>3, <1>4, RacesAreTimed, RaceBegins

(* A poll finds only steps of the caller in the queue.                     *)
LEMMA RaceInvPoll ==
  ASSUME RaceInv, StartIteration, UNCHANGED <<fut, must_cancel, race, expiring, results, finished>>
  PROVE  RaceInv'
<1>1. RaceTypes /\ FastEnoughSucceed /\ NothingAhead /\ SnapshotHasTimers
  BY DEF RaceInv
<1>2. /\ ready' \in Seq(RaceHandles) /\ todo' \in 0..Len(ready') /\ timers' = timers \ Due
      /\ todo = 0 /\ todo' = Len(ready')
      /\ \A x : InSeq(x, ready') <=> InSeq(x, ready) \/ \E t \in Due : t.handle = x
      /\ \A x, y : /\ Ahead(ready, x, y)
                   /\ \A t, u \in Due : t.handle = x /\ u.handle = y => t.left < u.left
                   /\ InSeq(y, ready) => \A t \in Due : t.handle # x
                   => Ahead(ready', x, y)
      /\ \A x : Once(ready, x) /\ (\A t \in Due : t.handle # x) => Once(ready', x)
  <2> PICK T : T = SleepTimers \union TimeoutTimers
    OBVIOUS
  <2>1. timers \in SUBSET [left : Int, handle : T] /\ T \subseteq RaceHandles
    BY <1>1 DEF RaceTimers, RaceTypes, RaceHandles
  <2> QED
    BY <1>1, <2>1, PollOrder DEF RaceTypes
<1>3. /\ \A t \in timers : t.left \in Int
      /\ Due \subseteq timers /\ \A t \in timers : t \in Due <=> t.left <= 0
      /\ timers' \subseteq timers /\ IsFiniteSet(timers')
  BY <1>1, <1>2, FS_Subset DEF RaceTypes, RaceTimers, Due
<1>4. RaceTypes'
  BY <1>1, <1>2, <1>3 DEF RaceTypes
<1>5. \A x : InSeq(x, ready) => x = Step(Main)
  BY <1>1, <1>2 DEF SnapshotHasTimers, InSeq, RaceTypes
<1>6. SnapshotHasTimers' /\ FastEnoughSucceed'
  BY <1>1, <1>2 DEF SnapshotHasTimers, FastEnoughSucceed
<1>7. Throws(Main)' => race' \in expiring'
  BY DEF RaceInv, Throws
<1>8. CASE race = 0
  <2>1. BeforeRaces
    BY <1>8 DEF RaceInv
  <2>2. Due = {} /\ timers' = {}
    BY <1>2, <2>1 DEF BeforeRaces, Due
  <2>3. ready' = ready
    BY <2>2, PollNothing, <1>1 DEF RaceTypes
  <2>4. BeforeRaces' /\ NothingAhead'
    BY <1>1, <2>1, <2>2, <2>3 DEF BeforeRaces, NothingAhead
  <2> QED
    BY <1>4, <1>6, <1>7, <1>8, <2>4 DEF RaceInv
<1>9. CASE race # 0
  <2> DEFINE s == SleepTimer(race)
             x == TimeoutTimer(race)
  <2>1. OwnTimers /\ OneStep /\ ResultsInStep /\ (~finished => Leader)
    BY <1>9 DEF RaceInv
  <2>2. /\ \A t \in timers : t.left >= -MaxLate /\ t.handle \in {s, x}
        /\ \A t \in Due : t.handle # Step(Main)
        /\ ~InSeq(s, ready) /\ ~InSeq(x, ready)
    BY <1>3, <1>5, <2>1, RaceHandlesDiffer DEF OwnTimers
  <2>3. \A i \in 1..Len(races) : i > race =>
          SleepTimer(i) \notin {s, x} /\ TimeoutTimer(i) \notin {s, x}
    BY <1>1, RaceHandlesDiffer DEF RaceTypes
  <2>4. NothingAhead'
    BY <1>1, <1>2, <1>3, <2>2, <2>3 DEF NothingAhead
  <2>5. OwnTimers' /\ ResultsInStep' /\ (finished' => timers' = {})
    BY <1>2, <1>3, <1>9, <2>1 DEF RaceInv, OwnTimers, ResultsInStep
  <2>6. OneStep'
    BY <1>2, <2>1, <2>2 DEF OneStep
  <2>7. ASSUME TimeoutLeads PROVE TimeoutLeads'
    <3>1. \A t, u \in timers : t.handle = x /\ u.handle = s => t.left < u.left
      BY <2>7 DEF TimeoutLeads
    <3>2. IsPending(x)' => ~InSeq(s, ready')
      <4>1. SUFFICES ASSUME NEW t \in timers', t.handle = x PROVE ~InSeq(s, ready')
        BY DEF IsPending
      <4>2. t \in timers /\ ~(t.left <= 0)
        BY <1>2, <1>3
      <4>3. \A u \in Due : u.handle # s
        BY <1>3, <3>1, <4>1, <4>2
      <4> QED
        BY <1>2, <2>2, <4>3
    <3>3. Ahead(ready', x, s)
      BY <1>2, <1>3, <2>2, <2>7, <3>1 DEF TimeoutLeads
    <3>4. fut[Main] = "pending" => IsPending(x)' \/ InSeq(x, ready')
      BY <1>2, <2>7 DEF TimeoutLeads, IsPending
    <3> QED
      BY <1>3, <2>7, <3>1, <3>2, <3>3, <3>4 DEF TimeoutLeads
  <2>8. ASSUME SleepLeads PROVE SleepLeads'
    <3>1. \A t, u \in timers : t.handle = x /\ u.handle = s => u.left + MaxLate < t.left
      BY <2>8 DEF SleepLeads
    <3>2. \A t, u \in timers : t.handle = x /\ u.handle = s => t \notin Due
      <4>1. SUFFICES ASSUME NEW t \in timers, NEW u \in timers, t.handle = x, u.handle = s
                     PROVE  ~(t.left <= 0)
        BY <1>3
      <4>2. u.left + MaxLate < t.left /\ u.left >= -MaxLate
        BY <2>2, <3>1, <4>1
      <4> QED
        BY <1>3, <4>2, RacesAreTimed
    <3>3. IsPending(s)' \/ InSeq(s, ready') => ~InSeq(x, ready')
      <4>1. IsPending(s)' \/ InSeq(s, ready') => \E u \in timers : u.handle = s
        BY <1>2, <1>3, <2>2 DEF IsPending
      <4>2. InSeq(x, ready') => \E t \in Due : t.handle = x
        BY <1>2, <2>2
      <4> QED
        BY <1>3, <3>2, <4>1, <4>2
    <3>4. Ahead(ready', Step(Main), x)
      BY <1>2, <2>2, <2>8 DEF SleepLeads
    <3>5. /\ fut[Main] = "pending" => IsPending(s)' \/ InSeq(s, ready')
          /\ fut[Main] = "result" => InSeq(Step(Main), ready')
      BY <1>2, <2>8 DEF SleepLeads, IsPending
    <3> QED
      BY <1>3, <2>8, <3>1, <3>3, <3>4, <3>5 DEF SleepLeads, Throws
  <2>9. ~finished' => Leader'
    BY <2>1, <2>7, <2>8 DEF Leader
  <2> QED
    BY <1>4, <1>6, <1>7, <1>9, <2>4, <2>5, <2>6, <2>9 DEF RaceInv
<1> QED
  BY <1>8, <1>9

LEMMA RaceInvTick ==
  ASSUME RaceInv, Tick, UNCHANGED <<fut, must_cancel, race, expiring, results, finished>>
  PROVE  RaceInv'
<1>1. RaceTypes /\ FastEnoughSucceed /\ NothingAhead /\ SnapshotHasTimers
  BY DEF RaceInv
<1>2. /\ timers' \in SUBSET RaceTimers /\ IsFiniteSet(timers')
      /\ \A t \in timers' : Timer(t.left + 1, t.handle) \in timers
      /\ \A t \in timers : Timer(t.left - 1, t.handle) \in timers'
      /\ Idle \/ \A t \in timers : t.left > -MaxLate
      /\ ready' = ready /\ todo' = todo
  BY <1>1, TickOrder DEF RaceTypes, RaceTimers
<1>3. RaceTypes' /\ FastEnoughSucceed' /\ NothingAhead' /\ SnapshotHasTimers'
  BY <1>1, <1>2 DEF RaceTypes, FastEnoughSucceed, NothingAhead, SnapshotHasTimers
<1>4. race # 0 /\ OwnTimers /\ OneStep /\ ResultsInStep /\ (~finished => Leader)
  BY DEF RaceInv, BeforeRaces, Tick
<1>5. /\ \A h : IsPending(h)' <=> IsPending(h)
      /\ \A t \in timers' : \E o \in timers : o.handle = t.handle /\ o.left = t.left + 1
      /\ \A t \in timers' : t.left \in Int
      /\ \A t \in timers : t.left \in Int
  BY <1>1, <1>2 DEF IsPending, Timer, RaceTimers, RaceTypes
<1>6. OwnTimers'
  <2>1. \A t \in timers : t.left > -MaxLate
    BY <1>2, <1>5, RacesAreTimed DEF Idle, Due
  <2>2. SUFFICES ASSUME NEW t \in timers'
                 PROVE  t.left >= -MaxLate /\ t.handle \in {SleepTimer(race), TimeoutTimer(race)}
    BY DEF OwnTimers
  <2>3. PICK o \in timers : o.handle = t.handle /\ o.left = t.left + 1
    BY <1>5
  <2>4. t.left + 1 > -MaxLate /\ t.left \in Int
    BY <1>5, <2>1, <2>3
  <2> QED
    BY <1>4, <2>3, <2>4, RacesAreTimed DEF OwnTimers
<1>7. OneStep' /\ ResultsInStep' /\ (Throws(Main)' => race' \in expiring')
  BY <1>2, <1>4 DEF OneStep, ResultsInStep, RaceInv, Throws
<1>8. finished' => timers' = {}
  BY <1>4, <1>5 DEF RaceInv
<1>9. ASSUME TimeoutLeads PROVE TimeoutLeads'
  <2>1. \A t, u \in timers' :
          t.handle = TimeoutTimer(race) /\ u.handle = SleepTimer(race) => t.left < u.left
    <3>1. SUFFICES ASSUME NEW t \in timers', NEW u \in timers',
                          t.handle = TimeoutTimer(race), u.handle = SleepTimer(race)
                   PROVE  t.left < u.left
      OBVIOUS
    <3>2. t.left + 1 < u.left + 1
      BY <1>5, <1>9, <3>1 DEF TimeoutLeads
    <3> QED
      BY <1>5, <3>2
  <2> QED
    BY <1>2, <1>5, <1>9, <2>1 DEF TimeoutLeads
<1>10. ASSUME SleepLeads PROVE SleepLeads'
  <2>1. \A t, u \in timers' :
          t.handle = TimeoutTimer(race) /\ u.handle = SleepTimer(race) => u.left + MaxLate < t.left
    <3>1. SUFFICES ASSUME NEW t \in timers', NEW u \in timers',
                          t.handle = TimeoutTimer(race), u.handle = SleepTimer(race)
                   PROVE  u.left + MaxLate < t.left
      OBVIOUS
    <3>2. u.left + 1 + MaxLate < t.left + 1
      BY <1>5, <1>10, <3>1 DEF SleepLeads
    <3> QED
      BY <1>5, <3>2, RacesAreTimed
  <2> QED
    BY <1>2, <1>5, <1>10, <2>1 DEF SleepLeads, Throws
<1>11. ~finished' => Leader'
  BY <1>4, <1>9, <1>10 DEF Leader
<1> QED
  BY <1>3, <1>4, <1>6, <1>7, <1>8, <1>11 DEF RaceInv

LEMMA RaceInvInit ==
  RaceInit => RaceInv
<1> SUFFICES ASSUME RaceInit PROVE RaceInv
  OBVIOUS
<1>1. RaceTypes /\ BeforeRaces
  BY RacesAreTimed, RaceHandlesDiffer, FS_EmptySet
     DEF RaceInit, LoopInit, TasksInit, RaceTypes, BeforeRaces, FutureStates
<1>2. FastEnoughSucceed /\ NothingAhead /\ SnapshotHasTimers
  BY <1>1, RaceHandlesDiffer DEF BeforeRaces, FastEnoughSucceed, NothingAhead, SnapshotHasTimers
<1>3. ~Throws(Main) /\ race = 0
  BY DEF RaceInit, TasksInit, Throws
<1> QED
  BY <1>1, <1>2, <1>3 DEF RaceInv

LEMMA RaceInvStep ==
  ASSUME RaceInv, [RaceNext]_allRaceVars
  PROVE  RaceInv'
<1>1. CASE RaceLoop
  BY <1>1, RaceInvPoll, RaceInvTick DEF RaceLoop, taskVars, raceVars
<1>2. CASE RacesStart
  BY <1>2, RaceInvStart
<1>3. CASE \E i \in 1..Len(races) : SleepExpires(i) \/ TimeoutExpires(i)
  BY <1>3, RaceInvSleepExpires, RaceInvTimeoutExpires
<1>4. CASE MainSucceeds
  BY <1>4, RaceInvDecide DEF MainSucceeds
<1>5. CASE MainTimesOut
  BY <1>5, RaceInvDecide DEF MainTimesOut
<1>6. CASE UNCHANGED allRaceVars
  BY <1>6 DEF allRaceVars, raceVars, loopVars, taskVars, RaceInv, RaceTypes, FastEnoughSucceed,
     NothingAhead, SnapshotHasTimers, Throws, BeforeRaces, OwnTimers, OneStep, ResultsInStep,
     Leader, TimeoutLeads, SleepLeads, IsPending
<1> QED
  BY <1>1, <1>2, <1>3, <1>4, <1>5, <1>6 DEF RaceNext, RacesOver

(* A service that sleeps longer than its timeout never succeeds, and one   *)
(* that is faster by more than the loop can be late always does, for every *)
(* list of races and every lateness (b5_race_and_timeout_scaled).          *)
THEOREM FasterSideWins ==
  RaceSpec => []FastEnoughSucceed
<1>1. RaceInv => FastEnoughSucceed
  BY DEF RaceInv
<1> QED
  BY <1>1, RaceInvInit, RaceInvStep, PTL DEF RaceSpec

(* A cancellation of the caller is always its current race's own, and no   *)
(* timer outlives its race.                                                *)
THEOREM CancelStaysInItsRace ==
  RaceSpec => []NoLeakedCancel
<1>1. RaceInv => NoLeakedCancel
  BY DEF RaceInv, NoLeakedCancel, BeforeRaces, OwnTimers
<1> QED
  BY <1>1, RaceInvInit, RaceInvStep, PTL DEF RaceSpec
=============================================================================
