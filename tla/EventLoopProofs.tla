--------------------------- MODULE EventLoopProofs ---------------------------
(***************************************************************************)
(* Lemmas about the ready queue of EventLoop: what is in it after the loop *)
(* has run a handle and after a poll, and that no handle is queued twice;  *)
(* and about selections from a sequence.                                   *)
(***************************************************************************)
EXTENDS EventLoop, Selection, FiniteSetTheorems, WellFoundedInduction, TLAPS

InSeq(x, s) == \E i \in 1..Len(s) : s[i] = x

Unique(s) == \A i, j \in 1..Len(s) : s[i] = s[j] => i = j

(* Handles of different kinds or tasks are different. *)
LEMMA HandlesDiffer ==
  \A t, u :
    /\ Step(t) = Step(u) => t = u
    /\ Fire(t) = Fire(u) => t = u
    /\ DoneCb(t) = DoneCb(u) => t = u
    /\ Step(t) # Fire(u)
    /\ Step(t) # DoneCb(u)
    /\ Fire(t) # DoneCb(u)
BY DEF Step, Fire, DoneCb

(* Appending a queue of new members. *)
LEMMA QueueAppend ==
  ASSUME NEW S, NEW s \in Seq(S), NEW n \in Seq(S),
         Unique(s), Unique(n),
         \A x : InSeq(x, n) => ~InSeq(x, s)
  PROVE  /\ s \o n \in Seq(S)
         /\ Len(s \o n) = Len(s) + Len(n)
         /\ Unique(s \o n)
         /\ \A x : InSeq(x, s \o n) <=> InSeq(x, s) \/ InSeq(x, n)
<1> DEFINE r == s \o n
<1>1. /\ r \in Seq(S)
      /\ Len(r) = Len(s) + Len(n)
      /\ \A i \in 1..Len(s) : r[i] = s[i]
      /\ \A i \in 1..Len(n) : r[Len(s) + i] = n[i]
  OBVIOUS
<1>2. \A i \in 1..Len(r) :
         \/ i \in 1..Len(s) /\ r[i] = s[i]
         \/ i - Len(s) \in 1..Len(n) /\ r[i] = n[i - Len(s)]
  OBVIOUS
<1>3. Unique(r)
  <2>1. SUFFICES ASSUME NEW i \in 1..Len(r), NEW j \in 1..Len(r), r[i] = r[j]
                 PROVE  i = j
    BY DEF Unique
  <2> HIDE DEF r
  <2>2. \A k \in 1..Len(s), l \in 1..Len(n) : s[k] # n[l]
    BY DEF InSeq
  <2>3. CASE i \in 1..Len(s) /\ r[i] = s[i] /\ j \in 1..Len(s) /\ r[j] = s[j]
    BY <2>1, <2>3 DEF Unique
  <2>4. CASE /\ i - Len(s) \in 1..Len(n) /\ r[i] = n[i - Len(s)]
             /\ j - Len(s) \in 1..Len(n) /\ r[j] = n[j - Len(s)]
    <3>1. i - Len(s) = j - Len(s)
      BY <2>1, <2>4 DEF Unique
    <3> QED
      BY <1>1, <3>1
  <2> QED
    BY <1>2, <2>1, <2>2, <2>3, <2>4
<1>4. \A x : InSeq(x, r) <=> InSeq(x, s) \/ InSeq(x, n)
  <2> TAKE x
  <2>1. InSeq(x, r) => InSeq(x, s) \/ InSeq(x, n)
    BY <1>2 DEF InSeq
  <2>2. InSeq(x, s) => InSeq(x, r)
    BY <1>1 DEF InSeq
  <2>3. ASSUME InSeq(x, n) PROVE InSeq(x, r)
    <3>1. PICK i \in 1..Len(n) : n[i] = x
      BY <2>3 DEF InSeq
    <3>2. Len(s) + i \in 1..Len(r)
      BY <1>1
    <3> QED
      BY <1>1, <3>1, <3>2 DEF InSeq
  <2> QED
    BY <2>1, <2>2, <2>3
<1> QED
  BY <1>1, <1>3, <1>4

(* The rest of a queue without repetitions. *)
LEMMA QueueTail ==
  ASSUME NEW S, NEW s \in Seq(S), s # <<>>, Unique(s)
  PROVE  /\ Tail(s) \in Seq(S)
         /\ Len(Tail(s)) = Len(s) - 1
         /\ Unique(Tail(s))
         /\ \A x : InSeq(x, Tail(s)) <=> InSeq(x, s) /\ x # Head(s)
         /\ InSeq(Head(s), s)
         /\ Head(s) \in S
<1>1. /\ Tail(s) \in Seq(S)
      /\ Len(Tail(s)) = Len(s) - 1
      /\ Len(s) \in Nat \ {0}
      /\ Head(s) = s[1]
      /\ \A i \in 1..Len(Tail(s)) : Tail(s)[i] = s[i + 1]
  OBVIOUS
<1>2. Unique(Tail(s))
  BY <1>1 DEF Unique
<1>3. \A x : InSeq(x, Tail(s)) <=> InSeq(x, s) /\ x # Head(s)
  <2> TAKE x
  <2>1. ASSUME InSeq(x, Tail(s)) PROVE InSeq(x, s) /\ x # Head(s)
    <3>1. PICK i \in 1..Len(Tail(s)) : Tail(s)[i] = x
      BY <2>1 DEF InSeq
    <3>2. i + 1 \in 1..Len(s) /\ s[i + 1] = x /\ 1 \in 1..Len(s) /\ i + 1 # 1
      BY <1>1, <3>1
    <3> QED
      BY <1>1, <3>2 DEF InSeq, Unique
  <2>2. ASSUME InSeq(x, s), x # Head(s) PROVE InSeq(x, Tail(s))
    <3>1. PICK i \in 1..Len(s) : s[i] = x
      BY <2>2 DEF InSeq
    <3>2. i - 1 \in 1..Len(Tail(s)) /\ Tail(s)[i - 1] = x
      BY <1>1, <2>2, <3>1
    <3> QED
      BY <3>2 DEF InSeq
  <2> QED
    BY <2>1, <2>2
<1>4. InSeq(Head(s), s) /\ Head(s) \in S
  BY <1>1 DEF InSeq
<1> QED
  BY <1>1, <1>2, <1>3, <1>4

(* The ready queue after the loop has run a handle: the handle is gone and *)
(* the new ones are in.                                                    *)
LEMMA QueueRun ==
  ASSUME NEW S, NEW s \in Seq(S), NEW n \in Seq(S), s # <<>>,
         Unique(s), Unique(n),
         \A x : InSeq(x, n) => ~InSeq(x, s)
  PROVE  /\ Tail(s) \o n \in Seq(S)
         /\ Len(Tail(s) \o n) = Len(s) - 1 + Len(n)
         /\ Unique(Tail(s) \o n)
         /\ \A x : InSeq(x, Tail(s) \o n)
                     <=> (InSeq(x, s) /\ x # Head(s)) \/ InSeq(x, n)
<1>1. /\ Tail(s) \in Seq(S)
      /\ Len(Tail(s)) = Len(s) - 1
      /\ Unique(Tail(s))
      /\ \A x : InSeq(x, Tail(s)) <=> InSeq(x, s) /\ x # Head(s)
  BY QueueTail
<1>2. \A x : InSeq(x, n) => ~InSeq(x, Tail(s))
  BY <1>1
<1> HIDE DEF Unique
<1>3. /\ Tail(s) \o n \in Seq(S)
      /\ Len(Tail(s) \o n) = Len(Tail(s)) + Len(n)
      /\ Unique(Tail(s) \o n)
      /\ \A x : InSeq(x, Tail(s) \o n) <=> InSeq(x, Tail(s)) \/ InSeq(x, n)
  BY <1>1, <1>2, QueueAppend
<1> QED
  BY <1>1, <1>3

(* A poll moves timers that are due, each once. *)
LEMMA Poll ==
  ASSUME NEW S, NEW T \in SUBSET [left : Int, handle : S], IsFiniteSet(T),
         \A t, u \in T : t.handle = u.handle => t = u,
         NEW q \in ByDeadline(T)
  PROVE  LET n == [i \in DOMAIN q |-> q[i].handle]
         IN  /\ n \in Seq(S)
             /\ Len(n) = Len(q)
             /\ Len(q) \in Nat
             /\ Unique(n)
             /\ \A x : InSeq(x, n) => \E t \in T : t.handle = x
<1> DEFINE n == [i \in DOMAIN q |-> q[i].handle]
<1>1. Cardinality(T) \in Nat
  BY FS_CardinalityType
<1>2. /\ q \in [1..Cardinality(T) -> T]
      /\ \A i, j \in DOMAIN q : i < j => q[i] # q[j]
  BY DEF ByDeadline
<1>3. q \in Seq(T) /\ Len(q) = Cardinality(T) /\ DOMAIN q = 1..Len(q)
  BY <1>1, <1>2
<1>4. /\ n \in Seq(S)
      /\ Len(n) = Len(q)
      /\ \A i \in 1..Len(n) : q[i] \in T /\ n[i] = q[i].handle
  BY <1>3
<1>5. Unique(n)
  BY <1>2, <1>3, <1>4 DEF Unique
<1>6. \A x : InSeq(x, n) => \E t \in T : t.handle = x
  BY <1>4 DEF InSeq
<1> QED
  BY <1>1, <1>3, <1>4, <1>5, <1>6

(* ... and every one of them. *)
LEMMA PollAll ==
  ASSUME NEW T, IsFiniteSet(T), NEW q \in ByDeadline(T)
  PROVE  \A t \in T : InSeq(t.handle, [i \in DOMAIN q |-> q[i].handle])
<1> DEFINE n == Cardinality(T)
           new == [i \in DOMAIN q |-> q[i].handle]
<1>1. n \in Nat /\ IsFiniteSet(1..n) /\ Cardinality(1..n) = n
  BY FS_CardinalityType, FS_Interval
<1>2. /\ q \in [1..n -> T]
      /\ \A i, j \in 1..n : i < j => q[i] # q[j]
  BY DEF ByDeadline
<1>3. \A i, j \in 1..n : q[i] = q[j] => i = j
  <2>1. \A i, j \in 1..n : i < j \/ j < i \/ i = j
    BY <1>1
  <2> QED
    BY <1>2, <2>1
<1>4. q \in Injection(1..n, T)
  BY <1>2, <1>3 DEF Injection, IsInjective
<1>5. q \in Surjection(1..n, T)
  BY <1>1, <1>4, FS_Injection
<1>6. \A t \in T : \E i \in 1..n : q[i] = t
  BY <1>5 DEF Surjection
<1>7. Len(new) = n /\ \A i \in 1..n : new[i] = q[i].handle
  BY <1>1, <1>2
<1> QED
  BY <1>6, <1>7 DEF InSeq

(* Queues of no and of one member. *)
LEMMA QueueShort ==
  /\ \A x : ~InSeq(x, <<>>)
  /\ Unique(<<>>)
  /\ \A a : Unique(<<a>>) /\ \A x : InSeq(x, <<a>>) <=> x = a
BY DEF InSeq, Unique

(* A queue that a new member joins. *)
LEMMA QueueJoin ==
  ASSUME NEW S, NEW s \in Seq(S), NEW a \in S, Unique(s), ~InSeq(a, s)
  PROVE  /\ Append(s, a) \in Seq(S)
         /\ Unique(Append(s, a))
         /\ \A x : InSeq(x, Append(s, a)) <=> InSeq(x, s) \/ x = a
<1> DEFINE r == Append(s, a)
<1>1. /\ r \in Seq(S) /\ Len(s) \in Nat /\ Len(r) = Len(s) + 1
      /\ r[Len(s) + 1] = a
      /\ \A i \in 1..Len(s) : r[i] = s[i]
  OBVIOUS
<1> HIDE DEF r
<1>2. \A i \in 1..Len(r) : i \in 1..Len(s) \/ i = Len(s) + 1
  BY <1>1
<1>3. Unique(r)
  <2>1. \A i \in 1..Len(s) : s[i] # a
    BY DEF InSeq
  <2> QED
    BY <1>1, <1>2, <2>1 DEF Unique
<1>4. \A x : InSeq(x, r) <=> InSeq(x, s) \/ x = a
  <2> TAKE x
  <2>1. Len(s) + 1 \in 1..Len(r) /\ \A i \in 1..Len(s) : i \in 1..Len(r)
    BY <1>1
  <2> QED
    BY <1>1, <1>2, <2>1 DEF InSeq
<1> QED
  BY <1>1, <1>3, <1>4 DEF r
-----------------------------------------------------------------------------
(* The ready queue after a handle has run. *)
LEMMA RunFacts ==
  ASSUME NEW S, NEW h, NEW new \in Seq(S),
         ready \in Seq(S), todo \in 0..Len(ready),
         Unique(ready), Unique(new),
         \A x : InSeq(x, new) => ~InSeq(x, ready),
         RunHandle(h, new)
  PROVE  /\ ready' \in Seq(S)
         /\ todo' \in 0..Len(ready')
         /\ Unique(ready')
         /\ InSeq(h, ready)
         /\ \A x : InSeq(x, ready')
                     <=> (InSeq(x, ready) /\ x # h) \/ InSeq(x, new)
<1>1. /\ ready # <<>>
      /\ Head(ready) = h
      /\ ready' = Tail(ready) \o new
      /\ todo' = todo - 1
      /\ todo > 0
      /\ Len(ready) \in Nat
      /\ Len(new) \in Nat
  BY DEF RunHandle
<1> HIDE DEF Unique, InSeq
<1>2. /\ Tail(ready) \o new \in Seq(S)
      /\ Len(Tail(ready) \o new) = Len(ready) - 1 + Len(new)
      /\ Unique(Tail(ready) \o new)
      /\ \A x : InSeq(x, Tail(ready) \o new)
                  <=> (InSeq(x, ready) /\ x # Head(ready)) \/ InSeq(x, new)
  BY <1>1, QueueRun
<1>3. InSeq(Head(ready), ready)
  BY <1>1, QueueTail
<1> QED
  BY <1>1, <1>2, <1>3

(* The same for a handle that schedules nothing, or one new handle. *)
LEMMA RunNothing ==
  ASSUME NEW S, NEW h,
         ready \in Seq(S), todo \in 0..Len(ready), Unique(ready),
         RunHandle(h, <<>>)
  PROVE  /\ ready' \in Seq(S)
         /\ todo' \in 0..Len(ready')
         /\ Unique(ready')
         /\ InSeq(h, ready)
         /\ \A x : InSeq(x, ready') <=> InSeq(x, ready) /\ x # h
<1> DEFINE new == <<>>
<1>1. new \in Seq(S) /\ Unique(new) /\ \A x : ~InSeq(x, new)
  BY QueueShort
<1>2. RunHandle(h, new)
  OBVIOUS
<1> HIDE DEF new
<1> QED
  BY <1>1, <1>2, RunFacts

(* A handle that schedules one new handle. *)
LEMMA RunOne ==
  ASSUME NEW S, NEW h, NEW k \in S, ~InSeq(k, ready),
         ready \in Seq(S), todo \in 0..Len(ready), Unique(ready),
         RunHandle(h, <<k>>)
  PROVE  /\ ready' \in Seq(S)
         /\ todo' \in 0..Len(ready')
         /\ Unique(ready')
         /\ InSeq(h, ready)
         /\ \A x : InSeq(x, ready') <=> (InSeq(x, ready) /\ x # h) \/ x = k
<1> DEFINE new == <<k>>
<1>1. new \in Seq(S) /\ Unique(new) /\ \A x : InSeq(x, new) <=> x = k
  BY QueueShort
<1>2. RunHandle(h, new)
  OBVIOUS
<1> HIDE DEF new
<1> QED
  BY <1>1, <1>2, RunFacts

(* Whatever a handle schedules, the others stay where they are. *)
LEMMA RunKeeps ==
  ASSUME NEW S, NEW h, NEW new \in Seq(S), ready \in Seq(S), todo \in 0..Len(ready),
         RunHandle(h, new)
  PROVE  /\ ready[1] = h /\ 1 \in 1..Len(ready)
         /\ \A x : InSeq(x, ready) /\ x # h => InSeq(x, ready')
<1>1. /\ ready # <<>>
      /\ ready[1] = h
      /\ 1 \in 1..Len(ready)
      /\ ready' = Tail(ready) \o new
  BY DEF RunHandle
<1>2. /\ Len(ready') = Len(ready) - 1 + Len(new)
      /\ \A i \in 2..Len(ready) : i - 1 \in 1..Len(ready') /\ ready'[i - 1] = ready[i]
  BY <1>1
<1>3. ASSUME NEW x, InSeq(x, ready), x # h PROVE InSeq(x, ready')
  <2>1. PICK i \in 1..Len(ready) : ready[i] = x
    BY <1>3 DEF InSeq
  <2>2. i \in 2..Len(ready)
    BY <1>1, <1>3, <2>1
  <2> QED
    BY <1>2, <2>1, <2>2 DEF InSeq
<1> QED
  BY <1>1, <1>3

(* The positions of the queue after a handle has run. *)
LEMMA RunPositions ==
  ASSUME NEW S, NEW h, NEW new \in Seq(S),
         ready \in Seq(S), todo \in 0..Len(ready), RunHandle(h, new)
  PROVE  /\ Len(ready) \in Nat \ {0} /\ ready[1] = h
         /\ ready' \in Seq(S)
         /\ Len(ready') = Len(ready) - 1 + Len(new)
         /\ todo' \in 0..Len(ready')
         /\ \A i \in 1..Len(ready) - 1 : ready'[i] = ready[i + 1]
         /\ \A i \in 1..Len(new) : ready'[Len(ready) - 1 + i] = new[i]
<1> DEFINE rest == Tail(ready)
<1>1. /\ ready # <<>> /\ Len(ready) \in Nat \ {0} /\ ready[1] = h
      /\ ready' = rest \o new
      /\ todo' = todo - 1 /\ todo > 0
      /\ rest \in Seq(S) /\ Len(rest) = Len(ready) - 1
      /\ \A i \in 1..Len(rest) : rest[i] = ready[i + 1]
  BY DEF RunHandle
<1> HIDE DEF rest
<1>2. rest \in Seq(S)
  BY <1>1
<1>3. /\ rest \o new \in Seq(S)
      /\ Len(rest \o new) = Len(rest) + Len(new)
      /\ \A i \in 1..Len(rest) : (rest \o new)[i] = rest[i]
      /\ \A i \in 1..Len(new) : (rest \o new)[Len(rest) + i] = new[i]
  BY <1>2
<1>4. Len(new) \in Nat
  OBVIOUS
<1>5. todo' \in 0..Len(ready')
  BY <1>1, <1>3, <1>4
<1> QED
  BY <1>1, <1>3, <1>5

(* A poll that finds nothing due, and one that finds a single timer. *)
LEMMA PollNothing ==
  ASSUME NEW S, ready \in Seq(S), Due = {}, StartIteration
  PROVE  ready' = ready /\ timers' = timers /\ todo' = Len(ready)
<1>1. PICK q \in ByDeadline({}) : /\ ready' = ready \o [i \in DOMAIN q |-> q[i].handle]
                                  /\ todo' = Len(ready) + Len(q)
  BY DEF StartIteration
<1>2. q \in [1..0 -> {}]
  BY <1>1, FS_EmptySet DEF ByDeadline
<1>3. q = <<>> /\ [i \in DOMAIN q |-> q[i].handle] = <<>>
  BY <1>2
<1> QED
  BY <1>1, <1>3 DEF StartIteration

LEMMA PollOne ==
  ASSUME NEW S, ready \in Seq(S), NEW d, NEW h \in S,
         Due = {Timer(d, h)}, StartIteration
  PROVE  /\ ready' \in Seq(S) /\ Len(ready') = Len(ready) + 1
         /\ \A i \in 1..Len(ready) : ready'[i] = ready[i]
         /\ ready'[Len(ready')] = h
         /\ timers' = timers \ Due
         /\ todo' = Len(ready')
<1> DEFINE t == Timer(d, h)
<1>1. PICK q \in ByDeadline({t}) : /\ ready' = ready \o [i \in DOMAIN q |-> q[i].handle]
                                   /\ todo' = Len(ready) + Len(q)
  BY DEF StartIteration
<1>2. q \in [1..1 -> {t}] /\ t.handle = h
  BY <1>1, FS_Singleton DEF ByDeadline, Timer
<1> HIDE DEF t
<1>3. Len(q) = 1 /\ [i \in DOMAIN q |-> q[i].handle] = <<h>>
  BY <1>2
<1> QED
  BY <1>1, <1>3 DEF StartIteration
-----------------------------------------------------------------------------
(* Induction, for a set of numbers: it has a least element outside, if any. *)
LEMMA NatSetInduction ==
  ASSUME NEW T \in SUBSET Nat, 0 \in T, \A n \in T : n + 1 \in T
  PROVE  T = Nat
<1> DEFINE R == {s \in Nat \X Nat : s[1] < s[2]}
           U == Nat \ T
<1>1. IsWellFoundedOn(R, Nat)
  BY NatLessThanWellFounded DEF OpToRel
<1>2. SUFFICES ASSUME U # {} PROVE FALSE
  OBVIOUS
<1>3. U \subseteq Nat
  OBVIOUS
<1> HIDE DEF R, U
<1>4. PICK x \in U : \A y \in U : ~(<<y, x>> \in R)
  BY <1>1, <1>2, <1>3, WFMin
<1>5. \A y \in U : ~(y < x)
  BY <1>3, <1>4 DEF R
<1>6. x \in Nat /\ x # 0
  BY <1>3 DEF U
<1>7. x - 1 \in T
  BY <1>5, <1>6 DEF U
<1> QED
  BY <1>6, <1>7 DEF U

(* The recursive function of SelectIn, and its equation. *)
Selected(s, S) ==
  CHOOSE f : f = [n \in 0..Len(s) |->
    IF n = 0 THEN <<>>
    ELSE IF s[n] \in S THEN Append(f[n - 1], s[n]) ELSE f[n - 1]]

LEMMA SelectedDef ==
  ASSUME NEW s, NEW S, Len(s) \in Nat
  PROVE  /\ SelectIn(s, S) = Selected(s, S)[Len(s)]
         /\ Selected(s, S)[0] = <<>>
         /\ \A n \in 1..Len(s) :
              Selected(s, S)[n] = IF s[n] \in S THEN Append(Selected(s, S)[n - 1], s[n])
                                                ELSE Selected(s, S)[n - 1]
<1> DEFINE Body(f, n) == IF n = 0 THEN <<>>
                         ELSE IF s[n] \in S THEN Append(f[n - 1], s[n]) ELSE f[n - 1]
           Upto(f, m) == f = [n \in 0..m |-> Body(f, n)]
           T == {m \in Nat : \E f : Upto(f, m)}
<1>1. 0 \in T
  <2>1. Upto([n \in 0..0 |-> <<>>], 0)
    OBVIOUS
  <2> QED
    BY <2>1
<1>2. ASSUME NEW m \in T PROVE m + 1 \in T
  <2>1. PICK f : Upto(f, m)
    OBVIOUS
  <2> DEFINE g == [n \in 0..m + 1 |-> IF n = m + 1 THEN Body(f, m + 1) ELSE f[n]]
  <2> m \in Nat
    OBVIOUS
  <2>2. /\ Body(f, 0) = Body(g, 0)
        /\ \A n \in 1..m + 1 : f[n - 1] = g[n - 1] => Body(f, n) = Body(g, n)
    OBVIOUS
  <2>3. \A n \in 0..m + 1 : g[n] = IF n = m + 1 THEN Body(f, m + 1) ELSE f[n]
    OBVIOUS
  <2> HIDE DEF Body, g, T
  <2>4. \A n \in 0..m : f[n] = Body(f, n)
    BY <2>1
  <2>5. \A n \in 0..m + 1 : g[n] = Body(f, n)
    BY <2>3, <2>4
  <2>6. \A n \in 1..m + 1 : f[n - 1] = g[n - 1]
    BY <2>3
  <2>7. \A n \in 0..m + 1 : g[n] = Body(g, n)
    BY <2>2, <2>5, <2>6
  <2>8. g = [n \in 0..m + 1 |-> Body(g, n)]
    BY <2>7 DEF g
  <2> QED
    BY <2>8 DEF T
<1>3. \E f : Upto(f, Len(s))
  <2> HIDE DEF Upto
  <2>1. T \in SUBSET Nat
    OBVIOUS
  <2> HIDE DEF T
  <2>2. T = Nat
    BY <1>1, <1>2, <2>1, NatSetInduction
  <2> QED
    BY <2>2 DEF T
<1>4. Upto(Selected(s, S), Len(s))
  BY <1>3 DEF Selected
<1>5. SelectIn(s, S) = Selected(s, S)[Len(s)]
  BY DEF SelectIn, Selected
<1> DEFINE h == Selected(s, S)
<1>6. h = [n \in 0..Len(s) |-> Body(h, n)]
  BY <1>4
<1> HIDE DEF h
<1>7. h[0] = Body(h, 0) /\ \A n \in 1..Len(s) : n # 0 /\ h[n] = Body(h, n)
  <2> HIDE DEF Body
  <2> QED
    BY <1>6
<1>8. h[0] = <<>>
  BY <1>7
<1>9. \A n \in 1..Len(s) : h[n] = IF s[n] \in S THEN Append(h[n - 1], s[n]) ELSE h[n - 1]
  BY <1>7
<1> QED
  BY <1>5, <1>8, <1>9 DEF h

(* A selection from a sequence with one more member. *)
LEMMA SelectAppend ==
  ASSUME NEW S, NEW T, NEW s \in Seq(T), NEW x \in T
  PROVE  SelectIn(Append(s, x), S) =
           IF x \in S THEN Append(SelectIn(s, S), x) ELSE SelectIn(s, S)
<1> DEFINE t == Append(s, x)
           f == Selected(s, S)
           g == Selected(t, S)
<1>1. /\ Len(s) \in Nat /\ Len(t) = Len(s) + 1 /\ t[Len(s) + 1] = x
      /\ \A n \in 1..Len(s) : t[n] = s[n]
  OBVIOUS
<1> HIDE DEF t
<1>2. /\ SelectIn(s, S) = f[Len(s)]
      /\ f[0] = <<>>
      /\ \A n \in 1..Len(s) : f[n] = IF s[n] \in S THEN Append(f[n - 1], s[n]) ELSE f[n - 1]
  BY <1>1, SelectedDef
<1>3. /\ SelectIn(t, S) = g[Len(s) + 1]
      /\ g[0] = <<>>
      /\ \A n \in 1..Len(s) + 1 :
           g[n] = IF t[n] \in S THEN Append(g[n - 1], t[n]) ELSE g[n - 1]
  BY <1>1, SelectedDef
<1> HIDE DEF f, g
<1> DEFINE U == {n \in Nat : n <= Len(s) => f[n] = g[n]}
<1>4. U = Nat
  <2>1. 0 \in U
    BY <1>2, <1>3
  <2>2. ASSUME NEW n \in U PROVE n + 1 \in U
    <3>1. SUFFICES ASSUME n + 1 <= Len(s) PROVE f[n + 1] = g[n + 1]
      OBVIOUS
    <3>2. /\ n + 1 \in 1..Len(s) /\ n + 1 \in 1..Len(s) + 1 /\ n + 1 - 1 = n
          /\ f[n] = g[n]
      BY <1>1, <3>1
    <3> QED
      BY <1>1, <1>2, <1>3, <3>2
  <2>3. U \in SUBSET Nat
    OBVIOUS
  <2> HIDE DEF U
  <2> QED
    BY <2>1, <2>2, <2>3, NatSetInduction
<1>5. f[Len(s)] = g[Len(s)]
  BY <1>1, <1>4
<1>6. Len(s) + 1 \in 1..Len(s) + 1 /\ Len(s) + 1 - 1 = Len(s)
  BY <1>1
<1> QED
  BY <1>1, <1>2, <1>3, <1>5, <1>6 DEF t

(* A selection from nothing, and one that keeps every member. *)
LEMMA SelectEmpty ==
  ASSUME NEW S PROVE SelectIn(<<>>, S) = <<>>
<1>1. Len(<<>>) = 0
  OBVIOUS
<1> QED
  BY <1>1, SelectedDef

LEMMA SelectAll ==
  ASSUME NEW S, NEW s \in Seq(S)
  PROVE  SelectIn(s, S) = s
<1> DEFINE f == Selected(s, S)
           U == {n \in Nat : n <= Len(s) => f[n] = SubSeq(s, 1, n)}
<1>1. Len(s) \in Nat /\ SubSeq(s, 1, 0) = <<>> /\ SubSeq(s, 1, Len(s)) = s
  OBVIOUS
<1>2. \A n \in 1..Len(s) : /\ s[n] \in S
                           /\ SubSeq(s, 1, n) = Append(SubSeq(s, 1, n - 1), s[n])
  OBVIOUS
<1>3. /\ SelectIn(s, S) = f[Len(s)]
      /\ f[0] = <<>>
      /\ \A n \in 1..Len(s) : f[n] = IF s[n] \in S THEN Append(f[n - 1], s[n]) ELSE f[n - 1]
  BY <1>1, SelectedDef
<1> HIDE DEF f
<1>4. U = Nat
  <2>1. 0 \in U
    BY <1>1, <1>3
  <2>2. ASSUME NEW n \in U PROVE n + 1 \in U
    <3>1. SUFFICES ASSUME n + 1 <= Len(s) PROVE f[n + 1] = SubSeq(s, 1, n + 1)
      OBVIOUS
    <3>2. /\ n + 1 \in 1..Len(s) /\ n + 1 - 1 = n
          /\ f[n] = SubSeq(s, 1, n)
      BY <1>1, <3>1
    <3>3. s[n + 1] \in S /\ SubSeq(s, 1, n + 1) = Append(SubSeq(s, 1, n), s[n + 1])
      BY <1>2, <3>2
    <3>4. f[n + 1] = Append(f[n], s[n + 1])
      <4> DEFINE m == n + 1
      <4>1. m \in 1..Len(s) /\ m - 1 = n /\ s[m] \in S
        BY <3>2, <3>3
      <4> HIDE DEF m
      <4>2. f[m] = Append(f[m - 1], s[m])
        BY <1>3, <4>1
      <4> QED
        BY <4>1, <4>2 DEF m
    <3> QED
      BY <3>2, <3>3, <3>4
  <2>3. U \in SUBSET Nat
    OBVIOUS
  <2> HIDE DEF U
  <2> QED
    BY <2>1, <2>2, <2>3, NatSetInduction
<1> QED
  BY <1>1, <1>3, <1>4
=============================================================================
