------------------------- MODULE WorkedExample2Proofs -------------------------
(***************************************************************************)
(* Claim 2 of SNFClaim3.lean for Worked Example 2, for every set of        *)
(* schedules: the interpreter runs to the end exactly the schedules of the *)
(* encoding.  The Lean file proves it by evaluation for the pairs of       *)
(* permutations and leaves the other schedules as its one open lemma.      *)
(*                                                                         *)
(* And the same program on the event loop, with queues that make a getter  *)
(* wait, for every set of orders of creation: its ready sets are those of  *)
(* the Lean file, and what it does is what the interpreter does.           *)
(***************************************************************************)
EXTENDS WorkedExample2, WE2Loop, EventLoopProofs

Order == sched[round]

\* The order read so far: what it took out of the ready set, each once.
Prefix ==
  /\ pos <= Len(Order)
  /\ \A i \in 1..pos : Order[i] \in Q[round] \ rem
  /\ \A c \in Q[round] \ rem : \E i \in 1..pos : Order[i] = c
  /\ \A i, j \in 1..pos : Order[i] = Order[j] => i = j

\* In the first iteration the flags are those of the coroutines dispatched.
FirstRound ==
  /\ st["q1put"]   <=> "c0" \notin rem
  /\ st["c1AteQ1"] <=> "c1" \notin rem
  /\ st["c2Ran"]   <=> "c2" \notin rem
  /\ st["c3Slept"] <=> "c3" \notin rem
  /\ ~st["q2put"]
  /\ ~st["c3Done"]
  /\ "c1" \notin rem =>
       \E i, j \in 1..pos : i < j /\ Order[i] = "c0" /\ Order[j] = "c1"

SecondRound ==
  /\ InF1(sched[1])
  /\ st["q1put"] /\ st["c1AteQ1"] /\ st["c2Ran"] /\ st["c3Slept"]
  /\ st["q2put"]  <=> "c1" \notin rem
  /\ st["c3Done"] <=> "c3" \notin rem

IInv ==
  /\ TypeOK
  /\ Running => /\ Prefix
                /\ round = 1 => FirstRound
                /\ round = 2 => SecondRound
  /\ FeasibleIsEncoded
  /\ InfeasibleIsNotEncoded
  /\ Confluent

(* What the interpreter is given is a sequence of sequences. *)
LEMMA OrderType ==
  ASSUME TypeOK, Running
  PROVE  /\ Order \in Seq(Coros)
         /\ Len(Order) \in Nat
         /\ sched[1] \in Seq(Coros) /\ sched[2] \in Seq(Coros)
         /\ Q[1] = Q1 /\ Q[2] = Q2
<1>1. Q[1] = Q1 /\ Q[2] = Q2
  BY DEF Q
<1>2. sched \in Seq(Seq(Coros)) /\ Len(sched) = 2 /\ round \in {1, 2}
  BY DEF TypeOK
<1>3. sched[1] \in Seq(Coros) /\ sched[2] \in Seq(Coros)
  <2> DEFINE S == Seq(Coros)
  <2>1. sched \in Seq(S) /\ 1 \in 1..Len(sched) /\ 2 \in 1..Len(sched)
    BY <1>2
  <2> HIDE DEF S
  <2>2. sched[1] \in S /\ sched[2] \in S
    BY <2>1
  <2> QED
    BY <2>2 DEF S
<1> QED
  BY <1>1, <1>2, <1>3 DEF Order

(* A dispatched coroutine sets one flag. *)
LEMMA SetsFlag ==
  ASSUME TypeOK, NEW c \in rem, round = 1 \/ round = 2,
         round = 1 => FirstRound, round = 2 => SecondRound
  PROVE  /\ round = 1 /\ c = "c0" => Sets(st, c) = {"q1put"}
         /\ round = 1 /\ c = "c1" => Sets(st, c) = IF "c0" \in rem THEN {} ELSE {"c1AteQ1"}
         /\ round = 1 /\ c = "c2" => Sets(st, c) = {"c2Ran"}
         /\ round = 1 /\ c = "c3" => Sets(st, c) = {"c3Slept"}
         /\ round = 2 /\ c = "c1" => Sets(st, c) = {"q2put"}
         /\ round = 2 /\ c = "c3" => Sets(st, c) = {"c3Done"}
BY DEF Sets, Flags, FirstRound, SecondRound

(* The invariant holds initially. *)
LEMMA InitIInv == Init => IInv
<1> SUFFICES ASSUME Init PROVE IInv
  OBVIOUS
<1>1. /\ sched \in Seq(Seq(Coros)) /\ round = 1 /\ pos = 0 /\ rem = Q1
      /\ st = [f \in Flags |-> FALSE]
      /\ verdict = IF Len(sched) = 2 THEN "running" ELSE "infeasible"
      /\ Q[1] = Q1
  BY SchedulesAssumption DEF Init, Q
<1>2. Running => sched[1] \in Seq(Coros) /\ Len(sched[1]) \in Nat
  BY <1>1 DEF Running
<1>3. TypeOK
  BY <1>1, <1>2 DEF TypeOK, Running
<1>4. Running => Prefix /\ FirstRound
  BY <1>1, <1>2 DEF Prefix, FirstRound, Order, Q1, Coros, Flags
<1>5. InfeasibleIsNotEncoded
  BY <1>1 DEF InfeasibleIsNotEncoded, EncConsistent
<1> QED
  BY <1>1, <1>3, <1>4, <1>5 DEF IInv, FeasibleIsEncoded, Confluent

(* Dispatch keeps what is known of the order. *)
LEMMA DispatchPrefix ==
  ASSUME IInv, Dispatch
  PROVE  Prefix'
<1> USE DEF Dispatch
<1>1. /\ Order \in Seq(Coros) /\ Len(Order) \in Nat /\ pos \in Nat
      /\ rem \subseteq Q[round]
      /\ Prefix
  BY OrderType DEF IInv, TypeOK
<1>2. /\ Order' = Order /\ Q[round'] = Q[round]
      /\ pos' = pos + 1 /\ pos < Len(Order)
      /\ Order[pos + 1] = Entry /\ Entry \in rem
      /\ rem' = rem \ {Entry}
  BY DEF Order, Entry, Accepts
<1>3. \A i \in 1..pos' : i \in 1..pos \/ i = pos + 1
  BY <1>1, <1>2
<1>4. pos' <= Len(Order')
  BY <1>1, <1>2
<1>5. \A i \in 1..pos' : Order'[i] \in Q[round'] \ rem'
  BY <1>1, <1>2, <1>3 DEF Prefix
<1>6. \A c \in Q[round'] \ rem' : \E i \in 1..pos' : Order'[i] = c
  <2>1. SUFFICES ASSUME NEW c \in Q[round] \ rem' PROVE \E i \in 1..pos' : Order[i] = c
    BY <1>2
  <2>2. CASE c = Entry
    BY <1>1, <1>2, <2>2
  <2>3. CASE c # Entry
    <3>1. PICK i \in 1..pos : Order[i] = c
      BY <1>1, <1>2, <2>1, <2>3 DEF Prefix
    <3> QED
      BY <1>1, <1>2, <3>1
  <2> QED
    BY <2>2, <2>3
<1>7. \A i, j \in 1..pos' : Order'[i] = Order'[j] => i = j
  <2>1. \A i \in 1..pos : Order[i] # Entry
    BY <1>1, <1>2 DEF Prefix
  <2> QED
    BY <2>1, <1>1, <1>2, <1>3 DEF Prefix
<1> QED
  BY <1>4, <1>5, <1>6, <1>7 DEF Prefix

(* A dispatch sets the flag of its coroutine and consumes its handle. *)
LEMMA DispatchIInv ==
  ASSUME IInv, Dispatch
  PROVE  IInv'
<1>1. /\ Running /\ Entry \in rem /\ Sets(st, Entry) # {}
      /\ pos < Len(Order) /\ pos' = pos + 1 /\ Order' = Order
      /\ rem' = rem \ {Entry}
      /\ st' = [f \in Flags |-> st[f] \/ f \in Sets(st, Entry)]
      /\ UNCHANGED <<sched, round, verdict>>
      /\ Order[pos + 1] = Entry
  BY DEF Dispatch, Accepts, Order, Entry
<1>2. /\ TypeOK /\ Prefix
      /\ round = 1 \/ round = 2
      /\ round = 1 => FirstRound
      /\ round = 2 => SecondRound
      /\ pos \in Nat /\ Len(Order) \in Nat
  BY <1>1, OrderType DEF IInv, TypeOK
<1>3. Prefix'
  BY DispatchPrefix DEF Dispatch
<1>4. TypeOK'
  <2>1. st' \in [Flags -> BOOLEAN]
    BY <1>1
  <2>2. pos' \in Nat /\ pos' <= Len(Order)
    BY <1>1, <1>2
  <2> QED
    BY <1>1, <1>2, <2>1, <2>2 DEF TypeOK, Running, Order
<1>5. /\ round = 1 /\ Entry = "c0" => Sets(st, Entry) = {"q1put"}
      /\ round = 1 /\ Entry = "c1" =>
           Sets(st, Entry) = IF "c0" \in rem THEN {} ELSE {"c1AteQ1"}
      /\ round = 1 /\ Entry = "c2" => Sets(st, Entry) = {"c2Ran"}
      /\ round = 1 /\ Entry = "c3" => Sets(st, Entry) = {"c3Slept"}
      /\ round = 2 /\ Entry = "c1" => Sets(st, Entry) = {"q2put"}
      /\ round = 2 /\ Entry = "c3" => Sets(st, Entry) = {"c3Done"}
  BY <1>1, <1>2, SetsFlag
<1>6. \A f \in Flags : st'[f] <=> st[f] \/ f \in Sets(st, Entry)
  BY <1>1
<1>7. /\ round = 1 => rem \subseteq {"c0", "c1", "c2", "c3"}
      /\ round = 2 => rem \subseteq {"c1", "c3"}
  <2>1. rem \subseteq Q[round] /\ Q[1] = Q1 /\ Q[2] = Q2
    BY <1>1, <1>2, OrderType DEF TypeOK
  <2> QED
    BY <2>1 DEF Q1, Q2, Coros
<1>8. round = 1 => FirstRound'
  <2> SUFFICES ASSUME round = 1 PROVE FirstRound'
    OBVIOUS
  <2>1. /\ st'["q1put"]   <=> "c0" \notin rem'
        /\ st'["c1AteQ1"] <=> "c1" \notin rem'
        /\ st'["c2Ran"]   <=> "c2" \notin rem'
        /\ st'["c3Slept"] <=> "c3" \notin rem'
        /\ ~st'["q2put"]
        /\ ~st'["c3Done"]
    BY <1>1, <1>2, <1>5, <1>6, <1>7 DEF FirstRound, Flags
  <2>2. ASSUME "c1" \notin rem'
        PROVE  \E i, j \in 1..pos' : i < j /\ Order'[i] = "c0" /\ Order'[j] = "c1"
    <3>1. CASE Entry = "c1"
      <4>1. "c0" \notin rem
        BY <1>1, <1>5, <3>1
      <4>2. PICK i \in 1..pos : Order[i] = "c0"
        BY <1>2, <4>1 DEF Prefix, Q, Q1, Coros
      <4>3. i \in 1..pos' /\ pos + 1 \in 1..pos' /\ i < pos + 1
        BY <1>1, <1>2
      <4> QED
        BY <1>1, <3>1, <4>2, <4>3
    <3>2. CASE Entry # "c1"
      <4>1. PICK i, j \in 1..pos : i < j /\ Order[i] = "c0" /\ Order[j] = "c1"
        BY <1>1, <1>2, <2>2, <3>2 DEF FirstRound
      <4>2. i \in 1..pos' /\ j \in 1..pos'
        BY <1>1, <1>2
      <4> QED
        BY <1>1, <4>1, <4>2
    <3> QED
      BY <3>1, <3>2
  <2> QED
    BY <2>1, <2>2 DEF FirstRound
<1>9. round = 2 => SecondRound'
  BY <1>1, <1>2, <1>5, <1>6, <1>7 DEF SecondRound, Flags
<1> QED
  BY <1>1, <1>3, <1>4, <1>8, <1>9
     DEF IInv, Running, FeasibleIsEncoded, InfeasibleIsNotEncoded, Confluent

(* An order that was read to its end and drained the ready set is one.     *)
LEMMA DrainedIsOrder ==
  ASSUME TypeOK, Running, Prefix, pos = Len(Order), rem = {}
  PROVE  IsOrderOf(Order, Q[round])
<1>1. Order \in Seq(Coros) /\ Len(Order) \in Nat
  BY OrderType
<1>2. \A i \in 1..Len(Order) : Order[i] \in Q[round]
  BY DEF Prefix
<1>3. Order \in Seq(Q[round])
  BY <1>1, <1>2
<1> QED
  BY <1>3 DEF Prefix, IsOrderOf

(* The first order was drained: it is an order of Q1 with c0 before c1. *)
LEMMA NextRoundIInv ==
  ASSUME IInv, NextRound
  PROVE  IInv'
<1> USE DEF NextRound
<1>1. /\ TypeOK /\ Running /\ Prefix /\ FirstRound
      /\ pos = Len(Order) /\ rem = {} /\ round = 1
      /\ Q[1] = Q1 /\ Q[2] = Q2
      /\ sched[2] \in Seq(Coros) /\ Len(sched[2]) \in Nat
  BY OrderType DEF IInv, Order
<1>2. InF1(sched[1])
  <2>1. IsOrderOf(sched[1], Q1)
    BY <1>1, DrainedIsOrder DEF Order
  <2>2. C0BeforeC1(sched[1])
    BY <1>1 DEF FirstRound, Order, C0BeforeC1
  <2> QED
    BY <2>1, <2>2 DEF InF1
<1>3. TypeOK'
  BY <1>1 DEF TypeOK, Running
<1>4. Prefix' /\ SecondRound'
  BY <1>1, <1>2 DEF Prefix, SecondRound, FirstRound, Order, Q2
<1> QED
  BY <1>1, <1>3, <1>4
     DEF IInv, Running, FeasibleIsEncoded, InfeasibleIsNotEncoded, Confluent

(* Both orders were drained: the schedule is one of the encoding. *)
LEMMA AcceptIInv ==
  ASSUME IInv, Accept
  PROVE  IInv'
<1> USE DEF Accept
<1>1. /\ TypeOK /\ Running /\ Prefix /\ SecondRound
      /\ pos = Len(Order) /\ rem = {} /\ round = 2
      /\ Q[2] = Q2 /\ Len(sched) = 2
  BY OrderType DEF IInv, Order, TypeOK
<1>2. InF2(sched[2])
  BY <1>1, DrainedIsOrder DEF Order, InF2
<1>3. EncConsistent(sched)
  BY <1>1, <1>2 DEF SecondRound, EncConsistent
<1>4. \A f \in Flags : st[f]
  BY <1>1 DEF SecondRound, Flags
<1> QED
  BY <1>1, <1>3, <1>4
     DEF IInv, TypeOK, Running, FeasibleIsEncoded, InfeasibleIsNotEncoded, Confluent

(* What the interpreter rejects does not extend to an order of the         *)
(* encoding.                                                               *)
LEMMA RejectIInv ==
  ASSUME IInv, Reject
  PROVE  IInv'
<1> USE DEF Reject
<1>1. /\ TypeOK /\ Running /\ Prefix
      /\ round = 1 \/ round = 2
      /\ round = 1 => FirstRound
      /\ round = 2 => SecondRound
      /\ pos \in Nat /\ pos < Len(Order) /\ Len(Order) \in Nat
      /\ Order[pos + 1] = Entry
      /\ Q[1] = Q1 /\ Q[2] = Q2
  BY OrderType DEF IInv, TypeOK, Order, Entry
<1>2. pos + 1 \in 1..Len(Order) /\ \A i \in 1..pos : i \in 1..Len(Order) /\ i # pos + 1
  BY <1>1
<1>3. ASSUME EncConsistent(sched) PROVE FALSE
  <2>1. /\ IsOrderOf(Order, Q[round])
        /\ round = 1 => C0BeforeC1(Order)
    BY <1>1, <1>3 DEF EncConsistent, InF1, InF2, Order
  <2>2. Entry \in Q[round]
    BY <1>1, <1>2, <2>1 DEF IsOrderOf
  <2>3. \A i \in 1..pos : Order[i] # Entry
    BY <1>1, <1>2, <2>1 DEF IsOrderOf
  <2>4. Entry \in rem
    BY <2>2, <2>3, <1>1 DEF Prefix
  <2>5. Sets(st, Entry) = {}
    BY <2>4 DEF Accepts
  <2>6. /\ round = 1 => Entry \in {"c0", "c1", "c2", "c3"}
        /\ round = 2 => Entry \in {"c1", "c3"}
    BY <1>1, <2>2 DEF Q1, Q2, Coros
  <2>7. round = 1 /\ Entry = "c1" /\ "c0" \in rem
    BY <1>1, <2>4, <2>5, <2>6, SetsFlag
  <2>8. PICK i, j \in 1..Len(Order) : i < j /\ Order[i] = "c0" /\ Order[j] = "c1"
    BY <2>1, <2>7 DEF C0BeforeC1
  <2>9. j = pos + 1
    BY <1>1, <1>2, <2>1, <2>7, <2>8, SMTT(40) DEF IsOrderOf
  <2>10. i \in 1..pos
    BY <1>1, <2>8, <2>9
  <2> QED
    BY <1>1, <2>7, <2>8, <2>10 DEF Prefix
<1> QED
  BY <1>1, <1>3
     DEF IInv, TypeOK, Running, FeasibleIsEncoded, InfeasibleIsNotEncoded, Confluent

(* An order that leaves a handle behind is no order of the ready set. *)
LEMMA NotDrainedIInv ==
  ASSUME IInv, NotDrained
  PROVE  IInv'
<1> USE DEF NotDrained
<1>1. /\ TypeOK /\ Running /\ Prefix
      /\ round = 1 \/ round = 2
      /\ pos = Len(Order) /\ rem # {} /\ rem \subseteq Q[round]
      /\ Q[1] = Q1 /\ Q[2] = Q2
  BY OrderType DEF IInv, TypeOK, Order
<1>2. ASSUME EncConsistent(sched) PROVE FALSE
  <2>1. IsOrderOf(Order, Q[round])
    BY <1>1, <1>2 DEF EncConsistent, InF1, InF2, Order
  <2>2. PICK c \in rem : TRUE
    BY <1>1
  <2>3. PICK i \in 1..Len(Order) : Order[i] = c
    BY <1>1, <2>1, <2>2 DEF IsOrderOf
  <2> QED
    BY <1>1, <2>2, <2>3 DEF Prefix
<1> QED
  BY <1>1, <1>2
     DEF IInv, TypeOK, Running, FeasibleIsEncoded, InfeasibleIsNotEncoded, Confluent

(* The invariant is inductive. *)
LEMMA NextIInv == IInv /\ [Next]_vars => IInv'
<1> SUFFICES ASSUME IInv, [Next]_vars PROVE IInv'
  OBVIOUS
<1>1. CASE UNCHANGED vars
  BY <1>1 DEF vars, IInv, TypeOK, Running, Prefix, Order, FirstRound, SecondRound,
       FeasibleIsEncoded, InfeasibleIsNotEncoded, Confluent
<1> QED
  BY <1>1, DispatchIInv, RejectIInv, NextRoundIInv, AcceptIInv, NotDrainedIInv
     DEF Next, Finished

(***************************************************************************)
(* The interpreter's variables have their types.                           *)
(***************************************************************************)
THEOREM TypeCorrect == Spec => []TypeOK
<1>1. IInv => TypeOK
  BY DEF IInv
<1> QED
  BY <1>1, InitIInv, NextIInv, PTL DEF Spec

(***************************************************************************)
(* Claim 2, for schedules of any shape: what the interpreter accepts       *)
(* satisfies the encoding ...                                              *)
(***************************************************************************)
THEOREM Claim2Forward == Spec => []FeasibleIsEncoded
<1>1. IInv => FeasibleIsEncoded
  BY DEF IInv
<1> QED
  BY <1>1, InitIInv, NextIInv, PTL DEF Spec

(***************************************************************************)
(* ... and what it rejects does not.                                       *)
(***************************************************************************)
THEOREM Claim2Backward == Spec => []InfeasibleIsNotEncoded
<1>1. IInv => InfeasibleIsNotEncoded
  BY DEF IInv
<1> QED
  BY <1>1, InitIInv, NextIInv, PTL DEF Spec

(***************************************************************************)
(* Every feasible schedule ends in the same state.                         *)
(***************************************************************************)
THEOREM Claim3 == Spec => []Confluent
<1>1. IInv => Confluent
  BY DEF IInv
<1> QED
  BY <1>1, InitIInv, NextIInv, PTL DEF Spec
-----------------------------------------------------------------------------
(***************************************************************************)
(* The program on the event loop.                                          *)
(***************************************************************************)
Handles == {Step(c) : c \in Tasks}

\* The coroutines with a handle behind the snapshot.
Later == {c \in Tasks : \E i \in todo + 1..Len(ready) : ready[i] = Step(c)}

QueueOK == ready \in Seq(Handles) /\ todo \in 0..Len(ready) /\ Unique(ready)

Ran(i) == {c \in Tasks : DispatchedIn(c, i)}

\* c1 was created before c0, so it has to wait for q1.
Late == Before(created, "c1", "c0")

(* Whatever a coroutine schedules when it runs, the rest of the snapshot   *)
(* moves on.                                                               *)
LEMMA SnapshotMoves ==
  ASSUME QueueOK, NEW c \in Tasks, NEW new \in Seq(Handles), RunHandle(Step(c), new)
  PROVE  /\ todo' = todo - 1 /\ todo > 0 /\ ready[1] = Step(c)
         /\ \A i \in 1..Len(ready) - 1 : ready'[i] = ready[i + 1]
         /\ \A i \in 1..todo' : ready'[i] = ready[i + 1]
         /\ c \in Snapshot /\ c \notin Later
         /\ Snapshot' = Snapshot \ {c}
<1>1. /\ todo' = todo - 1 /\ todo > 0 /\ todo \in Nat
      /\ todo \in 1..Len(ready)
  BY DEF RunHandle, QueueOK
<1>2. /\ Len(ready) \in Nat \ {0} /\ ready[1] = Step(c)
      /\ Len(ready') = Len(ready) - 1 + Len(new)
      /\ \A i \in 1..Len(ready) - 1 : ready'[i] = ready[i + 1]
  BY RunPositions DEF QueueOK
<1>3. \A i \in 1..Len(ready) : ready[i] = Step(c) => i = 1
  BY <1>2 DEF QueueOK, Unique
<1>4. \A i \in 1..todo' : /\ i + 1 \in 1..todo /\ i + 1 \in 1..Len(ready) /\ i + 1 # 1
                          /\ ready'[i] = ready[i + 1]
  BY <1>1, <1>2
<1>5. c \in Snapshot
  BY <1>1, <1>2 DEF Snapshot
<1>6. c \notin Later
  BY <1>1, <1>2, <1>3 DEF Later
<1>7. Snapshot' = Snapshot \ {c}
  <2>0. \A d, e \in Tasks : Step(d) = Step(e) => d = e
    BY HandlesDiffer
  <2>1. ASSUME NEW d \in Tasks, d # c, NEW i \in 1..todo, ready[i] = Step(d)
        PROVE  \E j \in 1..todo' : ready'[j] = Step(d)
    <3>1. i # 1
      BY <1>2, <2>0, <2>1
    <3>2. i - 1 \in 1..todo' /\ (i - 1) + 1 = i
      BY <1>1, <3>1
    <3>3. ready'[i - 1] = ready[i]
      BY <1>4, <3>2
    <3> QED
      BY <2>1, <3>2, <3>3
  <2>2. ASSUME NEW d \in Tasks, NEW i \in 1..todo', ready'[i] = Step(d)
        PROVE  d # c /\ \E j \in 1..todo : ready[j] = Step(d)
    BY <1>3, <1>4, <2>2
  <2> QED
    BY <2>1, <2>2 DEF Snapshot
<1> QED
  BY <1>1, <1>2, <1>4, <1>5, <1>6, <1>7

(* What the snapshot and the rest of the queue are when a coroutine ran    *)
(* that schedules nothing ...                                              *)
LEMMA ResumeNothing ==
  ASSUME QueueOK, NEW c \in Tasks, RunHandle(Step(c), <<>>)
  PROVE  /\ QueueOK' /\ todo' = todo - 1 /\ todo > 0 /\ ready[1] = Step(c)
         /\ Len(ready') = Len(ready) - 1
         /\ \A i \in 1..Len(ready) - 1 : ready'[i] = ready[i + 1]
         /\ \A i \in 1..todo' : ready'[i] = ready[i + 1]
         /\ c \in Snapshot /\ c \notin Later
         /\ Snapshot' = Snapshot \ {c}
         /\ Later' = Later
<1>0. /\ Step(c) \in Handles
      /\ <<>> \in Seq(Handles) /\ Len(<<>>) = 0
      /\ todo' = todo - 1 /\ todo > 0 /\ todo \in Nat
      /\ \A d, e \in Tasks : Step(d) = Step(e) => d = e
  BY HandlesDiffer DEF Handles, RunHandle, QueueOK
<1>1. /\ Len(ready) \in Nat \ {0} /\ ready[1] = Step(c)
      /\ ready' \in Seq(Handles)
      /\ Len(ready') = Len(ready) - 1
      /\ todo' \in 0..Len(ready')
      /\ \A i \in 1..Len(ready) - 1 : ready'[i] = ready[i + 1]
  <2>1. /\ Len(ready) \in Nat \ {0} /\ ready[1] = Step(c)
        /\ ready' \in Seq(Handles)
        /\ Len(ready') = Len(ready) - 1 + Len(<<>>)
        /\ todo' \in 0..Len(ready')
        /\ \A i \in 1..Len(ready) - 1 : ready'[i] = ready[i + 1]
    BY <1>0, RunPositions DEF QueueOK
  <2>2. Len(ready') = Len(ready) - 1
    BY <1>0, <2>1
  <2> QED
    BY <2>1, <2>2
<1>2. /\ todo \in 1..Len(ready) /\ \A i \in 1..Len(ready) : ready[i] = Step(c) => i = 1
      /\ \A i \in 1..Len(ready') : i + 1 \in 2..Len(ready)
      /\ \A i \in 2..Len(ready) : i - 1 \in 1..Len(ready') /\ ready'[i - 1] = ready[i]
  BY <1>0, <1>1 DEF QueueOK, Unique
<1>3. Unique(ready')
  BY <1>1, <1>2 DEF QueueOK, Unique
<1>4. c \in Snapshot /\ c \notin Later /\ Snapshot' = Snapshot \ {c}
  BY <1>0, SnapshotMoves
<1>5. Later' = Later
  <2>1. ASSUME NEW d \in Tasks, NEW i \in todo + 1..Len(ready), ready[i] = Step(d)
        PROVE  \E j \in todo' + 1..Len(ready') : ready'[j] = Step(d)
    <3>1. i - 1 \in todo' + 1..Len(ready') /\ i \in 2..Len(ready)
      BY <1>0, <1>1, <1>2
    <3> QED
      BY <1>2, <2>1, <3>1
  <2>2. ASSUME NEW d \in Tasks, NEW i \in todo' + 1..Len(ready'), ready'[i] = Step(d)
        PROVE  \E j \in todo + 1..Len(ready) : ready[j] = Step(d)
    <3>1. i + 1 \in todo + 1..Len(ready) /\ i \in 1..Len(ready) - 1
      BY <1>0, <1>1, <1>2
    <3> QED
      BY <1>1, <2>2, <3>1
  <2> QED
    BY <2>1, <2>2 DEF Later
<1> QED
  BY <1>0, <1>1, <1>2, <1>3, <1>4, <1>5 DEF QueueOK

(* ... and when it schedules one that was not scheduled.                   *)
LEMMA ResumeOne ==
  ASSUME QueueOK, NEW c \in Tasks, NEW d \in Tasks, RunHandle(Step(c), <<Step(d)>>),
         d = c \/ d \notin Snapshot \union Later
  PROVE  /\ QueueOK' /\ todo' = todo - 1 /\ todo > 0 /\ ready[1] = Step(c)
         /\ Len(ready') = Len(ready) /\ ready'[Len(ready)] = Step(d)
         /\ \A i \in 1..Len(ready) - 1 : ready'[i] = ready[i + 1]
         /\ \A i \in 1..todo' : ready'[i] = ready[i + 1]
         /\ c \in Snapshot /\ c \notin Later
         /\ Snapshot' = Snapshot \ {c}
         /\ Later' = Later \union {d}
<1> DEFINE new == <<Step(d)>>
<1>a. Step(c) \in Handles /\ Step(d) \in Handles
  BY DEF Handles
<1>b. new \in Seq(Handles) /\ Len(new) = 1 /\ new[1] = Step(d)
  BY <1>a
<1>c. todo' = todo - 1 /\ todo > 0 /\ todo \in Nat
  BY DEF RunHandle, QueueOK
<1>d. \A e, f \in Tasks : Step(e) = Step(f) => e = f
  BY HandlesDiffer
<1>0. /\ Step(c) \in Handles /\ Step(d) \in Handles
      /\ new \in Seq(Handles) /\ Len(new) = 1 /\ new[1] = Step(d)
      /\ todo' = todo - 1 /\ todo > 0 /\ todo \in Nat
      /\ \A e, f \in Tasks : Step(e) = Step(f) => e = f
  BY <1>a, <1>b, <1>c, <1>d
<1> HIDE DEF new
<1>1. /\ Len(ready) \in Nat \ {0} /\ ready[1] = Step(c)
      /\ ready' \in Seq(Handles)
      /\ Len(ready') = Len(ready)
      /\ todo' \in 0..Len(ready')
      /\ \A i \in 1..Len(ready) - 1 : ready'[i] = ready[i + 1]
      /\ ready'[Len(ready)] = Step(d)
  <2>1. /\ Len(ready) \in Nat \ {0} /\ ready[1] = Step(c)
        /\ ready' \in Seq(Handles)
        /\ Len(ready') = Len(ready) - 1 + Len(new)
        /\ todo' \in 0..Len(ready')
        /\ \A i \in 1..Len(ready) - 1 : ready'[i] = ready[i + 1]
        /\ \A i \in 1..Len(new) : ready'[Len(ready) - 1 + i] = new[i]
    <3>1. RunHandle(Step(c), new)
      BY DEF new
    <3> QED
      BY <1>0, <3>1, RunPositions DEF QueueOK
  <2>2. ready'[Len(ready) - 1 + 1] = Step(d)
    BY <1>0, <2>1
  <2>3. Len(ready) - 1 + 1 = Len(ready) /\ Len(ready') = Len(ready)
    BY <1>0, <2>1
  <2> QED
    BY <1>0, <2>1, <2>2, <2>3
<1>2. /\ todo \in 1..Len(ready) /\ \A i \in 1..Len(ready) : ready[i] = Step(c) => i = 1
      /\ \A i \in 1..Len(ready') : i = Len(ready) \/ i + 1 \in 2..Len(ready)
      /\ \A i \in 2..Len(ready) : i - 1 \in 1..Len(ready') /\ ready'[i - 1] = ready[i]
  BY <1>0, <1>1 DEF QueueOK, Unique
<1>3. \A i \in 2..Len(ready) : ready[i] # Step(d)
  <2>1. CASE d = c
    BY <1>2, <2>1
  <2>2. CASE d \notin Snapshot \union Later
    <3>1. \A i \in 1..Len(ready) : i \in 1..todo \/ i \in todo + 1..Len(ready)
      BY <1>0, <1>1
    <3> QED
      BY <1>1, <2>2, <3>1 DEF Snapshot, Later
  <2> QED
    BY <2>1, <2>2
<1>4. Unique(ready')
  <2>1. SUFFICES ASSUME NEW i \in 1..Len(ready'), NEW j \in 1..Len(ready'),
                        ready'[i] = ready'[j]
                 PROVE  i = j
    BY DEF Unique
  <2>2. CASE i + 1 \in 2..Len(ready) /\ j + 1 \in 2..Len(ready)
    <3>1. ready[i + 1] = ready[j + 1] /\ i + 1 \in 1..Len(ready) /\ j + 1 \in 1..Len(ready)
      BY <1>1, <2>1, <2>2
    <3>2. i + 1 = j + 1
      BY <3>1 DEF QueueOK, Unique
    <3> QED
      BY <3>2
  <2>3. ASSUME NEW m \in 1..Len(ready'), m + 1 \in 2..Len(ready)
        PROVE  ready'[m] # Step(d)
    <3>1. m \in 1..Len(ready) - 1
      BY <1>1, <2>3
    <3>2. ready'[m] = ready[m + 1]
      BY <1>1, <3>1
    <3> QED
      BY <1>3, <2>3, <3>2
  <2>4. CASE i = Len(ready) /\ j + 1 \in 2..Len(ready)
    BY <1>1, <2>1, <2>3, <2>4
  <2>5. CASE j = Len(ready) /\ i + 1 \in 2..Len(ready)
    BY <1>1, <2>1, <2>3, <2>5
  <2> QED
    BY <1>2, <2>2, <2>4, <2>5
<1>5. c \in Snapshot /\ c \notin Later /\ Snapshot' = Snapshot \ {c}
  <2>1. RunHandle(Step(c), new)
    BY DEF new
  <2> QED
    BY <1>0, <2>1, SnapshotMoves
<1>6. Later' = Later \union {d}
  <2>1. ASSUME NEW e \in Tasks, NEW i \in todo + 1..Len(ready), ready[i] = Step(e)
        PROVE  \E j \in todo' + 1..Len(ready') : ready'[j] = Step(e)
    <3>1. i - 1 \in todo' + 1..Len(ready') /\ i \in 2..Len(ready)
      BY <1>0, <1>1, <1>2
    <3> QED
      BY <1>2, <2>1, <3>1
  <2>2. ASSUME NEW e \in Tasks, e # d, NEW i \in todo' + 1..Len(ready'), ready'[i] = Step(e)
        PROVE  \E j \in todo + 1..Len(ready) : ready[j] = Step(e)
    <3>1. i # Len(ready)
      BY <1>0, <1>1, <2>2
    <3>2. i + 1 \in todo + 1..Len(ready) /\ i \in 1..Len(ready) - 1
      BY <1>0, <1>1, <1>2, <3>1
    <3> QED
      BY <1>1, <2>2, <3>2
  <2>3. Len(ready) \in todo' + 1..Len(ready')
    BY <1>0, <1>1, <1>2
  <2> QED
    BY <1>1, <2>1, <2>2, <2>3 DEF Later
<1> QED
  BY <1>0, <1>1, <1>2, <1>4, <1>5, <1>6 DEF QueueOK

(* A new iteration takes all there is. *)
LEMMA IterationTakesAll ==
  ASSUME QueueOK, timers = {}, StartIteration
  PROVE  /\ QueueOK' /\ ready' = ready /\ timers' = {} /\ todo' = Len(ready) /\ todo = 0
         /\ ready # <<>>
         /\ Snapshot = {} /\ Snapshot' = Later /\ Later' = {}
<1>1. Due = {}
  BY DEF Due
<1>2. /\ ready' = ready /\ timers' = {} /\ todo' = Len(ready) /\ todo = 0
      /\ ready # <<>>
  <2>1. todo = 0 /\ ready # <<>>
    BY <1>1 DEF StartIteration, Idle
  <2> QED
    BY <1>1, <2>1, PollNothing DEF QueueOK
<1>3. QueueOK'
  BY <1>2 DEF QueueOK, Unique
<1>4. Len(ready) \in Nat
  BY DEF QueueOK
<1> QED
  BY <1>2, <1>3, <1>4 DEF Snapshot, Later

(* An empty queue has neither. *)
LEMMA NothingQueued ==
  ASSUME ready = <<>>, todo = 0
  PROVE  Snapshot = {} /\ Later = {}
BY DEF Snapshot, Later

LEMMA SomethingQueued ==
  ASSUME QueueOK, ready # <<>>, todo = 0
  PROVE  Later # {}
<1>1. Len(ready) \in Nat /\ Len(ready) # 0 /\ ready[1] \in Handles
  BY DEF QueueOK
<1>2. PICK c \in Tasks : ready[1] = Step(c)
  BY <1>1 DEF Handles
<1>3. 1 \in todo + 1..Len(ready)
  BY <1>1
<1> QED
  BY <1>2, <1>3 DEF Later

(* What a dispatch records. *)
LEMMA Recorded ==
  ASSUME trace \in Seq(Seq(Tasks)), NEW n \in Nat \ {0}, Len(trace) = n, NEW c \in Tasks,
         trace' = [trace EXCEPT ![Len(trace)] = Append(@, c)]
  PROVE  /\ trace' \in Seq(Seq(Tasks)) /\ Len(trace') = n
         /\ trace'[n] = Append(trace[n], c) /\ Len(trace'[n]) = Len(trace[n]) + 1
         /\ \A i \in 1..n - 1 : trace'[i] = trace[i]
         /\ \A i \in 1..n - 1 : Ran(i)' = Ran(i)
         /\ Ran(n)' = Ran(n) \union {c}
<1> DEFINE S == Seq(Tasks)
<1>1. trace[n] \in S /\ Append(trace[n], c) \in S
  <2>1. trace \in Seq(S) /\ n \in 1..Len(trace)
    OBVIOUS
  <2> HIDE DEF S
  <2>2. trace[n] \in S
    BY <2>1
  <2> QED
    BY <2>2 DEF S
<1>2. trace \in Seq(S)
  OBVIOUS
<1> HIDE DEF S
<1>3. trace' \in Seq(S) /\ Len(trace') = n /\ trace'[n] = Append(trace[n], c)
      /\ \A i \in 1..n - 1 : trace'[i] = trace[i]
  BY <1>1, <1>2
<1>4. /\ Len(trace'[n]) = Len(trace[n]) + 1
      /\ DOMAIN trace'[n] = 1..Len(trace[n]) + 1 /\ DOMAIN trace[n] = 1..Len(trace[n])
      /\ \A k \in 1..Len(trace[n]) : trace'[n][k] = trace[n][k]
      /\ trace'[n][Len(trace[n]) + 1] = c
      /\ Len(trace[n]) \in Nat
  BY <1>1, <1>3 DEF S
<1>5. \A i \in 1..n - 1 : Ran(i)' = Ran(i)
  BY <1>3 DEF Ran, DispatchedIn
<1>6. Ran(n)' = Ran(n) \union {c}
  <2>1. ASSUME NEW d \in Tasks
        PROVE  DispatchedIn(d, n)' <=> DispatchedIn(d, n) \/ d = c
    <3>1. DispatchedIn(d, n)' <=> \E k \in DOMAIN trace'[n] : trace'[n][k] = d
      BY DEF DispatchedIn
    <3>2. DispatchedIn(d, n) => DispatchedIn(d, n)'
      BY <1>4, <3>1 DEF DispatchedIn
    <3>3. d = c => DispatchedIn(d, n)'
      BY <1>4, <3>1
    <3>4. ASSUME DispatchedIn(d, n)', d # c PROVE DispatchedIn(d, n)
      <4>1. PICK k \in DOMAIN trace'[n] : trace'[n][k] = d
        BY <3>1, <3>4
      <4>2. k \in 1..Len(trace[n])
        BY <1>4, <3>4, <4>1
      <4> QED
        BY <1>4, <4>1, <4>2 DEF DispatchedIn
    <3> QED
      BY <3>2, <3>3, <3>4
  <2> QED
    BY <2>1 DEF Ran
<1> QED
  BY <1>3, <1>4, <1>5, <1>6 DEF S

(* A new iteration has no entries. *)
LEMMA NewRecord ==
  ASSUME trace \in Seq(Seq(Tasks)), NEW n \in Nat, Len(trace) = n, trace' = Append(trace, <<>>)
  PROVE  /\ trace' \in Seq(Seq(Tasks)) /\ Len(trace') = n + 1
         /\ trace'[n + 1] = <<>>
         /\ \A i \in 1..n : trace'[i] = trace[i]
         /\ \A i \in 1..n : Ran(i)' = Ran(i)
         /\ Ran(n + 1)' = {}
<1> DEFINE S == Seq(Tasks)
<1>1. trace \in Seq(S) /\ <<>> \in S
  OBVIOUS
<1> HIDE DEF S
<1>2. /\ trace' \in Seq(S) /\ Len(trace') = n + 1
      /\ trace'[n + 1] = <<>>
      /\ \A i \in 1..n : trace'[i] = trace[i]
  BY <1>1
<1>3. \A i \in 1..n : Ran(i)' = Ran(i)
  BY <1>2 DEF Ran, DispatchedIn
<1>4. Ran(n + 1)' = {}
  <2>1. DOMAIN trace'[n + 1] = {}
    BY <1>2
  <2> QED
    BY <2>1 DEF Ran, DispatchedIn
<1> QED
  BY <1>2, <1>3, <1>4 DEF S

(***************************************************************************)
(* The state, iteration by iteration.                                      *)
(***************************************************************************)
Untouched ==
  /\ todo = 0
  /\ ready = [i \in DOMAIN created |-> Step(created[i])]
  /\ pc = [c \in Tasks |-> "start"]
  /\ q1 = 0 /\ q2 = 0 /\ getters = {}

\* The snapshot of the first iteration is what is left of the order of
\* creation, and whether c1 waits is a matter of that order.
First ==
  /\ todo <= Len(created)
  /\ \A i \in 1..todo : ready[i] = Step(created[Len(created) - todo + i])
  /\ Ran(1) = Tasks \ Snapshot
  /\ Snapshot = {c \in Tasks : pc[c] = "start"}
  /\ pc["c0"] \in {"start", "done"}
  /\ pc["c1"] # "done" /\ pc["c2"] \in {"start", "getting"}
  /\ pc["c3"] \in {"start", "sleeping"}
  /\ Later = {c \in {"c1", "c3"} : pc[c] = "sleeping"}
             \union {c \in {"c1"} : pc[c] = "getting" /\ pc["c0"] = "done"}
  /\ q1 = IF pc["c0"] = "done" /\ pc["c1"] # "sleeping" THEN 1 ELSE 0
  /\ q2 = 0
  /\ getters = {c \in {"c2"} : pc[c] = "getting"}
               \union {c \in {"c1"} : pc[c] = "getting" /\ pc["c0"] = "start"}
  /\ pc["c1"] = "sleeping" => pc["c0"] = "done" /\ ~Late
  /\ pc["c1"] = "getting" => Late

\* c1 takes its item in the second iteration at the latest.
Second ==
  /\ Ran(1) = Tasks
  /\ Snapshot \subseteq {"c1", "c3"} /\ Ran(2) = {"c1", "c3"} \ Snapshot
  /\ pc["c0"] = "done" /\ pc["c2"] = "getting"
  /\ pc["c3"] = IF "c3" \in Snapshot THEN "sleeping" ELSE "done"
  /\ ~Late /\ "c1" \in Snapshot =>
       /\ pc["c1"] = "sleeping" /\ q1 = 0 /\ q2 = 0
       /\ Later = {} /\ getters = {"c2"}
  /\ ~Late /\ "c1" \notin Snapshot =>
       /\ pc["c1"] = "done" /\ q1 = 0 /\ q2 = 1
       /\ Later = {"c2"} /\ getters = {}
  /\ Late /\ "c1" \in Snapshot =>
       /\ pc["c1"] = "getting" /\ q1 = 1 /\ q2 = 0
       /\ Later = {} /\ getters = {"c2"}
  /\ Late /\ "c1" \notin Snapshot =>
       /\ pc["c1"] = "sleeping" /\ q1 = 0 /\ q2 = 0
       /\ Later = {"c1"} /\ getters = {"c2"}

\* From now on c1 puts and c2 gets, and no other runs.
Rest ==
  /\ Ran(1) = Tasks /\ Ran(2) = {"c1", "c3"}
  /\ pc["c0"] = "done" /\ pc["c3"] = "done" /\ q1 = 0

ThirdIfLate ==
  /\ Rest /\ pc["c2"] = "getting"
  /\ \/ /\ Snapshot = {"c1"} /\ Later = {}
        /\ pc["c1"] = "sleeping" /\ q2 = 0 /\ getters = {"c2"}
     \/ /\ Snapshot = {} /\ Later = {"c2"}
        /\ pc["c1"] = "done" /\ q2 = 1 /\ getters = {}

Last ==
  /\ Rest /\ pc["c1"] = "done" /\ Later = {} /\ getters = {}
  /\ \/ Snapshot = {"c2"} /\ pc["c2"] = "getting" /\ q2 = 1 /\ trace[Len(trace)] = <<>>
     \/ Snapshot = {} /\ pc["c2"] = "done" /\ q2 = 0 /\ trace[Len(trace)] = <<"c2">>

Turns ==
  \/ Len(trace) = 0 /\ Untouched
  \/ Len(trace) = 1 /\ First
  \/ Len(trace) = 2 /\ Second
  \/ Len(trace) = 3 /\ Late /\ ThirdIfLate
  \/ Len(trace) = (IF Late THEN 4 ELSE 3) /\ Last

LoopInv == WE2TypeOK /\ QueueOK /\ Turns

LEMMA CreatedOnce ==
  ASSUME created \in Orders
  PROVE  /\ created \in Seq(Tasks) /\ Len(created) \in Nat
         /\ \A c \in Tasks : \E i \in 1..Len(created) : created[i] = c
         /\ \A i, j \in 1..Len(created) : created[i] = created[j] => i = j
<1>1. /\ created \in Seq(Tasks)
      /\ \A c \in Tasks : Cardinality({i \in DOMAIN created : created[i] = c}) = 1
  BY OrdersAssumption
<1>2. DOMAIN created = 1..Len(created) /\ Len(created) \in Nat
  BY <1>1
<1>3. ASSUME NEW c \in Tasks
      PROVE  \E i \in 1..Len(created) : {j \in 1..Len(created) : created[j] = c} = {i}
  <2> DEFINE P == {i \in 1..Len(created) : created[i] = c}
  <2>1. Cardinality(P) = 1
    BY <1>1, <1>2
  <2>2. IsFiniteSet(P)
    <3>1. IsFiniteSet(1..Len(created))
      BY <1>2, FS_Interval
    <3>2. P \subseteq 1..Len(created)
      OBVIOUS
    <3> QED
      BY <3>1, <3>2, FS_Subset
  <2>3. PICK i : P = {i}
    BY <2>1, <2>2, FS_Singleton
  <2> QED
    BY <2>3
<1>4. \A i \in 1..Len(created) : created[i] \in Tasks
  BY <1>1, <1>2
<1>5. ASSUME NEW i \in 1..Len(created), NEW j \in 1..Len(created), created[i] = created[j]
      PROVE  i = j
  <2>1. PICK k \in 1..Len(created) : {l \in 1..Len(created) : created[l] = created[i]} = {k}
    BY <1>3, <1>4
  <2> QED
    BY <1>5, <2>1
<1>6. ASSUME NEW c \in Tasks PROVE \E i \in 1..Len(created) : created[i] = c
  BY <1>3
<1> QED
  BY <1>1, <1>2, <1>5, <1>6

LEMMA WE2InitInv == WE2Init => LoopInv
<1> SUFFICES ASSUME WE2Init PROVE LoopInv
  OBVIOUS
<1>1. /\ created \in Orders /\ todo = 0 /\ timers = {} /\ trace = <<>>
      /\ ready = [i \in DOMAIN created |-> Step(created[i])]
      /\ pc = [c \in Tasks |-> "start"]
      /\ q1 = 0 /\ q2 = 0 /\ getters = {}
  BY DEF WE2Init
<1>2. /\ created \in Seq(Tasks) /\ DOMAIN created = 1..Len(created) /\ Len(created) \in Nat
      /\ \A i, j \in 1..Len(created) : created[i] = created[j] => i = j
      /\ \A i \in 1..Len(created) : created[i] \in Tasks
  BY <1>1, CreatedOnce
<1>3. ready \in Seq(Handles) /\ Len(ready) = Len(created)
  <2>1. ready \in [1..Len(created) -> Handles]
    BY <1>1, <1>2 DEF Handles
  <2> QED
    BY <1>2, <2>1
<1>4. Unique(ready)
  BY <1>1, <1>2, <1>3, HandlesDiffer DEF Unique
<1>5. QueueOK
  BY <1>1, <1>2, <1>3, <1>4 DEF QueueOK
<1>6. Len(trace) = 0
  BY <1>1
<1>7. trace \in Seq(Seq(Tasks))
  BY <1>1
<1>8. WE2TypeOK
  BY <1>1, <1>2, <1>3, <1>7 DEF WE2TypeOK, Handles
<1> QED
  BY <1>1, <1>5, <1>6, <1>8 DEF LoopInv, Turns, Untouched

(* What the dispatch of a coroutine changes, whichever it is. *)
Places == {"start", "getting", "sleeping", "done"}

LEMMA Resumed ==
  ASSUME LoopInv, NEW c \in Tasks, NEW where \in Places, NEW new, NEW W, Resume(c, new, where),
         \/ new = <<>> /\ W = {}
         \/ \E d \in Tasks : /\ new = <<Step(d)>> /\ W = {d}
                             /\ d = c \/ d \notin Snapshot \union Later
  PROVE  /\ QueueOK' /\ todo' = todo - 1 /\ todo > 0 /\ ready[1] = Step(c)
         /\ \A i \in 1..todo' : ready'[i] = ready[i + 1]
         /\ \A i \in 1..Len(ready) - 1 : ready'[i] = ready[i + 1]
         /\ \/ W = {} /\ Len(ready') = Len(ready) - 1
            \/ /\ Len(ready') = Len(ready)
               /\ \E d \in W : ready'[Len(ready)] = Step(d)
         /\ c \in Snapshot /\ c \notin Later
         /\ Snapshot' = Snapshot \ {c}
         /\ Later' = Later \union W
         /\ Len(trace) \in 1..4 /\ Len(trace') = Len(trace)
         /\ trace' \in Seq(Seq(Tasks))
         /\ trace'[Len(trace)] = Append(trace[Len(trace)], c)
         /\ Len(trace'[Len(trace)]) = Len(trace[Len(trace)]) + 1
         /\ \A i \in 1..Len(trace) - 1 : trace'[i] = trace[i]
         /\ \A i \in 1..Len(trace) - 1 : Ran(i)' = Ran(i)
         /\ Ran(Len(trace))' = Ran(Len(trace)) \union {c}
         /\ pc' \in [Tasks -> Places] /\ pc'[c] = where
         /\ \A d \in Tasks : d # c => pc'[d] = pc[d]
         /\ created' = created /\ timers' = {} /\ (Late' <=> Late)
<1>1. /\ RunHandle(Step(c), new)
      /\ pc' = [pc EXCEPT ![c] = where]
      /\ trace' = [trace EXCEPT ![Len(trace)] = Append(@, c)]
      /\ UNCHANGED <<timers, created>>
  BY DEF Resume
<1>2. /\ QueueOK' /\ todo' = todo - 1 /\ todo > 0 /\ ready[1] = Step(c)
      /\ \A i \in 1..todo' : ready'[i] = ready[i + 1]
      /\ \A i \in 1..Len(ready) - 1 : ready'[i] = ready[i + 1]
      /\ \/ W = {} /\ Len(ready') = Len(ready) - 1
         \/ /\ Len(ready') = Len(ready)
            /\ \E d \in W : ready'[Len(ready)] = Step(d)
      /\ c \in Snapshot /\ c \notin Later
      /\ Snapshot' = Snapshot \ {c}
      /\ Later' = Later \union W
  <2>1. CASE new = <<>> /\ W = {}
    BY <1>1, <2>1, ResumeNothing DEF LoopInv
  <2>2. CASE \E d \in Tasks : /\ new = <<Step(d)>> /\ W = {d}
                              /\ d = c \/ d \notin Snapshot \union Later
    <3>1. PICK d \in Tasks : /\ new = <<Step(d)>> /\ W = {d}
                             /\ d = c \/ d \notin Snapshot \union Later
      BY <2>2
    <3> QED
      BY <1>1, <3>1, ResumeOne DEF LoopInv
  <2> QED
    BY <2>1, <2>2
<1>3. Len(trace) \in 1..4
  BY <1>2 DEF LoopInv, Turns, Untouched
<1>4. trace \in Seq(Seq(Tasks)) /\ pc \in [Tasks -> Places] /\ timers = {}
  BY DEF LoopInv, WE2TypeOK, Places
<1>5. /\ Len(trace') = Len(trace)
      /\ trace' \in Seq(Seq(Tasks))
      /\ trace'[Len(trace)] = Append(trace[Len(trace)], c)
      /\ Len(trace'[Len(trace)]) = Len(trace[Len(trace)]) + 1
      /\ \A i \in 1..Len(trace) - 1 : trace'[i] = trace[i]
      /\ \A i \in 1..Len(trace) - 1 : Ran(i)' = Ran(i)
      /\ Ran(Len(trace))' = Ran(Len(trace)) \union {c}
  <2> DEFINE n == Len(trace)
  <2>1. n \in Nat \ {0} /\ trace' = [trace EXCEPT ![n] = Append(@, c)]
    BY <1>1, <1>3
  <2> QED
    BY <1>1, <1>4, <2>1, Recorded
<1>6. /\ pc' \in [Tasks -> Places] /\ pc'[c] = where
      /\ \A d \in Tasks : d # c => pc'[d] = pc[d]
  BY <1>1, <1>4
<1>7. Late' <=> Late
  BY <1>1 DEF Late
<1> QED
  BY <1>1, <1>2, <1>3, <1>4, <1>5, <1>6, <1>7

(* In the first iteration: what is dispatched before c was created before  *)
(* it, and the rest after it.                                              *)
LEMMA FirstOrder ==
  ASSUME LoopInv, First, NEW c \in Tasks, NEW d \in Tasks, c # d, ready[1] = Step(c), todo > 0
  PROVE  /\ d \in Snapshot <=> Before(created, c, d)
         /\ d \notin Snapshot <=> Before(created, d, c)
<1> DEFINE n == Len(created)  at == n - todo + 1
<1>a. /\ n \in Nat /\ DOMAIN created = 1..n
      /\ \A i, j \in 1..n : created[i] = created[j] => i = j
      /\ \E i \in 1..n : created[i] = d
  <2>1. created \in Orders
    BY DEF LoopInv, WE2TypeOK
  <2> QED
    BY <2>1, CreatedOnce
<1>b. /\ todo \in Nat /\ todo <= n
      /\ \A i \in 1..todo : ready[i] = Step(created[n - todo + i])
  BY DEF LoopInv, QueueOK, First
<1>1. \A x, y : Step(x) = Step(y) => x = y
  BY HandlesDiffer
<1>2. created[at] = c /\ at \in 1..n
  <2>1. ready[1] = Step(created[n - todo + 1]) /\ at \in 1..n
    BY <1>a, <1>b
  <2> QED
    BY <1>1, <2>1
<1>3. PICK m \in 1..n : created[m] = d
  BY <1>a
<1>4. m # at
  BY <1>2, <1>3
<1>5. ASSUME d \in Snapshot PROVE m > at
  <2>1. PICK i \in 1..todo : ready[i] = Step(d)
    BY <1>5 DEF Snapshot
  <2>2. created[n - todo + i] = d /\ n - todo + i \in 1..n
    BY <1>a, <1>b, <1>1, <2>1
  <2>3. m = n - todo + i
    BY <1>a, <1>3, <2>2
  <2> QED
    BY <1>a, <1>b, <1>4, <2>3
<1>6. ASSUME m > at PROVE d \in Snapshot
  <2> DEFINE i == m - (n - todo)
  <2>1. i \in 1..todo /\ n - todo + i = m
    BY <1>a, <1>b, <1>3, <1>6
  <2> HIDE DEF i
  <2>2. ready[i] = Step(d)
    BY <1>b, <1>3, <2>1
  <2> QED
    BY <2>1, <2>2 DEF Snapshot
<1>7. Before(created, c, d) <=> m > at
  BY <1>a, <1>2, <1>3 DEF Before
<1>8. Before(created, d, c) <=> m < at
  BY <1>a, <1>2, <1>3 DEF Before
<1>9. m < at \/ m > at
  BY <1>a, <1>2, <1>3, <1>4
<1>10. ~(m < at /\ m > at)
  BY <1>a, <1>2, <1>3
<1> QED
  BY <1>5, <1>6, <1>7, <1>8, <1>9, <1>10

(* So c1 finds an item exactly if c0 was created before it.                *)
LEMMA C1Meets ==
  ASSUME LoopInv, First, ready[1] = Step("c1"), todo > 0
  PROVE  pc["c0"] = "start" <=> Late
<1>1. "c0" \in Snapshot <=> Before(created, "c1", "c0")
  BY FirstOrder DEF Tasks
<1> QED
  BY <1>1 DEF First, Late, Tasks

LEMMA TypeKept ==
  ASSUME LoopInv, QueueOK', pc' \in [Tasks -> Places], trace' \in Seq(Seq(Tasks)),
         created' = created, timers' = {},
         q1' \in {0, 1}, q2' \in {0, 1}, getters' \subseteq {"c1", "c2"}
  PROVE  WE2TypeOK'
BY DEF LoopInv, WE2TypeOK, QueueOK, Handles, Places

(* The snapshot of the first iteration moves on. *)
LEMMA FirstMoves ==
  ASSUME LoopInv, First, todo > 0, todo' = todo - 1, created' = created,
         \A i \in 1..todo' : ready'[i] = ready[i + 1]
  PROVE  /\ todo' <= Len(created')
         /\ \A i \in 1..todo' : ready'[i] = Step(created'[Len(created') - todo' + i])
<1>1. /\ todo \in Nat /\ Len(created) \in Nat /\ todo <= Len(created)
      /\ \A i \in 1..todo : ready[i] = Step(created[Len(created) - todo + i])
  <2>1. created \in Orders
    BY DEF LoopInv, WE2TypeOK
  <2> QED
    BY <2>1, CreatedOnce DEF LoopInv, QueueOK, First
<1>2. ASSUME NEW i \in 1..todo'
      PROVE  ready'[i] = Step(created[Len(created) - todo' + i])
  <2>1. i + 1 \in 1..todo
    BY <1>1
  <2>2. ready[i + 1] = Step(created[Len(created) - todo + (i + 1)])
    BY <1>1, <2>1
  <2>3. Len(created) - todo + (i + 1) = Len(created) - todo' + i
    BY <1>1
  <2> QED
    BY <2>2, <2>3
<1> QED
  BY <1>1, <1>2

LEMMA C0PutsInv ==
  ASSUME LoopInv, C0Puts
  PROVE  LoopInv'
<1> DEFINE W == {c \in {"c1"} : c \in getters}
<1>1. /\ pc["c0"] = "start" /\ todo > 0
      /\ Resume("c0", Wakes("c1"), "done")
      /\ q1' = q1 + 1 /\ q2' = q2 /\ getters' = getters \ {"c1"}
  BY DEF C0Puts, Resume, RunHandle
<1>2. Len(trace) = 1 /\ First
  BY <1>1 DEF LoopInv, Turns, Untouched, Second, Rest, ThirdIfLate, Last
<1>3. \/ Wakes("c1") = <<>> /\ W = {}
      \/ \E d \in Tasks : /\ Wakes("c1") = <<Step(d)>> /\ W = {d}
                          /\ d = "c0" \/ d \notin Snapshot \union Later
  BY <1>1, <1>2 DEF First, Wakes, Tasks
<1> HIDE DEF W
<1>4. /\ QueueOK' /\ todo' = todo - 1
      /\ \A i \in 1..todo' : ready'[i] = ready[i + 1]
      /\ Snapshot' = Snapshot \ {"c0"}
      /\ Later' = Later \union W
      /\ Len(trace') = Len(trace)
      /\ trace' \in Seq(Seq(Tasks))
      /\ Ran(Len(trace))' = Ran(Len(trace)) \union {"c0"}
      /\ pc' \in [Tasks -> Places] /\ pc'["c0"] = "done"
      /\ \A d \in Tasks : d # "c0" => pc'[d] = pc[d]
      /\ created' = created /\ timers' = {} /\ (Late' <=> Late)
  BY <1>1, <1>3, Resumed DEF Tasks, Places
<1>5. First'
  <2>1. /\ todo' <= Len(created')
        /\ \A i \in 1..todo' : ready'[i] = Step(created'[Len(created') - todo' + i])
    BY <1>1, <1>2, <1>4, FirstMoves
  <2>2. Ran(1)' = Tasks \ Snapshot'
    BY <1>2, <1>4 DEF First, Tasks
  <2>3. Snapshot' = {c \in Tasks : pc'[c] = "start"}
    BY <1>2, <1>4 DEF First, Tasks
  <2>4. /\ pc'["c1"] = pc["c1"] /\ pc'["c2"] = pc["c2"] /\ pc'["c3"] = pc["c3"]
        /\ pc'["c0"] = "done"
    BY <1>4 DEF Tasks
  <2>5. Later' = {c \in {"c1", "c3"} : pc'[c] = "sleeping"}
             \union {c \in {"c1"} : pc'[c] = "getting" /\ pc'["c0"] = "done"}
    BY <1>1, <1>2, <1>4, <2>4 DEF First, W
  <2>6. getters' = {c \in {"c2"} : pc'[c] = "getting"}
               \union {c \in {"c1"} : pc'[c] = "getting" /\ pc'["c0"] = "start"}
    BY <1>1, <1>2, <2>4 DEF First
  <2> QED
    BY <1>1, <1>2, <1>4, <2>1, <2>2, <2>3, <2>4, <2>5, <2>6 DEF First
<1>6. WE2TypeOK'
  <2>1. q1' \in {0, 1} /\ q2' \in {0, 1} /\ getters' \subseteq {"c1", "c2"}
    BY <1>1, <1>2 DEF First
  <2> QED
    BY <1>4, <2>1, TypeKept
<1> QED
  BY <1>2, <1>4, <1>5, <1>6 DEF LoopInv, Turns

LEMMA C2GetsInv ==
  ASSUME LoopInv, C2Gets
  PROVE  LoopInv'
<1>1. /\ pc["c2"] \in {"start", "getting"} /\ todo > 0
      /\ Resume("c2", <<>>, "done")
      /\ q2 > 0 /\ q2' = q2 - 1 /\ q1' = q1 /\ getters' = getters
  BY DEF C2Gets, Resume, RunHandle
<1>2. /\ QueueOK' /\ todo' = todo - 1
      /\ "c2" \in Snapshot
      /\ Snapshot' = Snapshot \ {"c2"}
      /\ Later' = Later \union {}
      /\ Len(trace) \in 1..4 /\ Len(trace') = Len(trace)
      /\ trace' \in Seq(Seq(Tasks))
      /\ trace'[Len(trace)] = Append(trace[Len(trace)], "c2")
      /\ \A i \in 1..Len(trace) - 1 : Ran(i)' = Ran(i)
      /\ pc' \in [Tasks -> Places] /\ pc'["c2"] = "done"
      /\ \A d \in Tasks : d # "c2" => pc'[d] = pc[d]
      /\ created' = created /\ timers' = {} /\ (Late' <=> Late)
  <2> DEFINE W == {}
  <2>1. <<>> = <<>> /\ W = {}
    OBVIOUS
  <2>2. "c2" \in Tasks /\ "done" \in Places
    BY DEF Tasks, Places
  <2> HIDE DEF W
  <2>3. /\ QueueOK' /\ todo' = todo - 1
        /\ "c2" \in Snapshot
        /\ Snapshot' = Snapshot \ {"c2"}
        /\ Later' = Later \union W
        /\ Len(trace) \in 1..4 /\ Len(trace') = Len(trace)
        /\ trace' \in Seq(Seq(Tasks))
        /\ trace'[Len(trace)] = Append(trace[Len(trace)], "c2")
        /\ \A i \in 1..Len(trace) - 1 : Ran(i)' = Ran(i)
        /\ pc' \in [Tasks -> Places] /\ pc'["c2"] = "done"
        /\ \A d \in Tasks : d # "c2" => pc'[d] = pc[d]
        /\ created' = created /\ timers' = {} /\ (Late' <=> Late)
    BY <1>1, <2>1, <2>2, Resumed
  <2> QED
    BY <2>1, <2>3
<1>3. Len(trace) = (IF Late THEN 4 ELSE 3) /\ Last /\ Snapshot = {"c2"}
      /\ trace[Len(trace)] = <<>>
  BY <1>1, <1>2 DEF LoopInv, Turns, Untouched, First, Second, Rest, ThirdIfLate, Last
<1>4. Last'
  <2>1. trace'[Len(trace')] = <<"c2">>
    BY <1>2, <1>3
  <2>2. Ran(1)' = Ran(1) /\ Ran(2)' = Ran(2)
    BY <1>2, <1>3
  <2> QED
    BY <1>1, <1>2, <1>3, <2>1, <2>2 DEF Last, Rest, Tasks
<1>5. WE2TypeOK'
  <2>1. q1' \in {0, 1} /\ q2' \in {0, 1} /\ getters' \subseteq {"c1", "c2"}
    BY <1>1, <1>3 DEF Last, Rest
  <2> QED
    BY <1>2, <2>1, TypeKept
<1> QED
  BY <1>2, <1>3, <1>4, <1>5 DEF LoopInv, Turns

LEMMA C2WaitsInv ==
  ASSUME LoopInv, C2Waits
  PROVE  LoopInv'
<1>1. /\ pc["c2"] \in {"start", "getting"} /\ todo > 0
      /\ Resume("c2", <<>>, "getting")
      /\ q2 = 0 /\ q2' = q2 /\ q1' = q1 /\ getters' = getters \union {"c2"}
  BY DEF C2Waits, Resume, RunHandle
<1> DEFINE W == {}
<1>2. <<>> = <<>> /\ W = {} /\ "c2" \in Tasks /\ "getting" \in Places
  BY DEF Tasks, Places
<1> HIDE DEF W
<1>3. /\ QueueOK' /\ todo' = todo - 1
      /\ \A i \in 1..todo' : ready'[i] = ready[i + 1]
      /\ "c2" \in Snapshot
      /\ Snapshot' = Snapshot \ {"c2"}
      /\ Later' = Later \union W
      /\ Len(trace) \in 1..4 /\ Len(trace') = Len(trace)
      /\ trace' \in Seq(Seq(Tasks))
      /\ Ran(Len(trace))' = Ran(Len(trace)) \union {"c2"}
      /\ pc' \in [Tasks -> Places] /\ pc'["c2"] = "getting"
      /\ \A d \in Tasks : d # "c2" => pc'[d] = pc[d]
      /\ created' = created /\ timers' = {} /\ (Late' <=> Late)
  BY <1>1, <1>2, Resumed
<1>4. Len(trace) = 1 /\ First
  BY <1>1, <1>3 DEF LoopInv, Turns, Untouched, First, Second, Rest, ThirdIfLate, Last
<1>5. First'
  <2>1. /\ todo' <= Len(created')
        /\ \A i \in 1..todo' : ready'[i] = Step(created'[Len(created') - todo' + i])
    BY <1>1, <1>3, <1>4, FirstMoves
  <2>2. Ran(1)' = Tasks \ Snapshot'
    BY <1>3, <1>4 DEF First, Tasks
  <2>3. Snapshot' = {c \in Tasks : pc'[c] = "start"}
    BY <1>3, <1>4 DEF First, Tasks
  <2>4. /\ pc'["c0"] = pc["c0"] /\ pc'["c1"] = pc["c1"] /\ pc'["c3"] = pc["c3"]
        /\ pc'["c2"] = "getting" /\ Later' = Later
    BY <1>2, <1>3 DEF Tasks
  <2>5. Later' = {c \in {"c1", "c3"} : pc'[c] = "sleeping"}
             \union {c \in {"c1"} : pc'[c] = "getting" /\ pc'["c0"] = "done"}
    BY <1>4, <2>4 DEF First
  <2>6. getters' = {c \in {"c2"} : pc'[c] = "getting"}
               \union {c \in {"c1"} : pc'[c] = "getting" /\ pc'["c0"] = "start"}
    BY <1>1, <1>4, <2>4 DEF First
  <2> QED
    BY <1>1, <1>4, <1>3, <2>1, <2>2, <2>3, <2>4, <2>5, <2>6 DEF First
<1>6. WE2TypeOK'
  <2>1. q1' \in {0, 1} /\ q2' \in {0, 1} /\ getters' \subseteq {"c1", "c2"}
    BY <1>1, <1>4 DEF First
  <2> QED
    BY <1>3, <2>1, TypeKept
<1> QED
  BY <1>3, <1>4, <1>5, <1>6 DEF LoopInv, Turns

LEMMA C3SleepsInv ==
  ASSUME LoopInv, C3Sleeps
  PROVE  LoopInv'
<1>1. /\ pc["c3"] = "start" /\ todo > 0
      /\ Resume("c3", <<Step("c3")>>, "sleeping")
      /\ q2' = q2 /\ q1' = q1 /\ getters' = getters
  BY DEF C3Sleeps, Resume, RunHandle
<1>2. /\ "c3" \in Tasks /\ "sleeping" \in Places
      /\ \E d \in Tasks : /\ <<Step("c3")>> = <<Step(d)>> /\ {"c3"} = {d}
                          /\ d = "c3" \/ d \notin Snapshot \union Later
  BY DEF Tasks, Places
<1>3. /\ QueueOK' /\ todo' = todo - 1
      /\ \A i \in 1..todo' : ready'[i] = ready[i + 1]
      /\ Snapshot' = Snapshot \ {"c3"}
      /\ Later' = Later \union {"c3"}
      /\ Len(trace) \in 1..4 /\ Len(trace') = Len(trace)
      /\ trace' \in Seq(Seq(Tasks))
      /\ Ran(Len(trace))' = Ran(Len(trace)) \union {"c3"}
      /\ pc' \in [Tasks -> Places] /\ pc'["c3"] = "sleeping"
      /\ \A d \in Tasks : d # "c3" => pc'[d] = pc[d]
      /\ created' = created /\ timers' = {} /\ (Late' <=> Late)
  BY <1>1, <1>2, Resumed
<1>4. Len(trace) = 1 /\ First
  BY <1>1, <1>3 DEF LoopInv, Turns, Untouched, Second, Rest, ThirdIfLate, Last
<1>5. First'
  <2>1. /\ todo' <= Len(created')
        /\ \A i \in 1..todo' : ready'[i] = Step(created'[Len(created') - todo' + i])
    BY <1>1, <1>3, <1>4, FirstMoves
  <2>2. Ran(1)' = Tasks \ Snapshot'
    BY <1>3, <1>4 DEF First, Tasks
  <2>3. Snapshot' = {c \in Tasks : pc'[c] = "start"}
    BY <1>3, <1>4 DEF First, Tasks
  <2>4. /\ pc'["c0"] = pc["c0"] /\ pc'["c1"] = pc["c1"] /\ pc'["c2"] = pc["c2"]
        /\ pc'["c3"] = "sleeping"
    BY <1>2, <1>3 DEF Tasks
  <2>5. Later' = {c \in {"c1", "c3"} : pc'[c] = "sleeping"}
             \union {c \in {"c1"} : pc'[c] = "getting" /\ pc'["c0"] = "done"}
    BY <1>1, <1>3, <1>4, <2>4 DEF First
  <2>6. getters' = {c \in {"c2"} : pc'[c] = "getting"}
               \union {c \in {"c1"} : pc'[c] = "getting" /\ pc'["c0"] = "start"}
    BY <1>1, <1>4, <2>4 DEF First
  <2> QED
    BY <1>1, <1>4, <1>3, <2>1, <2>2, <2>3, <2>4, <2>5, <2>6 DEF First
<1>6. WE2TypeOK'
  <2>1. q1' \in {0, 1} /\ q2' \in {0, 1} /\ getters' \subseteq {"c1", "c2"}
    BY <1>1, <1>4 DEF First
  <2> QED
    BY <1>3, <2>1, TypeKept
<1> QED
  BY <1>3, <1>4, <1>5, <1>6 DEF LoopInv, Turns

LEMMA C3EndsInv ==
  ASSUME LoopInv, C3Ends
  PROVE  LoopInv'
<1>1. /\ pc["c3"] = "sleeping" /\ todo > 0
      /\ Resume("c3", <<>>, "done")
      /\ q2' = q2 /\ q1' = q1 /\ getters' = getters
  BY DEF C3Ends, Resume, RunHandle
<1> DEFINE W == {}
<1>2. <<>> = <<>> /\ W = {} /\ "c3" \in Tasks /\ "done" \in Places
  BY DEF Tasks, Places
<1> HIDE DEF W
<1>3. /\ QueueOK' /\ todo' = todo - 1
      /\ "c3" \in Snapshot
      /\ Snapshot' = Snapshot \ {"c3"}
      /\ Later' = Later \union W
      /\ Len(trace) \in 1..4 /\ Len(trace') = Len(trace)
      /\ trace' \in Seq(Seq(Tasks))
      /\ \A i \in 1..Len(trace) - 1 : Ran(i)' = Ran(i)
      /\ Ran(Len(trace))' = Ran(Len(trace)) \union {"c3"}
      /\ pc' \in [Tasks -> Places] /\ pc'["c3"] = "done"
      /\ \A d \in Tasks : d # "c3" => pc'[d] = pc[d]
      /\ created' = created /\ timers' = {} /\ (Late' <=> Late)
  BY <1>1, <1>2, Resumed
<1>4. Len(trace) = 2 /\ Second
  BY <1>1, <1>3 DEF LoopInv, Turns, Untouched, First, Rest, ThirdIfLate, Last
<1>5. Second'
  <2>1. /\ pc'["c0"] = pc["c0"] /\ pc'["c1"] = pc["c1"] /\ pc'["c2"] = pc["c2"]
        /\ pc'["c3"] = "done" /\ Later' = Later
        /\ Ran(1)' = Ran(1) /\ Ran(2)' = Ran(2) \union {"c3"}
        /\ ("c1" \in Snapshot' <=> "c1" \in Snapshot)
    BY <1>2, <1>3, <1>4 DEF Tasks
  <2> QED
    BY <1>1, <1>3, <1>4, <2>1 DEF Second
<1>6. WE2TypeOK'
  <2>1. q1' \in {0, 1} /\ q2' \in {0, 1} /\ getters' \subseteq {"c1", "c2"}
    BY <1>1 DEF LoopInv, WE2TypeOK
  <2> QED
    BY <1>3, <2>1, TypeKept
<1> QED
  BY <1>3, <1>4, <1>5, <1>6 DEF LoopInv, Turns

LEMMA C1WaitsInv ==
  ASSUME LoopInv, C1Waits
  PROVE  LoopInv'
<1>1. /\ pc["c1"] \in {"start", "getting"} /\ todo > 0
      /\ Resume("c1", <<>>, "getting")
      /\ q1 = 0 /\ q2' = q2 /\ q1' = q1 /\ getters' = getters \union {"c1"}
  BY DEF C1Waits, Resume, RunHandle
<1> DEFINE W == {}
<1>2. <<>> = <<>> /\ W = {} /\ "c1" \in Tasks /\ "getting" \in Places
  BY DEF Tasks, Places
<1> HIDE DEF W
<1>3. /\ QueueOK' /\ todo' = todo - 1 /\ ready[1] = Step("c1")
      /\ \A i \in 1..todo' : ready'[i] = ready[i + 1]
      /\ "c1" \in Snapshot
      /\ Snapshot' = Snapshot \ {"c1"}
      /\ Later' = Later \union W
      /\ Len(trace) \in 1..4 /\ Len(trace') = Len(trace)
      /\ trace' \in Seq(Seq(Tasks))
      /\ Ran(Len(trace))' = Ran(Len(trace)) \union {"c1"}
      /\ pc' \in [Tasks -> Places] /\ pc'["c1"] = "getting"
      /\ \A d \in Tasks : d # "c1" => pc'[d] = pc[d]
      /\ created' = created /\ timers' = {} /\ (Late' <=> Late)
  BY <1>1, <1>2, Resumed
<1>4. Len(trace) = 1 /\ First
  BY <1>1, <1>3 DEF LoopInv, Turns, Untouched, First, Second, Rest, ThirdIfLate, Last
<1>5. pc["c1"] = "start" /\ pc["c0"] = "start" /\ Late
  <2>1. pc["c1"] = "start"
    BY <1>3, <1>4 DEF First
  <2>2. pc["c0"] = "start"
    BY <1>1, <1>4, <2>1 DEF First
  <2> QED
    BY <1>1, <1>3, <1>4, <2>1, <2>2, C1Meets
<1>6. First'
  <2>1. /\ todo' <= Len(created')
        /\ \A i \in 1..todo' : ready'[i] = Step(created'[Len(created') - todo' + i])
    BY <1>1, <1>3, <1>4, FirstMoves
  <2>2. Ran(1)' = Tasks \ Snapshot'
    BY <1>3, <1>4 DEF First, Tasks
  <2>3. Snapshot' = {c \in Tasks : pc'[c] = "start"}
    BY <1>3, <1>4 DEF First, Tasks
  <2>4. /\ pc'["c0"] = pc["c0"] /\ pc'["c2"] = pc["c2"] /\ pc'["c3"] = pc["c3"]
        /\ pc'["c1"] = "getting" /\ Later' = Later
    BY <1>2, <1>3 DEF Tasks
  <2>5. Later' = {c \in {"c1", "c3"} : pc'[c] = "sleeping"}
             \union {c \in {"c1"} : pc'[c] = "getting" /\ pc'["c0"] = "done"}
    BY <1>4, <1>5, <2>4 DEF First
  <2>6. getters' = {c \in {"c2"} : pc'[c] = "getting"}
               \union {c \in {"c1"} : pc'[c] = "getting" /\ pc'["c0"] = "start"}
    BY <1>1, <1>4, <1>5, <2>4 DEF First
  <2> QED
    BY <1>1, <1>4, <1>5, <1>3, <2>1, <2>2, <2>3, <2>4, <2>5, <2>6 DEF First
<1>7. WE2TypeOK'
  <2>1. q1' \in {0, 1} /\ q2' \in {0, 1} /\ getters' \subseteq {"c1", "c2"}
    BY <1>1, <1>4 DEF First
  <2> QED
    BY <1>3, <2>1, TypeKept
<1> QED
  BY <1>3, <1>4, <1>6, <1>7 DEF LoopInv, Turns

LEMMA C1GetsInv ==
  ASSUME LoopInv, C1Gets
  PROVE  LoopInv'
<1>1. /\ pc["c1"] \in {"start", "getting"} /\ todo > 0
      /\ Resume("c1", <<Step("c1")>>, "sleeping")
      /\ q1 > 0 /\ q1' = q1 - 1 /\ q2' = q2 /\ getters' = getters
  BY DEF C1Gets, Resume, RunHandle
<1>2. /\ "c1" \in Tasks /\ "sleeping" \in Places
      /\ \E d \in Tasks : /\ <<Step("c1")>> = <<Step(d)>> /\ {"c1"} = {d}
                          /\ d = "c1" \/ d \notin Snapshot \union Later
  BY DEF Tasks, Places
<1>3. /\ QueueOK' /\ todo' = todo - 1 /\ ready[1] = Step("c1")
      /\ \A i \in 1..todo' : ready'[i] = ready[i + 1]
      /\ "c1" \in Snapshot
      /\ Snapshot' = Snapshot \ {"c1"}
      /\ Later' = Later \union {"c1"}
      /\ Len(trace) \in 1..4 /\ Len(trace') = Len(trace)
      /\ trace' \in Seq(Seq(Tasks))
      /\ \A i \in 1..Len(trace) - 1 : Ran(i)' = Ran(i)
      /\ Ran(Len(trace))' = Ran(Len(trace)) \union {"c1"}
      /\ pc' \in [Tasks -> Places] /\ pc'["c1"] = "sleeping"
      /\ \A d \in Tasks : d # "c1" => pc'[d] = pc[d]
      /\ created' = created /\ timers' = {} /\ (Late' <=> Late)
  BY <1>1, <1>2, Resumed
<1>4. WE2TypeOK'
  <2>1. q1' \in {0, 1} /\ q2' \in {0, 1} /\ getters' \subseteq {"c1", "c2"}
    BY <1>1 DEF LoopInv, WE2TypeOK
  <2> QED
    BY <1>3, <2>1, TypeKept
<1>5. /\ pc'["c0"] = pc["c0"] /\ pc'["c2"] = pc["c2"] /\ pc'["c3"] = pc["c3"]
      /\ pc'["c1"] = "sleeping"
  BY <1>3 DEF Tasks
<1>6. CASE Len(trace) = 1 /\ First
  <2>1. pc["c1"] = "start" /\ pc["c0"] = "done" /\ ~Late
    <3>1. pc["c1"] = "start" /\ pc["c0"] = "done"
      BY <1>1, <1>3, <1>6 DEF First
    <3> QED
      BY <1>1, <1>3, <1>6, <3>1, C1Meets
  <2>2. /\ todo' <= Len(created')
        /\ \A i \in 1..todo' : ready'[i] = Step(created'[Len(created') - todo' + i])
    BY <1>1, <1>3, <1>6, FirstMoves
  <2>3. Ran(1)' = Tasks \ Snapshot'
    BY <1>3, <1>6 DEF First, Tasks
  <2>4. Snapshot' = {c \in Tasks : pc'[c] = "start"}
    BY <1>3, <1>6 DEF First, Tasks
  <2>5. Later' = {c \in {"c1", "c3"} : pc'[c] = "sleeping"}
             \union {c \in {"c1"} : pc'[c] = "getting" /\ pc'["c0"] = "done"}
    BY <1>3, <1>5, <1>6, <2>1 DEF First
  <2>6. getters' = {c \in {"c2"} : pc'[c] = "getting"}
               \union {c \in {"c1"} : pc'[c] = "getting" /\ pc'["c0"] = "start"}
    BY <1>1, <1>5, <1>6, <2>1 DEF First
  <2>7. /\ q1' = 0 /\ q2' = 0
        /\ pc'["c0"] = "done" /\ pc'["c2"] \in {"start", "getting"}
        /\ pc'["c3"] \in {"start", "sleeping"} /\ ~Late'
    BY <1>1, <1>3, <1>5, <1>6, <2>1 DEF First
  <2>8. First'
    BY <1>5, <2>2, <2>3, <2>4, <2>5, <2>6, <2>7 DEF First
  <2> QED
    BY <1>3, <1>4, <1>6, <2>8 DEF LoopInv, Turns
<1>7. CASE Len(trace) = 2 /\ Second
  <2>1. Late /\ "c1" \notin Snapshot'
    BY <1>1, <1>3, <1>7 DEF Second
  <2>2. Second'
    BY <1>1, <1>3, <1>5, <1>7, <2>1 DEF Second
  <2> QED
    BY <1>3, <1>4, <1>7, <2>2 DEF LoopInv, Turns
<1> QED
  BY <1>1, <1>3, <1>6, <1>7 DEF LoopInv, Turns, Untouched, Rest, ThirdIfLate, Last

LEMMA C1PutsInv ==
  ASSUME LoopInv, C1Puts
  PROVE  LoopInv'
<1> DEFINE W == {c \in {"c2"} : c \in getters}
<1>1. /\ pc["c1"] = "sleeping" /\ todo > 0
      /\ Resume("c1", Wakes("c2"), "done")
      /\ q2' = q2 + 1 /\ q1' = q1 /\ getters' = getters \ {"c2"}
  BY DEF C1Puts, Resume, RunHandle
<1>2. Len(trace) # 0
  <2>1. ~Untouched
    BY <1>1 DEF Untouched
  <2> QED
    BY <2>1 DEF LoopInv, Turns
<1>3. "c1" \in Snapshot
  <2>1. RunHandle(Step("c1"), Wakes("c2"))
    BY <1>1 DEF Resume
  <2>2. ready[1] = Step("c1") /\ 1 \in 1..todo
    BY <2>1 DEF RunHandle, LoopInv, QueueOK
  <2> QED
    BY <2>2 DEF Snapshot, Tasks
<1>4. /\ "c2" \in getters /\ "c2" \notin Snapshot \union Later /\ getters = {"c2"}
      /\ pc["c2"] = "getting" /\ q1 = 0 /\ q2 = 0 /\ Later = {} /\ pc["c0"] = "done"
      /\ \/ Len(trace) = 2 /\ Second /\ ~Late
         \/ Len(trace) = 3 /\ Late /\ ThirdIfLate /\ Snapshot = {"c1"}
  BY <1>1, <1>2, <1>3 DEF LoopInv, Turns, First, Second, Rest, ThirdIfLate, Last, Tasks
<1>5. W = {"c2"} /\ Wakes("c2") = <<Step("c2")>>
  BY <1>4 DEF Wakes
<1> HIDE DEF W
<1>6. /\ "c1" \in Tasks /\ "done" \in Places
      /\ \E d \in Tasks : /\ Wakes("c2") = <<Step(d)>> /\ W = {d}
                          /\ d = "c1" \/ d \notin Snapshot \union Later
  BY <1>4, <1>5 DEF Tasks, Places
<1>7. /\ QueueOK' /\ todo' = todo - 1
      /\ Snapshot' = Snapshot \ {"c1"}
      /\ Later' = Later \union W
      /\ Len(trace) \in 1..4 /\ Len(trace') = Len(trace)
      /\ trace' \in Seq(Seq(Tasks))
      /\ \A i \in 1..Len(trace) - 1 : Ran(i)' = Ran(i)
      /\ Ran(Len(trace))' = Ran(Len(trace)) \union {"c1"}
      /\ pc' \in [Tasks -> Places] /\ pc'["c1"] = "done"
      /\ \A d \in Tasks : d # "c1" => pc'[d] = pc[d]
      /\ created' = created /\ timers' = {} /\ (Late' <=> Late)
  BY <1>1, <1>6, Resumed
<1>8. WE2TypeOK'
  <2>1. q1' \in {0, 1} /\ q2' \in {0, 1} /\ getters' \subseteq {"c1", "c2"}
    BY <1>1, <1>4
  <2> QED
    BY <1>7, <2>1, TypeKept
<1>9. /\ pc'["c0"] = pc["c0"] /\ pc'["c2"] = pc["c2"] /\ pc'["c3"] = pc["c3"]
      /\ pc'["c1"] = "done" /\ Later' = {"c2"} /\ getters' = {} /\ q2' = 1 /\ q1' = 0
  BY <1>1, <1>4, <1>5, <1>7 DEF Tasks
<1>10. CASE Len(trace) = 2 /\ Second /\ ~Late
  <2>1. Ran(1)' = Ran(1) /\ Ran(2)' = Ran(2) \union {"c1"}
    BY <1>7, <1>10
  <2>2. Second'
    BY <1>3, <1>7, <1>9, <1>10, <2>1 DEF Second
  <2> QED
    BY <1>7, <1>8, <1>10, <2>2 DEF LoopInv, Turns
<1>11. CASE Len(trace) = 3 /\ Late /\ ThirdIfLate /\ Snapshot = {"c1"}
  <2>1. Ran(1)' = Ran(1) /\ Ran(2)' = Ran(2)
    BY <1>7, <1>11
  <2>2. ThirdIfLate'
    BY <1>7, <1>9, <1>11, <2>1 DEF ThirdIfLate, Rest
  <2> QED
    BY <1>7, <1>8, <1>11, <2>2 DEF LoopInv, Turns
<1> QED
  BY <1>4, <1>10, <1>11

LEMMA NextIterationInv ==
  ASSUME LoopInv, NextIteration
  PROVE  LoopInv'
<1>0. PICK n \in Nat : n = Len(trace)
  BY DEF LoopInv, WE2TypeOK
<1>1. /\ StartIteration /\ timers = {} /\ QueueOK
      /\ trace \in Seq(Seq(Tasks)) /\ trace' = Append(trace, <<>>)
      /\ UNCHANGED <<created, pc, q1, q2, getters>>
      /\ pc \in [Tasks -> Places]
  BY DEF NextIteration, LoopInv, WE2TypeOK, Places
<1>2. /\ QueueOK' /\ ready' = ready /\ timers' = {} /\ todo' = Len(ready) /\ todo = 0
      /\ ready # <<>>
      /\ Snapshot = {} /\ Snapshot' = Later /\ Later' = {}
  BY <1>1, IterationTakesAll
<1>3. /\ trace' \in Seq(Seq(Tasks)) /\ Len(trace') = n + 1
      /\ trace'[n + 1] = <<>>
      /\ \A i \in 1..n : Ran(i)' = Ran(i)
      /\ Ran(n + 1)' = {}
  BY <1>0, <1>1, NewRecord
<1>4. Later # {}
  BY <1>1, <1>2, SomethingQueued
<1>5. Late' <=> Late
  BY <1>1 DEF Late
<1>6. WE2TypeOK'
  <2>1. q1' \in {0, 1} /\ q2' \in {0, 1} /\ getters' \subseteq {"c1", "c2"}
    BY <1>1 DEF LoopInv, WE2TypeOK
  <2> QED
    BY <1>1, <1>2, <1>3, <2>1, TypeKept
<1>7. CASE n = 0 /\ Untouched
  <2>1. /\ created \in Seq(Tasks) /\ Len(created) \in Nat /\ DOMAIN created = 1..Len(created)
        /\ \A c \in Tasks : \E i \in 1..Len(created) : created[i] = c
    <3>1. created \in Orders
      BY DEF LoopInv, WE2TypeOK
    <3> QED
      BY <3>1, CreatedOnce
  <2>2. /\ ready = [i \in 1..Len(created) |-> Step(created[i])] /\ Len(ready) = Len(created)
    BY <1>7, <2>1 DEF Untouched
  <2>3. Later = Tasks
    <3>1. \A i \in 1..Len(ready) : i \in todo + 1..Len(ready) /\ ready[i] = Step(created[i])
      BY <1>2, <2>1, <2>2
    <3> QED
      BY <2>1, <2>2, <3>1 DEF Later
  <2>4. /\ todo' <= Len(created')
        /\ \A i \in 1..todo' : ready'[i] = Step(created'[Len(created') - todo' + i])
    BY <1>1, <1>2, <2>1, <2>2
  <2>5. /\ Ran(1)' = Tasks \ Snapshot'
        /\ Snapshot' = {c \in Tasks : pc'[c] = "start"}
    BY <1>1, <1>2, <1>3, <1>7, <2>3 DEF Untouched
  <2>6. pc'["c0"] = "start" /\ pc'["c1"] = "start" /\ pc'["c2"] = "start" /\ pc'["c3"] = "start"
    BY <1>1, <1>7 DEF Untouched, Tasks
  <2>7. First'
    BY <1>1, <1>2, <1>7, <2>4, <2>5, <2>6 DEF First, Untouched
  <2> QED
    BY <1>2, <1>3, <1>6, <1>7, <2>7 DEF LoopInv, Turns
<1>8. CASE n = 1 /\ First
  <2>1. Ran(1)' = Tasks /\ Ran(2)' = {}
    BY <1>2, <1>3, <1>8 DEF First
  <2>2. pc["c0"] = "done" /\ pc["c2"] = "getting" /\ pc["c3"] = "sleeping"
        /\ pc["c1"] \in {"getting", "sleeping"}
    BY <1>1, <1>2, <1>8 DEF First, Tasks, Places
  <2>3. Snapshot' = {"c1", "c3"} /\ getters = {"c2"}
    BY <1>2, <1>8, <2>2 DEF First
  <2>4. Second'
    BY <1>1, <1>2, <1>5, <1>8, <2>1, <2>2, <2>3 DEF First, Second
  <2> QED
    BY <1>2, <1>3, <1>6, <1>8, <2>4 DEF LoopInv, Turns
<1>9. CASE n = 2 /\ Second
  <2>1. Ran(1)' = Ran(1) /\ Ran(2)' = Ran(2)
    BY <1>3, <1>9
  <2>2. Rest'
    BY <1>1, <1>2, <1>9, <2>1 DEF Second, Rest
  <2>3. CASE Late
    <3>1. ThirdIfLate'
      BY <1>1, <1>2, <1>9, <2>2, <2>3 DEF Second, ThirdIfLate
    <3> QED
      BY <1>2, <1>3, <1>5, <1>6, <1>9, <2>3, <3>1 DEF LoopInv, Turns
  <2>4. CASE ~Late
    <3>1. Last'
      BY <1>1, <1>2, <1>3, <1>9, <2>2, <2>4 DEF Second, Last
    <3> QED
      BY <1>2, <1>3, <1>5, <1>6, <1>9, <2>4, <3>1 DEF LoopInv, Turns
  <2> QED
    BY <2>3, <2>4
<1>10. CASE n = 3 /\ Late /\ ThirdIfLate
  <2>1. Ran(1)' = Ran(1) /\ Ran(2)' = Ran(2)
    BY <1>3, <1>10
  <2>2. Rest'
    BY <1>1, <1>10, <2>1 DEF ThirdIfLate, Rest
  <2>3. Last'
    BY <1>1, <1>2, <1>3, <1>10, <2>2 DEF ThirdIfLate, Last
  <2> QED
    BY <1>2, <1>3, <1>5, <1>6, <1>10, <2>3 DEF LoopInv, Turns
<1>11. CASE Last
  BY <1>2, <1>4, <1>11 DEF Last
<1> QED
  BY <1>0, <1>7, <1>8, <1>9, <1>10, <1>11 DEF LoopInv, Turns

LEMMA WE2NextInv == LoopInv /\ [WE2Next]_allWE2Vars => LoopInv'
<1> SUFFICES ASSUME LoopInv, [WE2Next]_allWE2Vars PROVE LoopInv'
  OBVIOUS
<1>1. CASE UNCHANGED allWE2Vars
  <2>1. UNCHANGED <<ready, todo, timers, created, pc, q1, q2, getters, trace>>
    BY <1>1 DEF allWE2Vars, we2Vars, loopVars
  <2>2. Snapshot' = Snapshot /\ Later' = Later /\ (Late' <=> Late) /\ (QueueOK' <=> QueueOK)
    BY <2>1 DEF Snapshot, Later, Late, QueueOK, Unique
  <2>3. Ran(1)' = Ran(1) /\ Ran(2)' = Ran(2)
    BY <2>1 DEF Ran, DispatchedIn
  <2>4. WE2TypeOK'
    BY <2>1 DEF LoopInv, WE2TypeOK
  <2>5. /\ Untouched' <=> Untouched
        /\ Rest' <=> Rest
    BY <2>1, <2>3 DEF Untouched, Rest
  <2>6. /\ First' <=> First
        /\ Second' <=> Second
    BY <2>1, <2>2, <2>3 DEF First, Second
  <2>7. /\ ThirdIfLate' <=> ThirdIfLate
        /\ Last' <=> Last
    BY <2>1, <2>2, <2>5 DEF ThirdIfLate, Last
  <2> QED
    BY <2>1, <2>2, <2>4, <2>5, <2>6, <2>7 DEF LoopInv, Turns
<1> QED
  BY <1>1, C0PutsInv, C1GetsInv, C1WaitsInv, C1PutsInv, C2GetsInv, C2WaitsInv, C3SleepsInv,
     C3EndsInv, NextIterationInv
     DEF WE2Next, WE2Over

(***************************************************************************)
(* The order within an iteration: c1 and c3 go into the second in the      *)
(* order in which they were created.                                       *)
(***************************************************************************)
BehindInOrder ==
  \A i, j \in todo + 1..Len(ready) :
    ready[i] = Step("c1") /\ ready[j] = Step("c3") /\ pc["c1"] = "sleeping" =>
      (i < j <=> Before(created, "c1", "c3"))

OrderInv ==
  /\ Len(trace) = 1 => Len(trace[1]) = Len(created) - todo /\ BehindInOrder
  /\ Len(trace) = 2 /\ ~Late =>
       /\ todo <= 2 /\ Len(trace[2]) = 2 - todo
       /\ \A i \in 1..todo : ready[i] = Step(SecondOrder(created)[2 - todo + i])

WE2Inv == LoopInv /\ OrderInv

LEMMA OrderKept ==
  ASSUME WE2Inv, NEW c \in Tasks, NEW where \in Places, NEW new, NEW W, Resume(c, new, where),
         \/ new = <<>> /\ W = {}
         \/ \E d \in Tasks : /\ new = <<Step(d)>> /\ W = {d}
                             /\ d = c \/ d \notin Snapshot \union Later,
         c = "c1" /\ where = "sleeping" => W = {"c1"},
         "c1" \in W => c = "c1" \/ pc["c1"] # "sleeping",
         "c3" \in W => c = "c3",
         LoopInv'
  PROVE  OrderInv'
<1>1. /\ QueueOK /\ QueueOK' /\ todo' = todo - 1 /\ todo > 0 /\ ready[1] = Step(c)
      /\ \A i \in 1..todo' : ready'[i] = ready[i + 1]
      /\ \A i \in 1..Len(ready) - 1 : ready'[i] = ready[i + 1]
      /\ \/ W = {} /\ Len(ready') = Len(ready) - 1
         \/ /\ Len(ready') = Len(ready)
            /\ \E d \in W : ready'[Len(ready)] = Step(d)
      /\ c \in Snapshot /\ c \notin Later
      /\ Len(trace) \in 1..4 /\ Len(trace') = Len(trace)
      /\ Len(trace'[Len(trace)]) = Len(trace[Len(trace)]) + 1
      /\ pc'[c] = where
      /\ \A d \in Tasks : d # c => pc'[d] = pc[d]
      /\ created' = created /\ (Late' <=> Late)
  BY Resumed DEF WE2Inv, LoopInv
<1>2. todo \in Nat /\ Len(ready) \in Nat /\ todo <= Len(ready) /\ Len(created) \in Nat
  <2>1. created \in Orders
    BY DEF WE2Inv, LoopInv, WE2TypeOK
  <2> QED
    BY <1>1, <2>1, CreatedOnce DEF QueueOK
<1>3. ASSUME Len(trace) = 1
      PROVE  Len(trace'[1]) = Len(created') - todo' /\ BehindInOrder'
  <2>1. First /\ Len(trace[1]) = Len(created) - todo /\ BehindInOrder
    BY <1>3 DEF WE2Inv, LoopInv, OrderInv, Turns
  <2>2. Len(trace'[1]) = Len(created') - todo'
    BY <1>1, <1>2, <1>3, <2>1
  <2>3. SUFFICES ASSUME NEW i \in todo' + 1..Len(ready'), NEW j \in todo' + 1..Len(ready'),
                        ready'[i] = Step("c1"), ready'[j] = Step("c3"), pc'["c1"] = "sleeping"
                 PROVE  i < j <=> Before(created, "c1", "c3")
    BY <1>1, <2>2 DEF BehindInOrder
  <2>4. \A k \in todo' + 1..Len(ready') :
          \/ /\ k + 1 \in todo + 1..Len(ready) /\ ready[k + 1] = ready'[k]
          \/ /\ k = Len(ready) /\ \E d \in W : ready'[k] = Step(d)
    BY <1>1, <1>2
  <2>5. \A x, y : Step(x) = Step(y) => x = y
    BY HandlesDiffer
  <2>6. ASSUME NEW k \in todo + 1..Len(ready), NEW d \in Tasks, ready[k] = Step(d)
        PROVE  d # c /\ d \notin Snapshot
    <3>1. d \in Later
      BY <2>6 DEF Later
    <3>2. d \notin Snapshot
      BY <2>1, <3>1 DEF First, Tasks
    <3> QED
      BY <1>1, <3>1, <3>2
  <2>7. CASE i + 1 \in todo + 1..Len(ready) /\ j + 1 \in todo + 1..Len(ready)
             /\ ready[i + 1] = ready'[i] /\ ready[j + 1] = ready'[j]
    <3>1. pc["c1"] = "sleeping"
      BY <1>1, <2>3, <2>6, <2>7 DEF Tasks
    <3>2. i + 1 < j + 1 <=> Before(created, "c1", "c3")
      BY <2>1, <2>3, <2>7, <3>1 DEF BehindInOrder
    <3> QED
      BY <1>1, <1>2, <3>2
  <2>8. CASE i = Len(ready) /\ "c1" \in W /\ j + 1 \in todo + 1..Len(ready) /\ ready[j + 1] = ready'[j]
    <3>1. c = "c1"
      BY <1>1, <2>3, <2>8 DEF Tasks
    <3>2. "c3" \notin Snapshot
      BY <2>3, <2>6, <2>8 DEF Tasks
    <3>3. ~Before(created, "c1", "c3")
      BY <1>1, <2>1, <3>1, <3>2, FirstOrder DEF WE2Inv, Tasks
    <3> QED
      BY <1>2, <2>8, <3>3
  <2>9. CASE j = Len(ready) /\ "c3" \in W /\ i + 1 \in todo + 1..Len(ready) /\ ready[i + 1] = ready'[i]
    <3>1. c = "c3"
      BY <2>9
    <3>2. "c1" \notin Snapshot
      BY <2>3, <2>6, <2>9 DEF Tasks
    <3>3. Before(created, "c1", "c3")
      BY <1>1, <2>1, <3>1, <3>2, FirstOrder DEF WE2Inv, Tasks
    <3> QED
      BY <1>2, <2>9, <3>3
  <2>10. \/ /\ i + 1 \in todo + 1..Len(ready) /\ ready[i + 1] = ready'[i]
         \/ i = Len(ready) /\ "c1" \in W
    BY <2>3, <2>4, <2>5
  <2>11. \/ /\ j + 1 \in todo + 1..Len(ready) /\ ready[j + 1] = ready'[j]
         \/ j = Len(ready) /\ "c3" \in W
    BY <2>3, <2>4, <2>5
  <2>12. ~(i = Len(ready) /\ j = Len(ready))
    BY <2>3, <2>5
  <2> QED
    BY <2>7, <2>8, <2>9, <2>10, <2>11, <2>12
<1>4. ASSUME Len(trace) = 2, ~Late
      PROVE  /\ todo' <= 2 /\ Len(trace'[2]) = 2 - todo'
             /\ \A i \in 1..todo' : ready'[i] = Step(SecondOrder(created)[2 - todo' + i])
  <2>1. /\ todo <= 2 /\ Len(trace[2]) = 2 - todo
        /\ \A i \in 1..todo : ready[i] = Step(SecondOrder(created)[2 - todo + i])
    BY <1>4 DEF WE2Inv, OrderInv
  <2>2. ASSUME NEW i \in 1..todo'
        PROVE  ready'[i] = Step(SecondOrder(created)[2 - todo' + i])
    <3>1. i + 1 \in 1..todo /\ 2 - todo + (i + 1) = 2 - todo' + i
      BY <1>1, <1>2
    <3>2. ready[i + 1] = Step(SecondOrder(created)[2 - todo + (i + 1)])
      BY <2>1, <3>1
    <3> QED
      BY <1>1, <3>1, <3>2
  <2> QED
    BY <1>1, <1>2, <1>4, <2>1, <2>2
<1> QED
  BY <1>1, <1>3, <1>4 DEF OrderInv

LEMMA OrderNextIteration ==
  ASSUME WE2Inv, NextIteration, LoopInv'
  PROVE  OrderInv'
<1>0. PICK n \in Nat : n = Len(trace)
  BY DEF WE2Inv, LoopInv, WE2TypeOK
<1>1. /\ StartIteration /\ timers = {} /\ QueueOK /\ LoopInv
      /\ trace \in Seq(Seq(Tasks)) /\ trace' = Append(trace, <<>>)
      /\ UNCHANGED <<created, pc>>
  BY DEF NextIteration, WE2Inv, LoopInv, WE2TypeOK
<1>2. /\ ready' = ready /\ todo' = Len(ready) /\ todo = 0 /\ Snapshot = {}
  BY <1>1, IterationTakesAll
<1>3. /\ Len(trace') = n + 1 /\ trace'[n + 1] = <<>>
  BY <1>0, <1>1, NewRecord
<1>4. Late' <=> Late
  BY <1>1 DEF Late
<1>5. ASSUME n = 0
      PROVE  Len(trace'[1]) = Len(created') - todo' /\ BehindInOrder'
  <2>1. Untouched
    BY <1>0, <1>1, <1>5 DEF LoopInv, Turns
  <2>2. created \in Seq(Tasks)
    BY <1>1, CreatedOnce DEF LoopInv, WE2TypeOK
  <2>3. Len(ready) = Len(created) /\ Len(created) \in Nat
    <3>1. ready = [i \in 1..Len(created) |-> Step(created[i])] /\ Len(created) \in Nat
      BY <2>1, <2>2 DEF Untouched
    <3> QED
      BY <3>1
  <2>4. Len(trace'[1]) = 0
    BY <1>3, <1>5
  <2>5. BehindInOrder'
    BY <1>1, <1>2, <2>3 DEF BehindInOrder
  <2> QED
    BY <1>1, <1>2, <2>3, <2>4, <2>5
<1>6. ASSUME n = 1, ~Late
      PROVE  /\ todo' <= 2 /\ Len(trace'[2]) = 2 - todo'
             /\ \A i \in 1..todo' : ready'[i] = Step(SecondOrder(created)[2 - todo' + i])
  <2>1. First /\ BehindInOrder
    BY <1>0, <1>1, <1>6 DEF LoopInv, WE2Inv, OrderInv, Turns
  <2>2. Later = {"c1", "c3"} /\ pc["c1"] = "sleeping"
    <3>1. pc["c0"] # "start" /\ pc["c1"] # "start" /\ pc["c3"] # "start"
      BY <1>2, <2>1 DEF First, Tasks
    <3>2. pc["c1"] \in Places
      BY <1>1 DEF LoopInv, WE2TypeOK, Places, Tasks
    <3>3. pc["c1"] = "sleeping" /\ pc["c3"] = "sleeping"
      BY <1>6, <2>1, <3>1, <3>2 DEF First, Places
    <3> QED
      BY <2>1, <3>3 DEF First
  <2>3. Len(ready) \in Nat /\ \A k, l \in 1..Len(ready) : ready[k] = ready[l] => k = l
    BY <1>1 DEF QueueOK, Unique
  <2>4. PICK p \in 1..Len(ready) : ready[p] = Step("c1")
    BY <1>2, <2>2 DEF Later
  <2>5. PICK q \in 1..Len(ready) : ready[q] = Step("c3")
    BY <1>2, <2>2 DEF Later
  <2>6. p # q
    BY <2>4, <2>5, HandlesDiffer
  <2>7. \A k \in 1..Len(ready) : k = p \/ k = q
    <3>1. SUFFICES ASSUME NEW k \in 1..Len(ready) PROVE k = p \/ k = q
      OBVIOUS
    <3>2. ready[k] \in Handles
      BY <1>1 DEF QueueOK
    <3>3. PICK d \in Tasks : ready[k] = Step(d)
      BY <3>2 DEF Handles
    <3>4. d \in Later
      BY <1>2, <3>3 DEF Later
    <3>5. ready[k] = ready[p] \/ ready[k] = ready[q]
      BY <2>2, <2>4, <2>5, <3>3, <3>4
    <3> QED
      BY <2>3, <3>5
  <2>8. Len(ready) = 2
    <3> DEFINE m == Len(ready)
    <3>0. m \in Nat
      BY <2>3
    <3>1. Len(ready) >= 2
      BY <2>3, <2>4, <2>5, <2>6
    <3>2. ~(Len(ready) >= 3)
      <4> SUFFICES ASSUME Len(ready) >= 3 PROVE FALSE
        OBVIOUS
      <4>1. 1 \in 1..Len(ready) /\ 2 \in 1..Len(ready) /\ 3 \in 1..Len(ready)
        BY <2>3
      <4>2. (1 = p \/ 1 = q) /\ (2 = p \/ 2 = q) /\ (3 = p \/ 3 = q)
        BY <2>7, <4>1
      <4>3. p \in Nat /\ q \in Nat
        BY <2>3
      <4> QED
        BY <4>2, <4>3
    <3>3. m >= 2 /\ ~(m >= 3)
      BY <3>1, <3>2
    <3> HIDE DEF m
    <3>4. m = 2
      BY <3>0, <3>3
    <3> QED
      BY <3>4 DEF m
  <2>9. p < q <=> Before(created, "c1", "c3")
    BY <1>2, <2>1, <2>2, <2>4, <2>5 DEF BehindInOrder
  <2>10. \/ p = 1 /\ q = 2 /\ Before(created, "c1", "c3")
         \/ p = 2 /\ q = 1 /\ ~Before(created, "c1", "c3")
    BY <2>4, <2>5, <2>6, <2>8, <2>9
  <2>11. ready[1] = Step(SecondOrder(created)[1]) /\ ready[2] = Step(SecondOrder(created)[2])
    BY <2>4, <2>5, <2>10 DEF SecondOrder
  <2> QED
    BY <1>2, <1>3, <1>6, <2>8, <2>11
<1> QED
  BY <1>0, <1>1, <1>3, <1>4, <1>5, <1>6 DEF OrderInv

LEMMA WE2InitOrder == WE2Init => WE2Inv
<1> SUFFICES ASSUME WE2Init PROVE WE2Inv
  OBVIOUS
<1>1. Len(trace) = 0
  BY DEF WE2Init
<1> QED
  BY <1>1, WE2InitInv DEF WE2Inv, OrderInv

LEMMA WE2NextOrder == WE2Inv /\ [WE2Next]_allWE2Vars => WE2Inv'
<1> SUFFICES ASSUME WE2Inv, [WE2Next]_allWE2Vars PROVE OrderInv' /\ LoopInv'
  BY DEF WE2Inv
<1>1. LoopInv /\ LoopInv'
  BY WE2NextInv DEF WE2Inv
<1>2. CASE UNCHANGED allWE2Vars
  BY <1>1, <1>2 DEF allWE2Vars, we2Vars, loopVars, WE2Inv, OrderInv, BehindInOrder, Late
<1>3. CASE C0Puts
  <2> DEFINE W == {c \in {"c1"} : c \in getters}
  <2>1. Resume("c0", Wakes("c1"), "done") /\ pc["c0"] = "start"
    BY <1>3 DEF C0Puts
  <2>2. Len(trace) # 0
    <3>1. todo > 0
      BY <2>1 DEF Resume, RunHandle
    <3>2. ~Untouched
      BY <3>1 DEF Untouched
    <3> QED
      BY <1>1, <3>2 DEF LoopInv, Turns
  <2>3. First
    BY <1>1, <2>1, <2>2 DEF LoopInv, Turns, Second, Rest, ThirdIfLate, Last
  <2>4. \/ Wakes("c1") = <<>> /\ W = {}
        \/ \E d \in Tasks : /\ Wakes("c1") = <<Step(d)>> /\ W = {d}
                            /\ d = "c0" \/ d \notin Snapshot \union Later
    BY <2>1, <2>3 DEF First, Wakes, Tasks
  <2>5. ("c1" \in W => pc["c1"] # "sleeping") /\ "c3" \notin W
    BY <2>3 DEF First
  <2>6. "c0" \in Tasks /\ "done" \in Places
    BY DEF Tasks, Places
  <2> HIDE DEF W
  <2> QED
    BY <1>1, <2>1, <2>4, <2>5, <2>6, OrderKept
<1>4. CASE C1Gets
  <2>1. Resume("c1", <<Step("c1")>>, "sleeping")
    BY <1>4 DEF C1Gets
  <2>2. /\ "c1" \in Tasks /\ "sleeping" \in Places
        /\ \E d \in Tasks : /\ <<Step("c1")>> = <<Step(d)>> /\ {"c1"} = {d}
                            /\ d = "c1" \/ d \notin Snapshot \union Later
    BY DEF Tasks, Places
  <2> QED
    BY <1>1, <2>1, <2>2, OrderKept
<1>5. CASE C1Puts
  <2> DEFINE W == {c \in {"c2"} : c \in getters}
  <2>1. Resume("c1", Wakes("c2"), "done") /\ pc["c1"] = "sleeping"
    BY <1>5 DEF C1Puts
  <2>2. "c2" \in getters => "c2" \notin Snapshot \union Later
    BY <1>1, <2>1 DEF LoopInv, Turns, Untouched, First, Second, Rest, ThirdIfLate, Last, Tasks
  <2>3. \/ Wakes("c2") = <<>> /\ W = {}
        \/ \E d \in Tasks : /\ Wakes("c2") = <<Step(d)>> /\ W = {d}
                            /\ d = "c1" \/ d \notin Snapshot \union Later
    BY <2>2 DEF Wakes, Tasks
  <2>4. "c1" \notin W /\ "c3" \notin W /\ "c1" \in Tasks /\ "done" \in Places
    BY DEF Tasks, Places
  <2> HIDE DEF W
  <2> QED
    BY <1>1, <2>1, <2>3, <2>4, OrderKept
<1>6. CASE C3Sleeps
  <2>1. Resume("c3", <<Step("c3")>>, "sleeping")
    BY <1>6 DEF C3Sleeps
  <2>2. /\ "c3" \in Tasks /\ "sleeping" \in Places
        /\ \E d \in Tasks : /\ <<Step("c3")>> = <<Step(d)>> /\ {"c3"} = {d}
                            /\ d = "c3" \/ d \notin Snapshot \union Later
    BY DEF Tasks, Places
  <2> QED
    BY <1>1, <2>1, <2>2, OrderKept
<1>7. ASSUME NEW c \in Tasks, NEW where \in {"getting", "done"}, Resume(c, <<>>, where)
      PROVE  OrderInv'
  <2> DEFINE W == {}
  <2>1. /\ <<>> = <<>> /\ W = {} /\ where \in Places /\ where # "sleeping"
        /\ "c1" \notin W /\ "c3" \notin W
    BY DEF Places
  <2> HIDE DEF W
  <2> QED
    BY <1>1, <1>7, <2>1, OrderKept
<1>8. CASE C1Waits \/ C2Gets \/ C2Waits \/ C3Ends
  <2>1. \/ Resume("c1", <<>>, "getting") \/ Resume("c2", <<>>, "done")
        \/ Resume("c2", <<>>, "getting") \/ Resume("c3", <<>>, "done")
    BY <1>8 DEF C1Waits, C2Gets, C2Waits, C3Ends
  <2>2. "c1" \in Tasks /\ "c2" \in Tasks /\ "c3" \in Tasks
    BY DEF Tasks
  <2> QED
    BY <1>1, <1>7, <2>1, <2>2
<1> QED
  BY <1>1, <1>2, <1>3, <1>4, <1>5, <1>6, <1>8, OrderNextIteration DEF WE2Next, WE2Over

(* Type correctness of the program on the event loop. *)
THEOREM LoopTypeCorrect == WE2Spec => []WE2TypeOK
<1>1. LoopInv => WE2TypeOK
  BY DEF LoopInv
<1> QED
  BY <1>1, WE2InitInv, WE2NextInv, PTL DEF WE2Spec

(***************************************************************************)
(* Claim 3 on the event loop: the second iteration runs c1 and c3 and no   *)
(* other, the last runs c2, whatever the order of creation; and the order  *)
(* of c0 and c1 alone decides how many iterations there are.               *)
(***************************************************************************)
THEOREM ReadySetsAreFixed == WE2Spec => []ReadySets
<1>1. LoopInv => ReadySets
  <2> SUFFICES ASSUME LoopInv, LoopDone PROVE ReadySets
    BY DEF ReadySets
  <2>1. Snapshot = {} /\ Later = {} /\ todo = 0 /\ ready = <<>>
    BY NothingQueued DEF LoopDone
  <2>2. ~Untouched
    <3>1. /\ created \in Seq(Tasks) /\ DOMAIN created = 1..Len(created) /\ Len(created) \in Nat
          /\ \E i \in 1..Len(created) : created[i] = "c0"
      BY CreatedOnce DEF LoopInv, WE2TypeOK, Tasks
    <3>2. ASSUME Untouched PROVE FALSE
      <4>1. DOMAIN ready = 1..Len(created)
        BY <3>1, <3>2 DEF Untouched
      <4> QED
        BY <2>1, <3>1, <4>1
    <3> QED
      BY <3>2
  <2>3. ~(Len(trace) = 1 /\ First)
    BY <2>1 DEF LoopInv, WE2TypeOK, First, Tasks
  <2>4. ~(Len(trace) = 2 /\ Second) /\ ~ThirdIfLate
    BY <2>1 DEF Second, ThirdIfLate
  <2>5. Len(trace) = (IF Late THEN 4 ELSE 3) /\ Last
    BY <2>2, <2>3, <2>4 DEF LoopInv, Turns
  <2>6. trace[Len(trace)] = <<"c2">> /\ Ran(1) = Tasks /\ Ran(2) = {"c1", "c3"}
    BY <2>1, <2>5 DEF Last, Rest
  <2> QED
    BY <2>5, <2>6 DEF ReadySets, Ran, Late
<1> QED
  BY <1>1, WE2InitInv, WE2NextInv, PTL DEF WE2Spec

(***************************************************************************)
(* The loop and the interpreter.                                           *)
(***************************************************************************)
LEMMA EitherOrder ==
  ASSUME created \in Orders, NEW c \in Tasks, NEW d \in Tasks, c # d
  PROVE  Before(created, c, d) <=> ~Before(created, d, c)
<1>1. /\ DOMAIN created = 1..Len(created) /\ Len(created) \in Nat
      /\ \A i, j \in 1..Len(created) : created[i] = created[j] => i = j
  BY CreatedOnce
<1>2. PICK k \in 1..Len(created) : created[k] = c
  BY CreatedOnce
<1>3. PICK l \in 1..Len(created) : created[l] = d
  BY CreatedOnce
<1>4. Before(created, c, d) <=> k < l
  BY <1>1, <1>2, <1>3 DEF Before
<1>5. Before(created, d, c) <=> l < k
  BY <1>1, <1>2, <1>3 DEF Before
<1>6. k # l
  BY <1>2, <1>3
<1> QED
  BY <1>1, <1>4, <1>5, <1>6

LEMMA C1AtIs ==
  ASSUME created \in Orders
  PROVE  C1At \in 1..Len(created) /\ created[C1At] = "c1"
<1>1. DOMAIN created = 1..Len(created) /\ \E i \in 1..Len(created) : created[i] = "c1"
  BY CreatedOnce DEF Tasks
<1> QED
  BY <1>1 DEF C1At

\* The flags, as propositions.
LEMMA RunStType ==
  /\ RunSt = [f \in Interpreter!Flags |-> RunSt[f]]
  /\ \A f \in Interpreter!Flags : RunSt[f] \in BOOLEAN
  /\ ~GivesUp =>
       /\ RunSt["q1put"] <=> pc["c0"] = "done"
       /\ RunSt["c1AteQ1"] <=> pc["c1"] \in {"sleeping", "done"}
       /\ RunSt["q2put"] <=> pc["c1"] = "done"
       /\ RunSt["c3Slept"] <=> pc["c3"] # "start"
       /\ RunSt["c3Done"] <=> pc["c3"] = "done"
       /\ RunSt["c2Ran"] <=> pc["c2"] # "start"
<1> DEFINE F == {"q1put", "c1AteQ1", "q2put", "c3Slept", "c3Done", "c2Ran"}
<1>1. Interpreter!Flags = F
  BY DEF Interpreter!Flags
<1>2. CASE GivesUp
  <2>1. RunSt = [q1put |-> FALSE, c1AteQ1 |-> FALSE, q2put |-> FALSE,
               c3Slept |-> Before(created, "c3", "c1"), c3Done |-> FALSE,
               c2Ran |-> Before(created, "c2", "c1")]
    BY <1>2 DEF RunSt
  <2>2. Before(created, "c3", "c1") \in BOOLEAN /\ Before(created, "c2", "c1") \in BOOLEAN
    BY DEF Before
  <2>3. RunSt = [f \in F |-> RunSt[f]]
    BY <2>1
  <2>4. /\ RunSt["q1put"] = FALSE /\ RunSt["c1AteQ1"] = FALSE /\ RunSt["q2put"] = FALSE
        /\ RunSt["c3Slept"] = Before(created, "c3", "c1") /\ RunSt["c3Done"] = FALSE
        /\ RunSt["c2Ran"] = Before(created, "c2", "c1")
    BY <2>1
  <2>5. /\ RunSt["q1put"] \in BOOLEAN /\ RunSt["c1AteQ1"] \in BOOLEAN
        /\ RunSt["q2put"] \in BOOLEAN /\ RunSt["c3Slept"] \in BOOLEAN
        /\ RunSt["c3Done"] \in BOOLEAN /\ RunSt["c2Ran"] \in BOOLEAN
    BY <2>2, <2>4, Zenon
  <2>6. \A f \in F : RunSt[f] \in BOOLEAN
    BY <2>5, Zenon
  <2> QED
    BY <1>1, <1>2, <2>3, <2>6
<1>3. CASE ~GivesUp
  <2>1. RunSt = [q1put   |-> pc["c0"] = "done",
               c1AteQ1 |-> pc["c1"] \in {"sleeping", "done"},
               q2put   |-> pc["c1"] = "done",
               c3Slept |-> pc["c3"] # "start",
               c3Done  |-> pc["c3"] = "done",
               c2Ran   |-> pc["c2"] # "start"]
    BY <1>3 DEF RunSt
  <2>2. RunSt = [f \in F |-> RunSt[f]]
    BY <2>1
  <2>3. /\ RunSt["q1put"] = (pc["c0"] = "done")
        /\ RunSt["c1AteQ1"] = (pc["c1"] \in {"sleeping", "done"})
        /\ RunSt["q2put"] = (pc["c1"] = "done")
        /\ RunSt["c3Slept"] = (pc["c3"] # "start")
        /\ RunSt["c3Done"] = (pc["c3"] = "done")
        /\ RunSt["c2Ran"] = (pc["c2"] # "start")
    BY <2>1
  <2>4. /\ RunSt["q1put"] \in BOOLEAN /\ RunSt["c1AteQ1"] \in BOOLEAN
        /\ RunSt["q2put"] \in BOOLEAN /\ RunSt["c3Slept"] \in BOOLEAN
        /\ RunSt["c3Done"] \in BOOLEAN /\ RunSt["c2Ran"] \in BOOLEAN
    <3>1. RunSt["q1put"] \in BOOLEAN
      <4>1. (pc["c0"] = "done") \in BOOLEAN
        OBVIOUS
      <4> QED
        BY <2>3, <4>1
    <3>2. RunSt["c1AteQ1"] \in BOOLEAN
      <4>1. (pc["c1"] \in {"sleeping", "done"}) \in BOOLEAN
        OBVIOUS
      <4> QED
        BY <2>3, <4>1
    <3>3. RunSt["q2put"] \in BOOLEAN
      <4>1. (pc["c1"] = "done") \in BOOLEAN
        OBVIOUS
      <4> QED
        BY <2>3, <4>1
    <3>4. RunSt["c3Slept"] \in BOOLEAN
      <4>1. (pc["c3"] # "start") \in BOOLEAN
        OBVIOUS
      <4> QED
        BY <2>3, <4>1
    <3>5. RunSt["c3Done"] \in BOOLEAN
      <4>1. (pc["c3"] = "done") \in BOOLEAN
        OBVIOUS
      <4> QED
        BY <2>3, <4>1
    <3>6. RunSt["c2Ran"] \in BOOLEAN
      <4>1. (pc["c2"] # "start") \in BOOLEAN
        OBVIOUS
      <4> QED
        BY <2>3, <4>1
    <3> QED
      BY <3>1, <3>2, <3>3, <3>4, <3>5, <3>6
  <2>5. \A f \in F : RunSt[f] \in BOOLEAN
    BY <2>4, Zenon
  <2> QED
    BY <1>1, <1>3, <2>2, <2>3, <2>5
<1> QED
  BY <1>2, <1>3

LEMMA RunStNext ==
  /\ RunSt' = [f \in Interpreter!Flags |-> RunSt'[f]]
  /\ \A f \in Interpreter!Flags : RunSt'[f] \in BOOLEAN
  /\ ~GivesUp' =>
       /\ RunSt'["q1put"] <=> pc'["c0"] = "done"
       /\ RunSt'["c1AteQ1"] <=> pc'["c1"] \in {"sleeping", "done"}
       /\ RunSt'["q2put"] <=> pc'["c1"] = "done"
       /\ RunSt'["c3Slept"] <=> pc'["c3"] # "start"
       /\ RunSt'["c3Done"] <=> pc'["c3"] = "done"
       /\ RunSt'["c2Ran"] <=> pc'["c2"] # "start"
<1> DEFINE F == {"q1put", "c1AteQ1", "q2put", "c3Slept", "c3Done", "c2Ran"}
<1>1. Interpreter!Flags = F
  BY DEF Interpreter!Flags
<1>2. CASE GivesUp'
  <2>1. RunSt' = [q1put |-> FALSE, c1AteQ1 |-> FALSE, q2put |-> FALSE,
               c3Slept |-> Before(created, "c3", "c1")', c3Done |-> FALSE,
               c2Ran |-> Before(created, "c2", "c1")']
    BY <1>2 DEF RunSt
  <2>2. Before(created, "c3", "c1")' \in BOOLEAN /\ Before(created, "c2", "c1")' \in BOOLEAN
    BY DEF Before
  <2>3. RunSt' = [f \in F |-> RunSt'[f]]
    BY <2>1
  <2>4. /\ RunSt'["q1put"] = FALSE /\ RunSt'["c1AteQ1"] = FALSE /\ RunSt'["q2put"] = FALSE
        /\ RunSt'["c3Slept"] = Before(created, "c3", "c1")' /\ RunSt'["c3Done"] = FALSE
        /\ RunSt'["c2Ran"] = Before(created, "c2", "c1")'
    BY <2>1
  <2>5. /\ RunSt'["q1put"] \in BOOLEAN /\ RunSt'["c1AteQ1"] \in BOOLEAN
        /\ RunSt'["q2put"] \in BOOLEAN /\ RunSt'["c3Slept"] \in BOOLEAN
        /\ RunSt'["c3Done"] \in BOOLEAN /\ RunSt'["c2Ran"] \in BOOLEAN
    BY <2>2, <2>4, Zenon
  <2>6. \A f \in F : RunSt'[f] \in BOOLEAN
    BY <2>5, Zenon
  <2> QED
    BY <1>1, <1>2, <2>3, <2>6
<1>3. CASE ~GivesUp'
  <2>1. RunSt' = [q1put   |-> pc'["c0"] = "done",
               c1AteQ1 |-> pc'["c1"] \in {"sleeping", "done"},
               q2put   |-> pc'["c1"] = "done",
               c3Slept |-> pc'["c3"] # "start",
               c3Done  |-> pc'["c3"] = "done",
               c2Ran   |-> pc'["c2"] # "start"]
    BY <1>3 DEF RunSt
  <2>2. RunSt' = [f \in F |-> RunSt'[f]]
    BY <2>1
  <2>3. /\ RunSt'["q1put"] = (pc'["c0"] = "done")
        /\ RunSt'["c1AteQ1"] = (pc'["c1"] \in {"sleeping", "done"})
        /\ RunSt'["q2put"] = (pc'["c1"] = "done")
        /\ RunSt'["c3Slept"] = (pc'["c3"] # "start")
        /\ RunSt'["c3Done"] = (pc'["c3"] = "done")
        /\ RunSt'["c2Ran"] = (pc'["c2"] # "start")
    BY <2>1
  <2>4. /\ RunSt'["q1put"] \in BOOLEAN /\ RunSt'["c1AteQ1"] \in BOOLEAN
        /\ RunSt'["q2put"] \in BOOLEAN /\ RunSt'["c3Slept"] \in BOOLEAN
        /\ RunSt'["c3Done"] \in BOOLEAN /\ RunSt'["c2Ran"] \in BOOLEAN
    <3>1. RunSt'["q1put"] \in BOOLEAN
      <4>1. (pc'["c0"] = "done") \in BOOLEAN
        OBVIOUS
      <4> QED
        BY <2>3, <4>1
    <3>2. RunSt'["c1AteQ1"] \in BOOLEAN
      <4>1. (pc'["c1"] \in {"sleeping", "done"}) \in BOOLEAN
        OBVIOUS
      <4> QED
        BY <2>3, <4>1
    <3>3. RunSt'["q2put"] \in BOOLEAN
      <4>1. (pc'["c1"] = "done") \in BOOLEAN
        OBVIOUS
      <4> QED
        BY <2>3, <4>1
    <3>4. RunSt'["c3Slept"] \in BOOLEAN
      <4>1. (pc'["c3"] # "start") \in BOOLEAN
        OBVIOUS
      <4> QED
        BY <2>3, <4>1
    <3>5. RunSt'["c3Done"] \in BOOLEAN
      <4>1. (pc'["c3"] = "done") \in BOOLEAN
        OBVIOUS
      <4> QED
        BY <2>3, <4>1
    <3>6. RunSt'["c2Ran"] \in BOOLEAN
      <4>1. (pc'["c2"] # "start") \in BOOLEAN
        OBVIOUS
      <4> QED
        BY <2>3, <4>1
    <3> QED
      BY <3>1, <3>2, <3>3, <3>4, <3>5, <3>6
  <2>5. \A f \in F : RunSt'[f] \in BOOLEAN
    BY <2>4, Zenon
  <2> QED
    BY <1>1, <1>3, <2>2, <2>3, <2>5
<1> QED
  BY <1>2, <1>3

\* One that has given up stands still.
LEMMA StandsStill ==
  ASSUME GivesUp, created' = created, pc'["c1"] # "start"
  PROVE  UNCHANGED <<RunSched, RunRound, RunPos, RunRem, RunSt, RunVerdict>>
<1>1. /\ GivesUp' /\ C1At' = C1At
      /\ \A c, d : Before(created, c, d)' = Before(created, c, d)
  BY DEF GivesUp, C1At, Before
<1>2. RunSched' = RunSched
  BY DEF RunSched
<1>3. RunRound' = RunRound /\ RunPos' = RunPos /\ RunVerdict' = RunVerdict
  BY <1>1 DEF RunRound, RunPos, RunVerdict
<1>4. RunRem' = RunRem
  BY <1>1 DEF RunRem
<1>5. RunSt' = RunSt
  BY <1>1 DEF RunSt
<1> QED
  BY <1>2, <1>3, <1>4, <1>5

\* The loop runs what the order of the iteration has next.
LEMMA EntryIs ==
  ASSUME WE2Inv, ~GivesUp, NEW c \in Tasks, ready[1] = Step(c), todo > 0,
         \/ Len(trace) = 1 /\ First
         \/ Len(trace) = 2 /\ Second /\ ~Late
  PROVE  /\ RunPos \in Nat /\ RunPos < Len(RunSched[RunRound])
         /\ Interpreter!Entry = c
         /\ RunRem = Snapshot /\ RunVerdict = "running"
         /\ RunRound = Len(trace) /\ RunPos = Len(trace[Len(trace)])
<1>1. /\ RunRound = Len(trace) /\ RunPos = Len(trace[Len(trace)])
      /\ RunRem = Snapshot /\ RunVerdict = "running"
  BY DEF RunRound, RunPos, RunRem, RunVerdict
<1>2. RunSched[1] = created /\ RunSched[2] = SecondOrder(created)
  BY DEF RunSched
<1>3. \A x, y : Step(x) = Step(y) => x = y
  BY HandlesDiffer
<1>4. todo \in Nat
  BY DEF WE2Inv, LoopInv, QueueOK
<1>5. CASE Len(trace) = 1 /\ First
  <2>1. Len(created) \in Nat
    BY CreatedOnce DEF WE2Inv, LoopInv, WE2TypeOK
  <2>2. /\ Len(trace[1]) = Len(created) - todo /\ todo <= Len(created)
        /\ ready[1] = Step(created[Len(created) - todo + 1])
    BY <1>4, <1>5 DEF WE2Inv, OrderInv, First
  <2>3. created[RunPos + 1] = c
    BY <1>1, <1>3, <1>5, <2>2
  <2> QED
    BY <1>1, <1>2, <1>4, <1>5, <2>1, <2>2, <2>3 DEF Interpreter!Entry
<1>6. CASE Len(trace) = 2 /\ Second /\ ~Late
  <2>1. /\ todo <= 2 /\ Len(trace[2]) = 2 - todo
        /\ ready[1] = Step(SecondOrder(created)[2 - todo + 1])
    BY <1>4, <1>6 DEF WE2Inv, OrderInv
  <2>2. SecondOrder(created)[RunPos + 1] = c
    BY <1>1, <1>3, <1>6, <2>1
  <2>3. Len(SecondOrder(created)) = 2
    BY DEF SecondOrder
  <2> QED
    BY <1>1, <1>2, <1>4, <1>6, <2>1, <2>2, <2>3 DEF Interpreter!Entry
<1> QED
  BY <1>5, <1>6

\* A dispatch that sets the flag the interpreter sets.
LEMMA DispatchIs ==
  ASSUME WE2Inv, WE2Inv', ~GivesUp, ~GivesUp', NEW c \in Tasks, NEW f \in Interpreter!Flags,
         ready[1] = Step(c), todo > 0, c \in Snapshot, Snapshot' = Snapshot \ {c},
         \/ Len(trace) = 1 /\ First
         \/ Len(trace) = 2 /\ Second /\ ~Late,
         Len(trace') = Len(trace), Len(trace'[Len(trace)]) = Len(trace[Len(trace)]) + 1,
         created' = created,
         Interpreter!Sets(RunSt, c) = {f},
         \A g \in Interpreter!Flags : RunSt'[g] <=> RunSt[g] \/ g = f
  PROVE  Interpreter!Dispatch
<1>1. /\ RunPos \in Nat /\ RunPos < Len(RunSched[RunRound])
      /\ Interpreter!Entry = c
      /\ RunRem = Snapshot /\ RunVerdict = "running"
      /\ RunRound = Len(trace) /\ RunPos = Len(trace[Len(trace)])
  BY EntryIs
<1>2. Interpreter!Accepts(c)
  BY <1>1 DEF Interpreter!Accepts
<1>3. RunSched' = RunSched
  BY DEF RunSched
<1>4. /\ RunRound' = RunRound /\ RunVerdict' = RunVerdict /\ RunRem' = RunRem \ {c}
      /\ RunPos' = RunPos + 1
  BY <1>1 DEF RunRound, RunPos, RunRem, RunVerdict
<1>5. RunSt' = [g \in Interpreter!Flags |-> RunSt[g] \/ g \in Interpreter!Sets(RunSt, c)]
  <2>1. /\ RunSt' = [g \in Interpreter!Flags |-> RunSt'[g]]
        /\ \A g \in Interpreter!Flags : RunSt'[g] \in BOOLEAN
    BY RunStNext
  <2>2. \A g \in Interpreter!Flags :
          RunSt'[g] = (RunSt[g] \/ g \in Interpreter!Sets(RunSt, c))
    BY <2>1
  <2> QED
    BY <2>1, <2>2
<1> QED
  BY <1>1, <1>2, <1>3, <1>4, <1>5 DEF Interpreter!Dispatch, Interpreter!Running

LEMMA SetsIs ==
  /\ ~RunSt["q1put"] => Interpreter!Sets(RunSt, "c0") = {"q1put"}
  /\ ~RunSt["c1AteQ1"] =>
       Interpreter!Sets(RunSt, "c1") = IF RunSt["q1put"] THEN {"c1AteQ1"} ELSE {}
  /\ RunSt["c1AteQ1"] /\ ~RunSt["q2put"] => Interpreter!Sets(RunSt, "c1") = {"q2put"}
  /\ ~RunSt["c2Ran"] => Interpreter!Sets(RunSt, "c2") = {"c2Ran"}
  /\ ~RunSt["c3Slept"] => Interpreter!Sets(RunSt, "c3") = {"c3Slept"}
  /\ RunSt["c3Slept"] /\ ~RunSt["c3Done"] => Interpreter!Sets(RunSt, "c3") = {"c3Done"}
BY DEF Interpreter!Sets, Interpreter!Flags

LEMMA GivesUpIs ==
  ASSUME created \in Orders
  PROVE  GivesUp <=> Late /\ pc["c1"] # "start"
BY EitherOrder DEF GivesUp, Late, Tasks

\* A step that runs c, for all that the interpreter sees of it.
Runs(c, where) ==
  /\ ready[1] = Step(c) /\ todo > 0
  /\ c \in Snapshot /\ Snapshot' = Snapshot \ {c}
  /\ Len(trace) \in 1..4 /\ Len(trace') = Len(trace)
  /\ Len(trace'[Len(trace)]) = Len(trace[Len(trace)]) + 1
  /\ \A i \in 1..Len(trace) - 1 : trace'[i] = trace[i]
  /\ pc'[c] = where /\ \A d \in Tasks : d # c => pc'[d] = pc[d]
  /\ created' = created /\ (Late' <=> Late)

LEMMA ResumeRuns ==
  ASSUME LoopInv, NEW c \in Tasks, NEW where \in Places, NEW new \in Seq(Handles),
         Resume(c, new, where)
  PROVE  Runs(c, where)
<1>1. /\ RunHandle(Step(c), new)
      /\ pc' = [pc EXCEPT ![c] = where]
      /\ trace' = [trace EXCEPT ![Len(trace)] = Append(@, c)]
      /\ created' = created
  BY DEF Resume
<1>2. /\ todo > 0 /\ ready[1] = Step(c)
      /\ c \in Snapshot /\ Snapshot' = Snapshot \ {c}
  BY <1>1, SnapshotMoves DEF LoopInv
<1>3. Len(trace) \in 1..4
  BY <1>2 DEF LoopInv, Turns, Untouched
<1>4. trace \in Seq(Seq(Tasks)) /\ pc \in [Tasks -> Places]
  BY DEF LoopInv, WE2TypeOK, Places
<1>5. /\ Len(trace') = Len(trace)
      /\ Len(trace'[Len(trace)]) = Len(trace[Len(trace)]) + 1
      /\ \A i \in 1..Len(trace) - 1 : trace'[i] = trace[i]
  <2>1. PICK n \in Nat \ {0} : n = Len(trace)
    BY <1>3
  <2>2. /\ Len(trace') = n /\ Len(trace'[n]) = Len(trace[n]) + 1
        /\ \A i \in 1..n - 1 : trace'[i] = trace[i]
    BY <1>1, <1>4, <2>1, Recorded
  <2> QED
    BY <2>1, <2>2
<1>6. /\ pc'[c] = where /\ \A d \in Tasks : d # c => pc'[d] = pc[d]
  BY <1>1, <1>4
<1>7. Late' <=> Late
  BY <1>1 DEF Late
<1> QED
  BY <1>1, <1>2, <1>3, <1>5, <1>6, <1>7 DEF Runs

LEMMA StepsRun ==
  ASSUME LoopInv
  PROVE  /\ C0Puts => Runs("c0", "done")
         /\ C1Gets => Runs("c1", "sleeping")
         /\ C1Waits => Runs("c1", "getting")
         /\ C1Puts => Runs("c1", "done")
         /\ C2Gets => Runs("c2", "done")
         /\ C2Waits => Runs("c2", "getting")
         /\ C3Sleeps => Runs("c3", "sleeping")
         /\ C3Ends => Runs("c3", "done")
<1>1. \A c \in Tasks : Step(c) \in Handles
  BY DEF Handles
<1>2. /\ "c0" \in Tasks /\ "c1" \in Tasks /\ "c2" \in Tasks /\ "c3" \in Tasks
      /\ "getting" \in Places /\ "sleeping" \in Places /\ "done" \in Places
  BY DEF Tasks, Places
<1>3. /\ <<>> \in Seq(Handles) /\ <<Step("c1")>> \in Seq(Handles)
      /\ <<Step("c3")>> \in Seq(Handles) /\ <<Step("c2")>> \in Seq(Handles)
  BY <1>1, <1>2
<1>4. Wakes("c1") \in Seq(Handles) /\ Wakes("c2") \in Seq(Handles)
  BY <1>3 DEF Wakes
<1>5. C0Puts => Runs("c0", "done")
  BY <1>2, <1>4, ResumeRuns DEF C0Puts
<1>6. C1Gets => Runs("c1", "sleeping")
  BY <1>2, <1>3, ResumeRuns DEF C1Gets
<1>7. C1Waits => Runs("c1", "getting")
  BY <1>2, <1>3, ResumeRuns DEF C1Waits
<1>8. C1Puts => Runs("c1", "done")
  BY <1>2, <1>4, ResumeRuns DEF C1Puts
<1>9. C2Gets => Runs("c2", "done")
  BY <1>2, <1>3, ResumeRuns DEF C2Gets
<1>10. C2Waits => Runs("c2", "getting")
  BY <1>2, <1>3, ResumeRuns DEF C2Waits
<1>11. C3Sleeps => Runs("c3", "sleeping")
  BY <1>2, <1>3, ResumeRuns DEF C3Sleeps
<1>12. C3Ends => Runs("c3", "done")
  BY <1>2, <1>3, ResumeRuns DEF C3Ends
<1> QED
  BY <1>5, <1>6, <1>7, <1>8, <1>9, <1>10, <1>11, <1>12

LEMMA DispatchRuns ==
  ASSUME WE2Inv, WE2Inv', ~GivesUp, ~GivesUp', NEW c \in Tasks, NEW where, Runs(c, where),
         NEW f \in Interpreter!Flags,
         \/ Len(trace) = 1 /\ First
         \/ Len(trace) = 2 /\ Second /\ ~Late,
         Interpreter!Sets(RunSt, c) = {f},
         \A g \in Interpreter!Flags : RunSt'[g] <=> RunSt[g] \/ g = f
  PROVE  Interpreter!Dispatch
BY DispatchIs DEF Runs

\* c1 has to wait: the interpreter rejects it.
LEMMA WaitIsReject ==
  ASSUME WE2Inv, WE2Inv', ~GivesUp, C1Waits
  PROVE  Interpreter!Reject
<1>1. /\ LoopInv /\ Runs("c1", "getting") /\ q1 = 0 /\ pc["c1"] \in {"start", "getting"}
      /\ created \in Orders
  BY StepsRun DEF WE2Inv, C1Waits, LoopInv, WE2TypeOK
<1>2. Len(trace) = 1 /\ First
  BY <1>1 DEF Runs, LoopInv, Turns, Untouched, First, Second, Rest, ThirdIfLate, Last
<1>3. pc["c1"] = "start" /\ pc["c0"] = "start" /\ Late
  <2>1. pc["c1"] = "start"
    BY <1>1, <1>2 DEF First, Runs
  <2>2. pc["c0"] = "start"
    BY <1>1, <1>2, <2>1 DEF First
  <2> QED
    BY <1>1, <1>2, <2>1, <2>2, C1Meets DEF Runs
<1>4. GivesUp'
  <2>1. created' = created /\ pc'["c1"] = "getting"
    BY <1>1 DEF Runs
  <2>2. GivesUp' <=> ~Before(created, "c0", "c1") /\ pc'["c1"] # "start"
    BY <2>1 DEF GivesUp
  <2>3. ~Before(created, "c0", "c1")
    BY <1>1, <1>3, EitherOrder DEF Late, Tasks
  <2> QED
    BY <2>1, <2>2, <2>3
<1>5. /\ RunPos < Len(RunSched[RunRound])
      /\ Interpreter!Entry = "c1" /\ RunRem = Snapshot /\ RunVerdict = "running"
      /\ RunRound = 1 /\ RunPos = Len(trace[1]) /\ RunPos \in Nat
  BY <1>1, <1>2, EntryIs DEF Runs, Tasks
<1>6. ~Interpreter!Accepts("c1")
  <2>1. ~RunSt["c1AteQ1"] /\ ~RunSt["q1put"]
    BY <1>3, RunStType
  <2> QED
    BY <2>1, SetsIs DEF Interpreter!Accepts
<1>7. RunVerdict' = "infeasible" /\ RunRound' = 1 /\ RunPos' = C1At' - 1
  BY <1>4 DEF RunVerdict, RunRound, RunPos
<1>8. RunSched' = RunSched
  BY <1>1 DEF RunSched, Runs
<1>9. RunPos' = RunPos
  <2>1. C1At' = C1At /\ C1At \in 1..Len(created) /\ created[C1At] = "c1"
    BY <1>1, C1AtIs DEF C1At, Runs
  <2>2. created[Len(trace[1]) + 1] = "c1"
    BY <1>5 DEF Interpreter!Entry, RunSched
  <2>3. Len(trace[1]) + 1 \in 1..Len(created)
    <3>1. RunSched[1] = created
      BY DEF RunSched
    <3> QED
      BY <1>1, <1>5, <3>1, CreatedOnce
  <2>4. Len(trace[1]) + 1 = C1At
    BY <1>1, <2>1, <2>2, <2>3, CreatedOnce
  <2> QED
    BY <1>5, <1>7, <2>1, <2>4
<1>10. \A d \in Tasks : d # "c1" => (d \notin Snapshot <=> Before(created, d, "c1"))
  BY <1>1, <1>2, FirstOrder DEF Runs, Tasks
<1>11. RunRem' = RunRem
  <2>1. RunRem' = {d \in Tasks : ~Before(created, d, "c1")}
    BY <1>1, <1>4 DEF RunRem, Runs
  <2>2. ~Before(created, "c1", "c1")
    BY <1>1, CreatedOnce DEF Before
  <2>3. "c1" \in Snapshot /\ Snapshot \subseteq Tasks
    BY <1>1 DEF Runs, Snapshot
  <2> QED
    BY <1>5, <1>10, <2>1, <2>2, <2>3
<1>12. RunSt' = RunSt
  <2>1. RunSt' = [q1put |-> FALSE, c1AteQ1 |-> FALSE, q2put |-> FALSE,
                  c3Slept |-> Before(created, "c3", "c1"), c3Done |-> FALSE,
                  c2Ran |-> Before(created, "c2", "c1")]
    BY <1>1, <1>4 DEF RunSt, Runs
  <2>2. /\ "c3" \in Snapshot <=> pc["c3"] = "start"
        /\ "c2" \in Snapshot <=> pc["c2"] = "start"
        /\ pc["c3"] # "done"
    BY <1>2 DEF First, Tasks
  <2>3. /\ Before(created, "c3", "c1") <=> pc["c3"] # "start"
        /\ Before(created, "c2", "c1") <=> pc["c2"] # "start"
    BY <1>10, <2>2 DEF Tasks
  <2>4. \A f \in Interpreter!Flags : RunSt'[f] <=> RunSt[f]
    BY <1>3, <2>1, <2>2, <2>3, RunStType DEF Interpreter!Flags
  <2> QED
    BY <2>4, RunStType, RunStNext
<1> QED
  BY <1>5, <1>6, <1>7, <1>8, <1>9, <1>11, <1>12
     DEF Interpreter!Reject, Interpreter!Running

\* A new iteration: the next round, or the end.
LEMMA IterationIs ==
  ASSUME WE2Inv, WE2Inv', ~GivesUp, NextIteration
  PROVE  \/ Interpreter!NextRound \/ Interpreter!Accept
         \/ UNCHANGED <<RunSched, RunRound, RunPos, RunRem, RunSt, RunVerdict>>
<1>0. PICK n \in Nat : n = Len(trace)
  BY DEF WE2Inv, LoopInv, WE2TypeOK
<1>1. /\ LoopInv /\ StartIteration /\ timers = {} /\ QueueOK
      /\ trace \in Seq(Seq(Tasks)) /\ trace' = Append(trace, <<>>)
      /\ created' = created /\ pc' = pc /\ created \in Orders
  BY DEF NextIteration, WE2Inv, LoopInv, WE2TypeOK
<1>2. /\ todo = 0 /\ Snapshot = {} /\ Snapshot' = Later
      /\ ready # <<>>
  BY <1>1, IterationTakesAll
<1>3. /\ Len(trace') = n + 1 /\ trace'[n + 1] = <<>>
      /\ \A i \in 1..n : trace'[i] = trace[i]
  BY <1>0, <1>1, NewRecord
<1>4. Later # {}
  BY <1>1, <1>2, SomethingQueued
<1>5. ~GivesUp' /\ RunSt' = RunSt /\ RunSched' = RunSched
  BY <1>1 DEF GivesUp, RunSt, RunSched
<1>6. CASE n = 0 /\ Untouched
  <2>1. Snapshot' = Tasks
    <3>1. pc' = [c \in Tasks |-> "start"] /\ Len(trace') = 1
      BY <1>1, <1>3, <1>6 DEF Untouched
    <3>2. First'
      BY <3>1 DEF WE2Inv, LoopInv, Turns, Second, Rest, ThirdIfLate, Last, Untouched
    <3> QED
      BY <3>1, <3>2 DEF First
  <2>2. RunRound = 1 /\ RunPos = 0 /\ RunRem = Tasks /\ RunVerdict = "running"
    BY <1>0, <1>6 DEF RunRound, RunPos, RunRem, RunVerdict
  <2>3. Len(trace') = 1 /\ trace'[1] = <<>>
    BY <1>3, <1>6
  <2>4. RunRound' = 1 /\ RunPos' = 0 /\ RunRem' = Tasks /\ RunVerdict' = "running"
    BY <1>5, <2>1, <2>3 DEF RunRound, RunPos, RunRem, RunVerdict
  <2> QED
    BY <1>5, <2>2, <2>4
<1>7. CASE n = 1 /\ First
  <2>1. pc["c1"] # "start" /\ ~Late
    <3>1. pc["c1"] # "start"
      BY <1>2, <1>7 DEF First, Tasks
    <3> QED
      BY <1>1, <3>1, GivesUpIs
  <2>2. RunRound = 1 /\ RunPos = Len(trace[1]) /\ RunRem = {} /\ RunVerdict = "running"
    BY <1>0, <1>2, <1>7 DEF RunRound, RunPos, RunRem, RunVerdict
  <2>3. Len(trace') = 2 /\ trace'[2] = <<>>
    BY <1>3, <1>7
  <2>4. RunRound' = 2 /\ RunPos' = 0 /\ RunRem' = Later /\ RunVerdict' = "running"
    BY <1>2, <1>5, <2>3 DEF RunRound, RunPos, RunRem, RunVerdict
  <2>5. RunPos = Len(RunSched[1])
    <3>1. Len(trace[1]) = Len(created) - todo /\ Len(created) \in Nat
      BY <1>0, <1>1, <1>7, CreatedOnce DEF WE2Inv, OrderInv
    <3> QED
      BY <1>2, <2>2, <3>1 DEF RunSched
  <2>6. Later = Interpreter!Q2
    <3>1. pc["c3"] = "sleeping" /\ pc["c1"] = "sleeping"
      <4>1. pc["c3"] # "start" /\ pc["c1"] # "start"
        BY <1>2, <1>7 DEF First, Tasks
      <4>2. pc["c1"] \in Places
        BY <1>1 DEF LoopInv, WE2TypeOK, Places, Tasks
      <4> QED
        BY <1>7, <2>1, <4>1, <4>2 DEF First, Places
    <3> QED
      BY <1>7, <3>1 DEF First, Interpreter!Q2
  <2> QED
    BY <1>5, <2>2, <2>4, <2>5, <2>6 DEF Interpreter!NextRound, Interpreter!Running
<1>8. CASE n = 2 /\ Second
  <2>1. ~Late
    <3>1. pc["c1"] # "start"
      BY <1>8 DEF Second
    <3> QED
      BY <1>1, <3>1, GivesUpIs
  <2>2. RunRound = 2 /\ RunPos = Len(trace[2]) /\ RunRem = {} /\ RunVerdict = "running"
    BY <1>0, <1>2, <1>8 DEF RunRound, RunPos, RunRem, RunVerdict
  <2>3. Len(trace') = 3 /\ trace'[2] = trace[2]
    BY <1>3, <1>8
  <2>4. /\ RunRound' = 2 /\ RunPos' = Len(trace[2]) /\ RunRem' = {}
        /\ RunVerdict' = "feasible"
    BY <1>5, <2>3 DEF RunRound, RunPos, RunRem, RunVerdict
  <2>5. RunPos = Len(RunSched[2])
    <3>1. Len(trace[2]) = 2 - todo
      BY <1>0, <1>8, <2>1 DEF WE2Inv, OrderInv
    <3>2. Len(SecondOrder(created)) = 2
      BY DEF SecondOrder
    <3> QED
      BY <1>2, <2>2, <3>1, <3>2 DEF RunSched
  <2> QED
    BY <1>5, <2>2, <2>4, <2>5 DEF Interpreter!Accept, Interpreter!Running
<1>9. ~(Late /\ ThirdIfLate)
  <2>1. ThirdIfLate => pc["c1"] # "start"
    BY DEF ThirdIfLate
  <2> QED
    BY <1>1, <2>1, GivesUpIs
<1>10. ~Last
  BY <1>2, <1>4 DEF Last
<1> QED
  BY <1>0, <1>1, <1>6, <1>7, <1>8, <1>9, <1>10 DEF LoopInv, Turns

LEMMA RefinesInit == WE2Init => Interpreter!Init
<1> SUFFICES ASSUME WE2Init PROVE Interpreter!Init
  OBVIOUS
<1>1. created \in Orders /\ pc = [c \in Tasks |-> "start"] /\ trace = <<>>
  BY DEF WE2Init
<1>2. ~GivesUp /\ Len(trace) = 0
  BY <1>1 DEF GivesUp, Tasks
<1>3. /\ RunRound = 1 /\ RunPos = 0 /\ RunRem = Interpreter!Q1 /\ RunVerdict = "running"
  BY <1>2 DEF RunRound, RunPos, RunRem, RunVerdict, Interpreter!Q1, Interpreter!Coros, Tasks
<1>4. RunSt = [f \in Interpreter!Flags |-> FALSE]
  <2>1. \A c \in Tasks : pc[c] = "start"
    BY <1>1
  <2>2. pc["c0"] = "start" /\ pc["c1"] = "start" /\ pc["c2"] = "start" /\ pc["c3"] = "start"
    BY <2>1 DEF Tasks
  <2>3. \A f \in Interpreter!Flags : ~RunSt[f]
    BY <1>2, <2>2, RunStType DEF Interpreter!Flags
  <2> QED
    BY <2>3, RunStType
<1>5. RunSched \in {<<o, SecondOrder(o)>> : o \in Orders} /\ Len(RunSched) = 2
  BY <1>1 DEF RunSched
<1> QED
  BY <1>3, <1>4, <1>5 DEF Interpreter!Init

LEMMA RefinesNext ==
  ASSUME WE2Inv, WE2Inv', [WE2Next]_allWE2Vars
  PROVE  [Interpreter!Next]_Interpreter!vars
<1> DEFINE Still == UNCHANGED <<RunSched, RunRound, RunPos, RunRem, RunSt, RunVerdict>>
<1>0. Still => UNCHANGED Interpreter!vars
  BY DEF Interpreter!vars
<1>1. LoopInv /\ created \in Orders /\ created' \in Orders
  BY DEF WE2Inv, LoopInv, WE2TypeOK
<1>2. CASE UNCHANGED allWE2Vars
  <2>1. UNCHANGED <<created, pc, trace, ready, todo>>
    BY <1>2 DEF allWE2Vars, we2Vars, loopVars
  <2>2. GivesUp' = GivesUp /\ C1At' = C1At /\ Snapshot' = Snapshot
    BY <2>1 DEF GivesUp, C1At, Snapshot
  <2>3. Still
    BY <2>1, <2>2 DEF RunSched, RunRound, RunPos, RunRem, RunSt, RunVerdict
  <2> QED
    BY <1>0, <2>3
<1>3. CASE WE2Next /\ GivesUp
  <2>1. created' = created /\ pc'["c1"] # "start"
    <3>1. pc["c1"] # "start"
      BY <1>3 DEF GivesUp
    <3> QED
      BY <1>1, <1>3, <3>1, StepsRun
         DEF WE2Next, NextIteration, WE2Over, allWE2Vars, we2Vars, Runs, Tasks
  <2> QED
    BY <1>0, <1>3, <2>1, StandsStill
<1>4. CASE ~GivesUp /\ NextIteration
  BY <1>0, <1>4, IterationIs DEF Interpreter!Next
<1>5. CASE ~GivesUp /\ C1Waits
  BY <1>5, WaitIsReject DEF Interpreter!Next
<1>6. ASSUME NEW c \in Tasks, NEW where, Runs(c, where), where # "start", ~GivesUp
      PROVE  GivesUp' <=> Late /\ pc'["c1"] # "start"
  <2>1. created' = created
    BY <1>6 DEF Runs
  <2>2. GivesUp' <=> ~Before(created, "c0", "c1") /\ pc'["c1"] # "start"
    BY <2>1 DEF GivesUp
  <2> QED
    BY <1>1, <2>2, EitherOrder DEF Late, Tasks
<1>7. CASE ~GivesUp /\ C0Puts
  <2>1. Runs("c0", "done") /\ pc["c0"] = "start"
    BY <1>1, <1>7, StepsRun DEF C0Puts
  <2>2. Len(trace) = 1 /\ First
    BY <1>1, <2>1 DEF Runs, LoopInv, Turns, Untouched, Second, Rest, ThirdIfLate, Last
  <2>3. /\ pc'["c0"] = "done" /\ pc'["c1"] = pc["c1"] /\ pc'["c2"] = pc["c2"]
        /\ pc'["c3"] = pc["c3"]
    BY <2>1 DEF Runs, Tasks
  <2>4. ~GivesUp'
    BY <1>1, <1>6, <1>7, <2>1, <2>3, GivesUpIs DEF Tasks
  <2>5. Interpreter!Sets(RunSt, "c0") = {"q1put"}
    BY <1>7, <2>1, RunStType, SetsIs
  <2>6. \A g \in Interpreter!Flags : RunSt'[g] <=> RunSt[g] \/ g = "q1put"
    BY <1>7, <2>3, <2>4, RunStType, RunStNext DEF Interpreter!Flags
  <2>7. "q1put" \in Interpreter!Flags /\ "c0" \in Tasks
    BY DEF Interpreter!Flags, Tasks
  <2> QED
    BY <1>7, <2>1, <2>2, <2>4, <2>5, <2>6, <2>7, DispatchRuns DEF Interpreter!Next
<1>8. CASE ~GivesUp /\ C1Gets
  <2>1. Runs("c1", "sleeping") /\ pc["c1"] \in {"start", "getting"} /\ q1 > 0
    BY <1>1, <1>8, StepsRun DEF C1Gets
  <2>2. pc["c1"] = "start" \/ ~Late
    BY <1>1, <1>8, GivesUpIs
  <2>3. Len(trace) = 1 /\ First /\ pc["c1"] = "start"
    BY <1>1, <2>1, <2>2 DEF Runs, LoopInv, Turns, Untouched, First, Second, Rest, ThirdIfLate, Last
  <2>4. pc["c0"] = "done" /\ ~Late
    <3>1. pc["c0"] = "done"
      BY <2>1, <2>3 DEF First
    <3> QED
      BY <1>1, <2>1, <2>3, <3>1, C1Meets DEF Runs
  <2>5. /\ pc'["c1"] = "sleeping" /\ pc'["c0"] = pc["c0"] /\ pc'["c2"] = pc["c2"]
        /\ pc'["c3"] = pc["c3"]
    BY <2>1 DEF Runs, Tasks
  <2>6. ~GivesUp'
    BY <1>6, <1>8, <2>1, <2>4 DEF Tasks
  <2>7. Interpreter!Sets(RunSt, "c1") = {"c1AteQ1"}
    BY <1>8, <2>3, <2>4, RunStType, SetsIs
  <2>8. \A g \in Interpreter!Flags : RunSt'[g] <=> RunSt[g] \/ g = "c1AteQ1"
    BY <1>8, <2>3, <2>5, <2>6, RunStType, RunStNext DEF Interpreter!Flags
  <2>9. "c1AteQ1" \in Interpreter!Flags /\ "c1" \in Tasks
    BY DEF Interpreter!Flags, Tasks
  <2> QED
    BY <1>8, <2>1, <2>3, <2>6, <2>7, <2>8, <2>9, DispatchRuns DEF Interpreter!Next
<1>9. CASE ~GivesUp /\ C1Puts
  <2>1. Runs("c1", "done") /\ pc["c1"] = "sleeping"
    BY <1>1, <1>9, StepsRun DEF C1Puts
  <2>2. ~Late
    BY <1>1, <1>9, <2>1, GivesUpIs
  <2>3. Len(trace) = 2 /\ Second
    BY <1>1, <2>1, <2>2 DEF Runs, LoopInv, Turns, Untouched, First, Rest, ThirdIfLate, Last, Tasks
  <2>4. /\ pc'["c1"] = "done" /\ pc'["c0"] = pc["c0"] /\ pc'["c2"] = pc["c2"]
        /\ pc'["c3"] = pc["c3"]
    BY <2>1 DEF Runs, Tasks
  <2>5. ~GivesUp'
    BY <1>6, <1>9, <2>1, <2>2 DEF Tasks
  <2>6. Interpreter!Sets(RunSt, "c1") = {"q2put"}
    BY <1>9, <2>1, RunStType, SetsIs
  <2>7. \A g \in Interpreter!Flags : RunSt'[g] <=> RunSt[g] \/ g = "q2put"
    BY <1>9, <2>1, <2>4, <2>5, RunStType, RunStNext DEF Interpreter!Flags
  <2>8. "q2put" \in Interpreter!Flags /\ "c1" \in Tasks
    BY DEF Interpreter!Flags, Tasks
  <2> QED
    BY <1>9, <2>1, <2>2, <2>3, <2>5, <2>6, <2>7, <2>8, DispatchRuns DEF Interpreter!Next
<1>10. CASE ~GivesUp /\ C2Waits
  <2>1. Runs("c2", "getting") /\ pc["c2"] \in {"start", "getting"} /\ q2 = 0
    BY <1>1, <1>10, StepsRun DEF C2Waits
  <2>2. Len(trace) = 1 /\ First /\ pc["c2"] = "start"
    BY <1>1, <2>1 DEF Runs, LoopInv, Turns, Untouched, First, Second, Rest, ThirdIfLate, Last
  <2>3. /\ pc'["c2"] = "getting" /\ pc'["c0"] = pc["c0"] /\ pc'["c1"] = pc["c1"]
        /\ pc'["c3"] = pc["c3"]
    BY <2>1 DEF Runs, Tasks
  <2>4. ~GivesUp'
    BY <1>1, <1>6, <1>10, <2>1, <2>3, GivesUpIs DEF Tasks
  <2>5. Interpreter!Sets(RunSt, "c2") = {"c2Ran"}
    BY <1>10, <2>2, RunStType, SetsIs
  <2>6. \A g \in Interpreter!Flags : RunSt'[g] <=> RunSt[g] \/ g = "c2Ran"
    BY <1>10, <2>3, <2>4, RunStType, RunStNext DEF Interpreter!Flags
  <2>7. "c2Ran" \in Interpreter!Flags /\ "c2" \in Tasks
    BY DEF Interpreter!Flags, Tasks
  <2> QED
    BY <1>10, <2>1, <2>2, <2>4, <2>5, <2>6, <2>7, DispatchRuns DEF Interpreter!Next
<1>11. CASE ~GivesUp /\ C3Sleeps
  <2>1. Runs("c3", "sleeping") /\ pc["c3"] = "start"
    BY <1>1, <1>11, StepsRun DEF C3Sleeps
  <2>2. Len(trace) = 1 /\ First
    BY <1>1, <2>1 DEF Runs, LoopInv, Turns, Untouched, Second, Rest, ThirdIfLate, Last
  <2>3. /\ pc'["c3"] = "sleeping" /\ pc'["c0"] = pc["c0"] /\ pc'["c1"] = pc["c1"]
        /\ pc'["c2"] = pc["c2"]
    BY <2>1 DEF Runs, Tasks
  <2>4. ~GivesUp'
    BY <1>1, <1>6, <1>11, <2>1, <2>3, GivesUpIs DEF Tasks
  <2>5. Interpreter!Sets(RunSt, "c3") = {"c3Slept"}
    BY <1>11, <2>1, RunStType, SetsIs
  <2>6. \A g \in Interpreter!Flags : RunSt'[g] <=> RunSt[g] \/ g = "c3Slept"
    BY <1>11, <2>1, <2>3, <2>4, RunStType, RunStNext DEF Interpreter!Flags
  <2>7. "c3Slept" \in Interpreter!Flags /\ "c3" \in Tasks
    BY DEF Interpreter!Flags, Tasks
  <2> QED
    BY <1>11, <2>1, <2>2, <2>4, <2>5, <2>6, <2>7, DispatchRuns DEF Interpreter!Next
<1>12. CASE ~GivesUp /\ C3Ends
  <2>1. Runs("c3", "done") /\ pc["c3"] = "sleeping"
    BY <1>1, <1>12, StepsRun DEF C3Ends
  <2>2. Len(trace) = 2 /\ Second
    BY <1>1, <2>1 DEF Runs, LoopInv, Turns, Untouched, First, Rest, ThirdIfLate, Last, Tasks
  <2>3. ~Late
    <3>1. pc["c1"] # "start"
      BY <2>2 DEF Second
    <3> QED
      BY <1>1, <1>12, <3>1, GivesUpIs
  <2>4. /\ pc'["c3"] = "done" /\ pc'["c0"] = pc["c0"] /\ pc'["c1"] = pc["c1"]
        /\ pc'["c2"] = pc["c2"]
    BY <2>1 DEF Runs, Tasks
  <2>5. ~GivesUp'
    BY <1>6, <1>12, <2>1, <2>3 DEF Tasks
  <2>6. Interpreter!Sets(RunSt, "c3") = {"c3Done"}
    BY <1>12, <2>1, RunStType, SetsIs
  <2>7. \A g \in Interpreter!Flags : RunSt'[g] <=> RunSt[g] \/ g = "c3Done"
    BY <1>12, <2>1, <2>4, <2>5, RunStType, RunStNext DEF Interpreter!Flags
  <2>8. "c3Done" \in Interpreter!Flags /\ "c3" \in Tasks
    BY DEF Interpreter!Flags, Tasks
  <2> QED
    BY <1>12, <2>1, <2>2, <2>3, <2>5, <2>6, <2>7, <2>8, DispatchRuns DEF Interpreter!Next
<1>13. CASE ~GivesUp /\ C2Gets
  <2>1. Runs("c2", "done") /\ pc["c2"] \in {"start", "getting"} /\ q2 > 0
    BY <1>1, <1>13, StepsRun DEF C2Gets
  <2>2. Len(trace) = (IF Late THEN 4 ELSE 3) /\ Last /\ pc["c2"] = "getting"
    BY <1>1, <2>1 DEF Runs, LoopInv, Turns, Untouched, First, Second, Rest, ThirdIfLate, Last
  <2>3. pc["c1"] = "done" /\ ~Late /\ Len(trace) = 3
    <3>1. pc["c1"] = "done"
      BY <2>2 DEF Last
    <3> QED
      BY <1>1, <1>13, <2>2, <3>1, GivesUpIs
  <2>4. /\ pc'["c2"] = "done" /\ pc'["c0"] = pc["c0"] /\ pc'["c1"] = pc["c1"]
        /\ pc'["c3"] = pc["c3"] /\ Len(trace') = 3 /\ trace'[2] = trace[2]
        /\ created' = created
    BY <2>1, <2>3 DEF Runs, Tasks
  <2>5. ~GivesUp'
    BY <1>6, <1>13, <2>1, <2>3 DEF Tasks
  <2>6. RunSched' = RunSched /\ RunRound' = RunRound /\ RunVerdict' = RunVerdict
    BY <1>13, <2>3, <2>4, <2>5 DEF RunSched, RunRound, RunVerdict
  <2>7. RunPos' = RunPos /\ RunRem' = RunRem
    BY <1>13, <2>3, <2>4, <2>5 DEF RunPos, RunRem
  <2>8. RunSt' = RunSt
    BY <1>13, <2>2, <2>4, <2>5 DEF RunSt
  <2> QED
    BY <1>0, <2>6, <2>7, <2>8
<1> QED
  BY <1>2, <1>3, <1>4, <1>5, <1>7, <1>8, <1>9, <1>10, <1>11, <1>12, <1>13
     DEF WE2Next, WE2Over

(***************************************************************************)
(* Every run of the loop is a run of the interpreter: it dispatches the    *)
(* same coroutines in the same order and sets the same flags, is accepted  *)
(* if c0 was created before c1 and given up where c1 has to wait if not.   *)
(***************************************************************************)
THEOREM LoopIsInterpreter == WE2Spec => ImplementsInterpreter
<1>1. WE2Init => WE2Inv
  BY WE2InitOrder
<1>2. WE2Inv /\ [WE2Next]_allWE2Vars => WE2Inv'
  BY WE2NextOrder
<1>3. WE2Inv /\ WE2Inv' /\ [WE2Next]_allWE2Vars => [Interpreter!Next]_Interpreter!vars
  BY RefinesNext
<1> QED
  BY <1>1, <1>2, <1>3, RefinesInit, PTL DEF WE2Spec, ImplementsInterpreter, Interpreter!Spec
=============================================================================
