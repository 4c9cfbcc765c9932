------------------------------- MODULE WE2Loop -------------------------------
(***************************************************************************)
(* Worked Example 2 of SNFClaim3.lean on the event loop itself, with       *)
(* asyncio.Queue's getters, instead of on the Lean interpreter:            *)
(*                                                                         *)
(*   c0: q1.put_nowait("a")                                                *)
(*   c1: x = await q1.get(); await sleep(0); q2.put_nowait(x + "b")        *)
(*   c2: y = await q2.get()                                                *)
(*   c3: z = 1; await sleep(0); z = 2                                      *)
(*                                                                         *)
(* The tasks are created in some order, which is the dispatch order of the *)
(* first iteration.  `trace` records the order of every iteration.         *)
(***************************************************************************)
EXTENDS EventLoop

CONSTANT Orders   \* the orders in which the tasks may be created

Tasks == {"c0", "c1", "c2", "c3"}

ASSUME OrdersAssumption ==
  \A o \in Orders : /\ o \in Seq(Tasks)
                    /\ \A c \in Tasks : Cardinality({i \in DOMAIN o : o[i] = c}) = 1

VARIABLES
  created,   \* the order of creation
  pc,        \* where each coroutine is suspended
  q1, q2,    \* number of items in the queues
  getters,   \* coroutines that wait on their queue
  trace      \* per iteration, the coroutines dispatched

we2Vars == <<created, pc, q1, q2, getters, trace>>
allWE2Vars == <<loopVars, we2Vars>>

WE2Init ==
  /\ created \in Orders
  /\ ready = [i \in DOMAIN created |-> Step(created[i])]
  /\ todo = 0
  /\ timers = {}
  /\ pc = [c \in Tasks |-> "start"]
  /\ q1 = 0 /\ q2 = 0
  /\ getters = {}
  /\ trace = <<>>
-----------------------------------------------------------------------------
\* The loop dispatches c, which suspends at `where` (or ends).
Resume(c, new, where) ==
  /\ RunHandle(Step(c), new)
  /\ pc' = [pc EXCEPT ![c] = where]
  /\ trace' = [trace EXCEPT ![Len(trace)] = Append(@, c)]
  /\ UNCHANGED <<timers, created>>

\* Mutant of Wakes: the getter is forgotten.
WakesNobody(c) == <<>>

\* put_nowait completes the future of the getter, if it waits.
Wakes(c) == IF c \in getters THEN <<Step(c)>> ELSE <<>>

C0Puts ==
  /\ pc["c0"] = "start"
  /\ Resume("c0", Wakes("c1"), "done")
  /\ q1' = q1 + 1
  /\ getters' = getters \ {"c1"}
  /\ UNCHANGED q2

\* Mutant of C1Gets: no suspension between the get and the put.
C1GetsAndPuts ==
  /\ pc["c1"] \in {"start", "getting"}
  /\ q1 > 0
  /\ Resume("c1", Wakes("c2"), "done")
  /\ q1' = q1 - 1 /\ q2' = q2 + 1
  /\ getters' = getters \ {"c2"}

\* q1.get() returns at once, or after a wake-up; sleep(0) yields once.
C1Gets ==
  /\ pc["c1"] \in {"start", "getting"}
  /\ q1 > 0
  /\ Resume("c1", <<Step("c1")>>, "sleeping")
  /\ q1' = q1 - 1
  /\ UNCHANGED <<q2, getters>>

C1Waits ==
  /\ pc["c1"] \in {"start", "getting"}
  /\ q1 = 0
  /\ Resume("c1", <<>>, "getting")
  /\ getters' = getters \union {"c1"}
  /\ UNCHANGED <<q1, q2>>

C1Puts ==
  /\ pc["c1"] = "sleeping"
  /\ Resume("c1", Wakes("c2"), "done")
  /\ q2' = q2 + 1
  /\ getters' = getters \ {"c2"}
  /\ UNCHANGED q1

C2Gets ==
  /\ pc["c2"] \in {"start", "getting"}
  /\ q2 > 0
  /\ Resume("c2", <<>>, "done")
  /\ q2' = q2 - 1
  /\ UNCHANGED <<q1, getters>>

C2Waits ==
  /\ pc["c2"] \in {"start", "getting"}
  /\ q2 = 0
  /\ Resume("c2", <<>>, "getting")
  /\ getters' = getters \union {"c2"}
  /\ UNCHANGED <<q1, q2>>

C3Sleeps ==
  /\ pc["c3"] = "start"
  /\ Resume("c3", <<Step("c3")>>, "sleeping")
  /\ UNCHANGED <<q1, q2, getters>>

C3Ends ==
  /\ pc["c3"] = "sleeping"
  /\ Resume("c3", <<>>, "done")
  /\ UNCHANGED <<q1, q2, getters>>

NextIteration ==
  /\ StartIteration
  /\ trace' = Append(trace, <<>>)
  /\ UNCHANGED <<created, pc, q1, q2, getters>>

AllDone == \A c \in Tasks : pc[c] = "done"

WE2Over == LoopDone /\ AllDone /\ UNCHANGED allWE2Vars

WE2Next ==
  \/ NextIteration
  \/ C0Puts
  \/ C1Gets \/ C1Waits \/ C1Puts
  \/ C2Gets \/ C2Waits
  \/ C3Sleeps \/ C3Ends
  \/ WE2Over

WE2Spec == WE2Init /\ [][WE2Next]_allWE2Vars

\* A thread runs the loop until it is done.
FairWE2Spec == WE2Spec /\ WF_allWE2Vars(WE2Next)
-----------------------------------------------------------------------------
WE2TypeOK ==
  /\ created \in Orders
  /\ ready \in Seq({Step(c) : c \in Tasks})
  /\ todo \in 0..Len(ready)
  /\ timers = {}
  /\ pc \in [Tasks -> {"start", "getting", "sleeping", "done"}]
  /\ q1 \in {0, 1} /\ q2 \in {0, 1}
  /\ getters \subseteq {"c1", "c2"}
  /\ trace \in Seq(Seq(Tasks))

\* o has c before d.
Before(o, c, d) == \E i, j \in DOMAIN o : i < j /\ o[i] = c /\ o[j] = d

\* c dispatched in iteration i.
DispatchedIn(c, i) == \E k \in DOMAIN trace[i] : trace[i][k] = c

(***************************************************************************)
(* Claim 3 on the loop: the ready set of the second iteration is {c1, c3}  *)
(* for each of the 24 dispatch orders of the first, and c2, suspended on   *)
(* q2, runs again in the last iteration only.  An order with c1 before c0  *)
(* costs one iteration more.                                               *)
(***************************************************************************)
ReadySets ==
  LoopDone =>
    /\ {c \in Tasks : DispatchedIn(c, 1)} = Tasks
    /\ {c \in Tasks : DispatchedIn(c, 2)} = {"c1", "c3"}
    /\ trace[Len(trace)] = <<"c2">>
    /\ Len(trace) = IF Before(created, "c1", "c0") THEN 4 ELSE 3

\* Whatever the order, no coroutine waits for ever.
EveryOrderFinishes == <>[](LoopDone /\ AllDone)
-----------------------------------------------------------------------------
(***************************************************************************)
(* The interpreter of the Lean file, driven by the order of the first      *)
(* iteration; the second follows from it, since the loop is FIFO.  Where   *)
(* the loop lets c1 wait for q1, the interpreter gives up and stands still *)
(* with the coroutines created before c1 dispatched.                       *)
(***************************************************************************)
Snapshot == {c \in Tasks : \E i \in 1..todo : ready[i] = Step(c)}

\* Where the loop does not give up: c1 and c3 in the order of creation.
SecondOrder(o) == IF Before(o, "c1", "c3") THEN <<"c1", "c3">> ELSE <<"c3", "c1">>

C1At    == CHOOSE i \in DOMAIN created : created[i] = "c1"
GivesUp == ~Before(created, "c0", "c1") /\ pc["c1"] # "start"

RunSched == <<created, SecondOrder(created)>>

RunRound == IF GivesUp \/ Len(trace) <= 1 THEN 1 ELSE 2

RunPos == CASE GivesUp -> C1At - 1
            [] ~GivesUp /\ Len(trace) = 0 -> 0
            [] ~GivesUp /\ Len(trace) = 1 -> Len(trace[1])
            [] OTHER -> Len(trace[2])

RunRem == CASE GivesUp -> {c \in Tasks : ~Before(created, c, "c1")}
            [] ~GivesUp /\ Len(trace) = 0 -> Tasks
            [] ~GivesUp /\ Len(trace) \in {1, 2} -> Snapshot
            [] OTHER -> {}

RunSt == IF GivesUp
         THEN [q1put |-> FALSE, c1AteQ1 |-> FALSE, q2put |-> FALSE,
               c3Slept |-> Before(created, "c3", "c1"), c3Done |-> FALSE,
               c2Ran |-> Before(created, "c2", "c1")]
         ELSE [q1put   |-> pc["c0"] = "done",
               c1AteQ1 |-> pc["c1"] \in {"sleeping", "done"},
               q2put   |-> pc["c1"] = "done",
               c3Slept |-> pc["c3"] # "start",
               c3Done  |-> pc["c3"] = "done",
               c2Ran   |-> pc["c2"] # "start"]

RunVerdict == CASE GivesUp -> "infeasible"
                [] ~GivesUp /\ Len(trace) <= 2 -> "running"
                [] OTHER -> "feasible"

Interpreter ==
  INSTANCE WorkedExample2 WITH
    Schedules <- {<<o, SecondOrder(o)>> : o \in Orders},
    sched <- RunSched, round <- RunRound, pos <- RunPos,
    rem <- RunRem, st <- RunSt, verdict <- RunVerdict

(***************************************************************************)
(* What the loop does is what the interpreter does: the same ready sets,   *)
(* flags and steps to the end where c0 is created before c1, and to the    *)
(* point where c1 has to wait where it is not.                             *)
(***************************************************************************)
ImplementsInterpreter == Interpreter!Spec
=============================================================================
