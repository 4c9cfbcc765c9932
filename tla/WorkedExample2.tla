---------------------------- MODULE WorkedExample2 ----------------------------
(***************************************************************************)
(* The interpreter of SNFClaim3.lean, Part 7, for its Worked Example 2:    *)
(*                                                                         *)
(*   c0: q1.put_nowait          c1: q1.get; sleep(0); q2.put_nowait        *)
(*   c2: q2.get                 c3: z = 1; sleep(0); z = 2                 *)
(*                                                                         *)
(* `run` takes a schedule (for each of two loop iterations the order in    *)
(* which it dispatches its coroutines) and either runs it to the end or    *)
(* gives up.  Here `run` is a machine that reads the schedule entry by     *)
(* entry, so that a schedule may be any sequence of sequences: repeated    *)
(* and missing coroutines and any number of iterations included.           *)
(***************************************************************************)
EXTENDS Naturals, Sequences

CONSTANT Schedules   \* the schedules handed to `run`

Coros == {"c0", "c1", "c2", "c3"}

\* Ready sets of the two iterations.  c2 is not in the second: it is
\* suspended on q2 then.
Q1 == Coros
Q2 == {"c1", "c3"}
Q == <<Q1, Q2>>

ASSUME SchedulesAssumption == Schedules \subseteq Seq(Seq(Coros))

VARIABLES
  sched,    \* the argument of `run`
  round,    \* the iteration in progress
  pos,      \* entries of sched[round] dispatched so far
  rem,      \* what is left of the iteration's ready set
  st,       \* the interpreter's state St
  verdict   \* "running", "feasible" (some state) or "infeasible" (none)

vars == <<sched, round, pos, rem, st, verdict>>

Flags == {"q1put", "c1AteQ1", "q2put", "c3Slept", "c3Done", "c2Ran"}

Init ==
  /\ sched \in Schedules
  /\ round = 1
  /\ pos = 0
  /\ rem = Q1
  /\ st = [f \in Flags |-> FALSE]
  /\ verdict = IF Len(sched) = 2 THEN "running" ELSE "infeasible"
-----------------------------------------------------------------------------
\* phaseStep: what coroutine c sets when it is dispatched in state s, as the
\* set of its flag; empty where the coroutine is blocked or over.
Sets(s, c) ==
  CASE c = "c0" -> {"q1put"} \ {f \in Flags : s[f]}
    [] c = "c1" -> IF ~s["c1AteQ1"]
                   THEN IF s["q1put"] THEN {"c1AteQ1"} ELSE {}
                   ELSE {"q2put"} \ {f \in Flags : s[f]}
    [] c = "c2" -> {"c2Ran"} \ {f \in Flags : s[f]}
    [] c = "c3" -> IF ~s["c3Slept"]
                   THEN {"c3Slept"}
                   ELSE {"c3Done"} \ {f \in Flags : s[f]}

Running == verdict = "running"
Entry   == sched[round][pos + 1]

\* dispatch accepts c: its handle is in the ready queue and it is not blocked.
Accepts(c) == c \in rem /\ Sets(st, c) # {}

\* dispatch: the handle is consumed.
Dispatch ==
  /\ Running
  /\ pos < Len(sched[round])
  /\ Accepts(Entry)
  /\ st' = [f \in Flags |-> st[f] \/ f \in Sets(st, Entry)]
  /\ rem' = rem \ {Entry}
  /\ pos' = pos + 1
  /\ UNCHANGED <<sched, round, verdict>>

Reject ==
  /\ Running
  /\ pos < Len(sched[round])
  /\ ~Accepts(Entry)
  /\ verdict' = "infeasible"
  /\ UNCHANGED <<sched, round, pos, rem, st>>

\* Mutant of NextRound: the ready set need not be drained.
NextRoundUndrained ==
  /\ Running
  /\ pos = Len(sched[round]) /\ round = 1
  /\ round' = 2 /\ pos' = 0 /\ rem' = Q2
  /\ UNCHANGED <<sched, st, verdict>>

\* The order of the iteration is read to its end, and has drained its ready
\* set: on to the next iteration, or done.
NextRound ==
  /\ Running
  /\ pos = Len(sched[round])
  /\ rem = {}
  /\ round = 1
  /\ round' = 2
  /\ pos' = 0
  /\ rem' = Q2
  /\ UNCHANGED <<sched, st, verdict>>

\* Mutant of Accept: the last ready set need not be drained.
AcceptUndrained ==
  /\ Running
  /\ pos = Len(sched[round]) /\ round = 2
  /\ verdict' = "feasible"
  /\ UNCHANGED <<sched, round, pos, rem, st>>

Accept ==
  /\ Running
  /\ pos = Len(sched[round])
  /\ rem = {}
  /\ round = 2
  /\ verdict' = "feasible"
  /\ UNCHANGED <<sched, round, pos, rem, st>>

\* Mutant of NotDrained: the rest of the ready set is not looked at.
NotDrainedEver ==
  /\ Running
  /\ pos = Len(sched[round])
  /\ verdict' = "infeasible"
  /\ UNCHANGED <<sched, round, pos, rem, st>>

\* rem # [] -> none
NotDrained ==
  /\ Running
  /\ pos = Len(sched[round])
  /\ rem # {}
  /\ verdict' = "infeasible"
  /\ UNCHANGED <<sched, round, pos, rem, st>>

Finished == ~Running /\ UNCHANGED vars

Next ==
  \/ Dispatch
  \/ Reject
  \/ NextRound
  \/ Accept
  \/ NotDrained
  \/ Finished

Spec == Init /\ [][Next]_vars
-----------------------------------------------------------------------------
\* p lists every member of S, each once: List.Perm of the ready set.
IsOrderOf(p, S) ==
  /\ p \in Seq(S)
  /\ \A i, j \in 1..Len(p) : p[i] = p[j] => i = j
  /\ \A c \in S : \E i \in 1..Len(p) : p[i] = c

\* fifoConsistentF1: c0 comes before c1.
C0BeforeC1(p) ==
  \E i, j \in 1..Len(p) : i < j /\ p[i] = "c0" /\ p[j] = "c1"

InF1(p) == IsOrderOf(p, Q1) /\ C0BeforeC1(p)    \* f1Real
InF2(p) == IsOrderOf(p, Q2)                     \* f2Real

\* EncConsistent we2EncReal
EncConsistent(s) == Len(s) = 2 /\ InF1(s[1]) /\ InF2(s[2])

TypeOK ==
  /\ sched \in Seq(Seq(Coros))
  /\ round \in {1, 2}
  /\ pos \in Nat
  /\ rem \subseteq Q[round]
  /\ st \in [Flags -> BOOLEAN]
  /\ verdict \in {"running", "feasible", "infeasible"}
  /\ Running => Len(sched) = 2 /\ pos <= Len(sched[round])

(***************************************************************************)
(* Claim 2, forward: a schedule the interpreter runs to the end is one the *)
(* encoding has.  Lean proves it for the 48 pairs of permutations only and *)
(* leaves the schedules that are not permutations open.                    *)
(***************************************************************************)
FeasibleIsEncoded == verdict = "feasible" => EncConsistent(sched)

(***************************************************************************)
(* Claim 2, backward: a schedule the interpreter gives up on is not one of *)
(* the encoding.                                                           *)
(***************************************************************************)
InfeasibleIsNotEncoded == verdict = "infeasible" => ~EncConsistent(sched)

(***************************************************************************)
(* Claim 3 for this program: whichever feasible schedule was chosen, the   *)
(* program ends in the same state, both rendezvous resolved.               *)
(***************************************************************************)
Confluent == verdict = "feasible" => \A f \in Flags : st[f]
=============================================================================
