---------------------------- MODULE AtomicCounter ----------------------------
(***************************************************************************)
(* What the mutex of benchmark b3 promises: a counter that every client    *)
(* increments exactly once, in one step, and all of them in the end.       *)
(***************************************************************************)
EXTENDS Naturals

CONSTANT Clients

VARIABLES done, count

Init == done = {} /\ count = 0

Increment(c) ==
  /\ c \in Clients \ done
  /\ done' = done \union {c}
  /\ count' = count + 1

Next == \E c \in Clients : Increment(c)

Safety == Init /\ [][Next]_<<done, count>>

Spec == Safety /\ WF_<<done, count>>(Next)
=============================================================================
