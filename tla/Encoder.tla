------------------------------- MODULE Encoder -------------------------------
(***************************************************************************)
(* The queries of snf-pipeline/encoder.py.  A query is satisfiable iff     *)
(* there is an assignment of its unknowns that meets all its assertions;   *)
(* the unknowns have small domains, so the verdict is a quantifier, not a  *)
(* solver.  n is the number of contenders found, puts and sets those of    *)
(* the operations that release them.                                       *)
(***************************************************************************)
EXTENDS Integers

AtLeast(a, b) == IF a >= b THEN a ELSE b      \* max of Python

\* Pairs of different contenders, i < j.
PairsOf(n) == {p \in (1..n) \X (1..n) : p[1] < p[2]}

AllDistinct(n, order) == \A i, j \in 1..n : order[i] = order[j] => i = j

\* Distinct() of no arguments raises an exception; every other query has a
\* verdict.  Events do not use Distinct.
RaisesException(kind, n) == kind \in {"LOCK", "QUEUE"} /\ n = 0

LockStructuredSat(n) ==
  \E lorder \in [1..n -> 1..AtLeast(n, 1)] :
    /\ AllDistinct(n, lorder)
    /\ \E p \in PairsOf(n) : lorder[p[1]] = lorder[p[2]]

LockNaiveSat(n) ==
  \E holds \in [1..n -> BOOLEAN], p \in PairsOf(n) : holds[p[1]] /\ holds[p[2]]

QueueStructuredSat(n, puts) ==
  \E order \in [1..n -> 1..AtLeast(n, 1)] :
    /\ AllDistinct(n, order)
    /\ \E p \in PairsOf(n) : /\ order[p[1]] <= puts /\ order[p[2]] <= puts
                             /\ order[p[1]] = order[p[2]]

\* The range of conn has at least one element, also when nothing is put.
QueueNaiveSat(n, puts) ==
  \E conn \in [1..n -> 1..AtLeast(puts, 1)], p \in PairsOf(n) : conn[p[1]] = conn[p[2]]

EventStructuredSat(n, sets) ==
  \E wake \in [1..n -> BOOLEAN] :
    /\ sets >= 1 => \A w \in 1..n : wake[w]
    /\ \E w \in 1..n : ~wake[w]

EventNaiveSat(n) == \E wake \in [1..n -> BOOLEAN] : \E w \in 1..n : ~wake[w]

StructuredSat(kind, n, released) ==
  CASE kind = "LOCK" -> LockStructuredSat(n)
    [] kind = "QUEUE" -> QueueStructuredSat(n, released)
    [] kind = "EVENT" -> EventStructuredSat(n, released)

NaiveSat(kind, n, released) ==
  CASE kind = "LOCK" -> LockNaiveSat(n)
    [] kind = "QUEUE" -> QueueNaiveSat(n, released)
    [] kind = "EVENT" -> EventNaiveSat(n)

\* "  <-- CORRECTNESS GAP"
Gap(kind, n, released) == NaiveSat(kind, n, released) /\ ~StructuredSat(kind, n, released)

\* The race of a wait_for: completes_first, timeout_fires, cleanup_ran.
WaitForStructuredSat(handled) ==
  \E completes, fires, cleanup \in BOOLEAN :
    /\ completes \/ fires
    /\ handled => (fires => cleanup)
    /\ fires /\ ~cleanup

WaitForNaiveSat == \E fires, cleanup \in BOOLEAN : ~fires /\ fires /\ ~cleanup
=============================================================================
