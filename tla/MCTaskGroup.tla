----------------------------- MODULE MCTaskGroup -----------------------------
(* Instances of TaskGroup for TLC. *)
EXTENDS TaskGroup

\* Distinct delays in the order of the workers, as 0.10, 0.20, ...
Staggered(w) == w
=============================================================================
