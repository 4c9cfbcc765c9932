------------------------------ MODULE MCWE2Loop ------------------------------
(* Instances of WE2Loop for TLC. *)
EXTENDS WE2Loop

Permutation(o) == \A c \in Tasks : \E i \in DOMAIN o : o[i] = c

\* All 24 orders of creation.
AnyOrder == {o \in [1..4 -> Tasks] : Permutation(o)}
=============================================================================
