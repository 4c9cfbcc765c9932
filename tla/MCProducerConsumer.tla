-------------------------- MODULE MCProducerConsumer --------------------------
(* Instances of ProducerConsumer for TLC. *)
EXTENDS ProducerConsumer

\* p1, p2, c1, c2 as the benchmark creates them, and every other order.
AnyOrder == SetToSeqs(Tasks)
=============================================================================
