--------------------------- MODULE MCWorkedExample2 ---------------------------
(* Instances of WorkedExample2 for TLC. *)
EXTENDS WorkedExample2

Orders(n) == UNION {[1..k -> Coros] : k \in 0..n}

\* Every first iteration of four entries with every second one of at most
\* two, repetitions included; too few entries in the first, too many in
\* either, and wrong numbers of iterations.
SmallSchedules ==
  {<<s, t>> : s \in [1..4 -> Coros], t \in Orders(2)}
    \union {<<s, <<"c1", "c3">>>> : s \in Orders(3)}
    \union {<<<<"c0", "c1", "c2", "c3">>, t>> : t \in [1..3 -> Coros]}
    \union {<<<<"c0", "c1", "c2", "c3", c>>, <<"c1", "c3">>>> : c \in Coros}
    \union {<<>>, <<<<"c0", "c1", "c2", "c3">>>>,
            <<<<"c0", "c1", "c2", "c3">>, <<"c1", "c3">>, <<>>>>}
=============================================================================
