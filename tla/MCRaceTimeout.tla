---------------------------- MODULE MCRaceTimeout ----------------------------
(* Instances of RaceTimeout for TLC. *)
EXTENDS RaceTimeout

Race(s, t) == [sleep |-> s, timeout |-> t]

\* The five races of the benchmark, in units of 10 ms.
Benchmark ==
  <<Race(10, 20), Race(30, 20), Race(5, 10), Race(40, 15), Race(8, 12)>>

\* The same and three that are decided by little, so that the timers of one
\* race become ready together.
WithCloseRaces == Benchmark \o <<Race(2, 3), Race(3, 2), Race(2, 2)>>
=============================================================================
