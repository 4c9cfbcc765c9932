---------------------------- MODULE BoundedChannel ----------------------------
(***************************************************************************)
(* What the bounded queue of benchmark b6 promises its producers and       *)
(* consumers: a FIFO of at most maxsize items with no waiters in sight.  A *)
(* put needs room, a get needs an item, and neither is put off for ever    *)
(* while it is possible.                                                   *)
(***************************************************************************)
EXTENDS Naturals, Sequences

CONSTANTS Producers, Consumers, ItemsEach, Target, maxsize

VARIABLES queue, state, progress

chan == <<queue, state, progress>>

Init ==
  /\ queue = <<>>
  /\ state = <<>>
  /\ progress = [t \in Producers \union Consumers |-> 0]

Put(p) ==
  /\ progress[p] < ItemsEach
  /\ Len(queue) < maxsize
  /\ progress' = [progress EXCEPT ![p] = @ + 1]
  /\ queue' = Append(queue, <<p, progress[p] + 1>>)
  /\ state' = state

Get(c) ==
  /\ progress[c] < Target
  /\ queue # <<>>
  /\ progress' = [progress EXCEPT ![c] = @ + 1]
  /\ state' = Append(state, Head(queue))
  /\ queue' = Tail(queue)

Next == (\E p \in Producers : Put(p)) \/ (\E c \in Consumers : Get(c))

Safety == Init /\ [][Next]_chan

Spec ==
  /\ Safety
  /\ \A p \in Producers : WF_chan(Put(p))
  /\ \A c \in Consumers : WF_chan(Get(c))
=============================================================================
