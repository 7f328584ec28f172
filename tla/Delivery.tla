------------------------------ MODULE Delivery ------------------------------
(***************************************************************************)
(* What a consumer group of services/events promises about one topic,      *)
(* whatever its members do: at-least-once, in order within a partition.    *)
(* A message is settled once a handler accepted it or it was parked in the *)
(* dead-letter topic; the committed offset is a statement about settled    *)
(* messages and about nothing else.  It may go back (a redelivery), never  *)
(* past a message that is not settled (a loss).                            *)
(***************************************************************************)
EXTENDS Naturals

CONSTANTS Partitions, LogLen   \* LogLen messages per partition: 0 .. LogLen-1

VARIABLES settled,     \* settled[p]: the offsets of p that are settled
          committed    \* committed[p]: the next offset the broker would serve

Offsets == 0 .. LogLen - 1
Below(n) == {o \in Offsets : o < n}

Init ==
  /\ settled   = [p \in Partitions |-> {}]
  /\ committed = [p \in Partitions |-> 0]

\* The oldest unsettled message of p is settled: no message overtakes another.
Settle(p) ==
  \E o \in Offsets \ settled[p] :
     /\ Below(o) \subseteq settled[p]
     /\ settled' = [settled EXCEPT ![p] = @ \cup {o}]
     /\ UNCHANGED committed

\* Some of the group's offsets are recorded with the broker.
Commit ==
  /\ committed' \in [Partitions -> 0 .. LogLen]
  /\ \A p \in Partitions : \/ committed'[p] = committed[p]
                           \/ Below(committed'[p]) \subseteq settled[p]
  /\ UNCHANGED settled

Next == Commit \/ \E p \in Partitions : Settle(p)

Spec == Init /\ [][Next]_<<settled, committed>>
=============================================================================
