--------------------------- MODULE MCEventConsumer ---------------------------
(* Instances of EventConsumer for TLC: two partitions of two messages, one  *)
(* poison and one that cannot be decoded.                                   *)
EXTENDS EventConsumer, TLC

CONSTANTS c1, c2, p1, p2

MCPoison  == {<<p1, 0>>}
MCGarbled == {<<p2, 1>>, <<p1, 2>>}

Symmetry == Permutations(Consumers)
=============================================================================
