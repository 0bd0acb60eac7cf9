------------------------- MODULE MCOutboxDispatcher --------------------------
(* Instances of OutboxDispatcher for TLC: m1 and m2 share partition p1, m3  *)
(* has a partition of its own.                                              *)
EXTENDS OutboxDispatcher, TLC

CONSTANTS m1, m2, m3, p1, p2

OnePartition  == (m1 :> p1) @@ (m2 :> p1)
TwoPartitions == (m1 :> p1) @@ (m2 :> p1) @@ (m3 :> p2)

Symmetry == Permutations(Workers) \cup Permutations({m1, m2})
=============================================================================
