---------------------------- MODULE MCCommandSaga ----------------------------
(* Instances of CommandSaga for TLC: call sites c1 and c2 share process h1, *)
(* c3 lives in a process of its own.                                        *)
EXTENDS CommandSaga, TLC

CONSTANTS c1, c2, c3, h1, h2

TwoHosts == (c1 :> h1) @@ (c2 :> h1) @@ (c3 :> h2)
OneEach  == (c1 :> h1) @@ (c2 :> h2)
OneHost  == (c1 :> h1) @@ (c2 :> h1)

Symmetry == Permutations(Keys) \cup Permutations(Ids) \cup Permutations(Values)
=============================================================================
