-------------------------- MODULE MCTacticalIngestion --------------------------
EXTENDS TacticalIngestion, TLC

CONSTANTS s1, s2, p1, p2, u1, u2
MCFindings == {s1 :> "WARN" @@ s2 :> "PASS", s1 :> "FAIL" @@ s2 :> "FAIL"}
MCSymmetry == Permutations(Users) \cup Permutations(Pipelines)
=============================================================================
