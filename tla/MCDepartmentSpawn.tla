-------------------------- MODULE MCDepartmentSpawn --------------------------
(* Spawn calls on one Task.  Two dispatch keys give two attempts: the third *)
(* revision stands for every later one, in which no call begins.            *)
EXTENDS DepartmentSpawn, TLC

TwoKeys == {0, 1}
CallerSymmetry == Permutations(Callers)
=============================================================================
