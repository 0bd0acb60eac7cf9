CONSTANTS
  Keys <- TwoKeys
  Callers = {c1, c2}
  MaxRevision = 2
  MaxFaults = 0
  ChildOutcomes = {"LOST"}
SYMMETRY CallerSymmetry
SPECIFICATION SpawnSpec
INVARIANTS
  StartProvesChild
  LeaseBeforeChild
  FailedHadNoChild
  ExecutingIsAttended
  LiveChildHasBinding
CHECK_DEADLOCK FALSE
