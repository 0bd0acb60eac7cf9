CONSTANTS
  Keys <- TwoKeys
  Callers = {c1}
  MaxRevision = 2
  MaxFaults = 1
  ChildOutcomes = {"SETTLED", "LOST"}
SPECIFICATION LiveSpec
PROPERTIES
  DeadWorkersLoseTheTask
CHECK_DEADLOCK FALSE
