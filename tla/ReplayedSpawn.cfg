CONSTANTS
  Keys <- TwoKeys
  Callers = {c1, c2}
  MaxRevision = 2
  MaxFaults = 0
  ChildOutcomes = {"SETTLED", "LOST"}
SPECIFICATION SpawnSpec
PROPERTIES
  ReplaySparesTheChild
CHECK_DEADLOCK FALSE
