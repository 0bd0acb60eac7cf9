CONSTANTS
  Keys <- TwoKeys
  Callers = {c1}
  MaxRevision = 2
  MaxFaults = 1
  ChildOutcomes = {"SETTLED", "LOST"}
SPECIFICATION LiveSpec
INVARIANTS
  FailedHadNoChild
PROPERTIES
  SilentAttemptsEnd
  KeepsAttemptHistory
CHECK_DEADLOCK FALSE
