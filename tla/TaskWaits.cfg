SPECIFICATION FairSpec
CONSTANTS
  Attempts = {1, 2}
  Askers = {1}
  General = General
  Advisors = {}
  Host = Host
  Cleanup = Cleanup
  Operator = Operator
  MaxTries = 1
  None = None
INVARIANTS
  OneEnd
  WaitsAreEnded
  CancellationIsProjected
PROPERTY
  RequestsDoNotLinger
CHECK_DEADLOCK FALSE
