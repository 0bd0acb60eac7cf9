SPECIFICATION Spec
CONSTANTS
  Attempts = {1, 2}
  Askers = {1, 2}
  General = General
  Advisors = {}
  Host = Host
  Cleanup = Cleanup
  Operator = Operator
  MaxTries = 1
  None = None
PROPERTY
  GuidanceFindsItsAsker
CHECK_DEADLOCK FALSE
