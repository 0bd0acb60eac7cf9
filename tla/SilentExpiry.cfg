SPECIFICATION FairSpec
CONSTANTS
  Attempts = {1}
  Askers = {1}
  General = General
  Advisors = {}
  Host = Host
  Cleanup = Cleanup
  Operator = Operator
  MaxTries = 1
  None = None
PROPERTY
  ExpiryEndsTheWait
CHECK_DEADLOCK FALSE
