SPECIFICATION Spec
CONSTANTS
  step = step
  tool = tool
  Steps <- MCSteps
  Tools <- MCTools
  Limits = {3, 4}
  Grant = 2
  Actuals = {1, 3}
  Operator = Operator
  Starter = Starter
  MaxTries = 3
  MaxCrashes = 0
  MaxStarts = 1
  None = None
PROPERTY
  ChargesPersist
CHECK_DEADLOCK FALSE
