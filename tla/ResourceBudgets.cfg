SPECIFICATION FairSpec
CONSTANTS
  step = step
  tool = tool
  Steps <- MCSteps
  Tools <- MCTools
  Limits = {3, 4}
  Grant = 2
  Actuals = {1, 3}
  Operator = Operator
  Starter = Starter
  MaxTries = 2
  MaxCrashes = 1
  MaxStarts = 1
  None = None
INVARIANTS
  BooksBalance
  LimitIsKept
PROPERTIES
  ChargedOnce
  ToolsAreCharged
CHECK_DEADLOCK FALSE
