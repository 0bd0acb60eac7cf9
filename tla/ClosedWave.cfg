SPECIFICATION FairSpec
CONSTANTS
  NTasks = 3
  Waves <- MCWaves
  Plans <- MCPlans
  FirstWave = w1
  SecondWave = w2
  MaxCrashes = 0
  General = General
  Harness = Harness
  None = None
PROPERTY
  ForwardTasksGetTheirTurn
CHECK_DEADLOCK FALSE
