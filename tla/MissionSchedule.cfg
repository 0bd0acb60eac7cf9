SPECIFICATION FairSpec
CONSTANTS
  NTasks = 3
  Waves <- MCWaves
  Plans <- MCPlans
  FirstWave = w1
  SecondWave = w2
  MaxCrashes = 1
  General = General
  Harness = Harness
  None = None
INVARIANTS
  WavesAreSequential
  NeedsAreAccepted
  CompletedIsAccepted
PROPERTY
  OrderlyTasksGetTheirTurn
CHECK_DEADLOCK FALSE
