SPECIFICATION FairSpec
CONSTANTS
  m1 = m1
  m2 = m2
  m3 = m3
  p1 = p1
  p2 = p2
  Messages = {m1, m2, m3}
  Partitions = {p1, p2}
  PartitionOf <- TwoPartitions
  Workers = {w1, w2}
  None = None
  MaxAttempts = 2
  MaxClaims = 2
INVARIANTS
  TypeOK
  EffectsInOrder
  ReceiptsAreProof
PROPERTIES
  StaleLoopsAreFenced
  ImplementsPromise
  EveryMessageSettles
CHECK_DEADLOCK FALSE
