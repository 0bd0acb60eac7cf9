SPECIFICATION Spec
CONSTANTS
  m1 = m1
  m2 = m2
  m3 = m3
  p1 = p1
  p2 = p2
  Messages = {m1, m2}
  Partitions = {p1}
  PartitionOf <- OnePartition
  Workers = {w1, w2}
  None = None
  MaxAttempts = 2
  MaxClaims = 3
INVARIANTS
  RedeliveryIsIdempotent
CHECK_DEADLOCK FALSE
