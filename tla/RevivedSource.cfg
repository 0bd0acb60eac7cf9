SPECIFICATION Spec
CONSTANTS
  s1 = s1  s2 = s2  p1 = p1  p2 = p2  u1 = u1  u2 = u2
  None = None
  Sources = {s1, s2}
  Pipelines = {p1, p2}
  Findings <- MCFindings
  Users = {u1, u2}
  NChunks = 1
  MaxVersions = 2
  MaxRuns = 2
  MaxEdits = 1
  MaxFaults = 0
  MaxReviews = 2
  MaxPromotions = 0
PROPERTY RevocationIsFinal
CHECK_DEADLOCK FALSE
