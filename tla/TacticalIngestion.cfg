SPECIFICATION Spec
CONSTANTS
  s1 = s1  s2 = s2  p1 = p1  p2 = p2  u1 = u1  u2 = u2
  None = None
  Sources = {s1, s2}
  Pipelines = {p1, p2}
  Findings <- MCFindings
  Users = {u1, u2}
  NChunks = 1
  MaxVersions = 2
  MaxRuns = 3
  MaxEdits = 1
  MaxFaults = 1
  MaxReviews = 2
  MaxPromotions = 1
SYMMETRY MCSymmetry
INVARIANT RevokedIsQuarantined
INVARIANT ApprovedIsPublished
PROPERTY VersionsAreKept
PROPERTY RevocationStands
CHECK_DEADLOCK FALSE
