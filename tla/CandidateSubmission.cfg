CONSTANTS
  Agents = {a1, a2}
  Drafts = {d1}
  MaxReceipts = 2
  None = None
SYMMETRY Symmetry
SPECIFICATION Spec
INVARIANTS
  RecordFollowsLedger
  ProvenStates
  RerunsAreIdempotent
CHECK_DEADLOCK FALSE
