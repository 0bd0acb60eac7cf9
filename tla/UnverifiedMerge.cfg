CONSTANTS
  Agents = {a1, a2}
  Drafts = {d1}
  MaxReceipts = 2
  None = None
SYMMETRY Symmetry
SPECIFICATION Spec
INVARIANTS
  OnlyVerifiedPatchesMerge
CHECK_DEADLOCK FALSE
