SPECIFICATION Spec
CONSTANTS
  c1 = c1
  c2 = c2
  c3 = c3
  h1 = h1
  h2 = h2
  Keys = {k1, k2}
  Payloads = {p1, p2}
  Values = {v1, v2}
  Callers = {c1, c2}
  Hosts = {h1, h2}
  HostOf <- OneEach
  Ids = {i1, i2, i3}
  None = None
  MaxForeign = 1
SYMMETRY Symmetry
INVARIANTS
  RepliesAgree
  ReceiptsOwnTheirEvents
  EventsOnce
PROPERTIES
  OnlyLeaseHolderSettles
  ImplementsPromise
