SPECIFICATION FairSpec
CONSTANTS
  c1 = c1
  c2 = c2
  c3 = c3
  h1 = h1
  h2 = h2
  Keys = {k1}
  Payloads = {p1}
  Values = {v1}
  Callers = {c1, c2, c3}
  Hosts = {h1, h2}
  HostOf <- TwoHosts
  Ids = {i1, i2, i3, i4}
  None = None
  MaxForeign = 0
PROPERTIES
  EveryCallReturns
  AdmittedCommits
