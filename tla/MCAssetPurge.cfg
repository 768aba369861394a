SPECIFICATION FairSpec
CONSTANTS
  s1 = s1
  c1 = c1
  a1 = a1
  a2 = a2
  u1 = u1
  ps = ps
  p1 = p1
  p2 = p2
  pu = pu
  x1 = x1
  x2 = x2
  None = None
  Assets = {s1, c1, a1, u1}
  Paths <- MCPaths
  PathOf <- MCPathOf
  Seeded = {s1, a1}
  Clones = {c1}
  Samples = {ps}
  Purges = {x1}
  MaxFaults = 2
  MaxCrashes = 1
  SweepsWhenWhole = TRUE
INVARIANTS
  RowsKeepTheirBytes
PROPERTIES
  PromisesHold
  StartsSucceed
