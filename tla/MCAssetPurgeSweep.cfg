SPECIFICATION Spec
CONSTANTS
  s1 = s1
  c1 = c1
  a1 = a1
  a2 = a2
  u1 = u1
  ps = ps
  p1 = p1
  p2 = p2
  pu = pu
  x1 = x1
  x2 = x2
  None = None
  Assets = {a1}
  Paths <- MCPaths
  PathOf <- MCPathOf
  Seeded = {a1}
  Clones = {}
  Samples = {}
  Purges = {x1}
  MaxFaults = 2
  MaxCrashes = 0
  SweepsWhenWhole = FALSE
PROPERTIES
  OwnedFilesAreSwept
  \* or, in its place: TrashHoldsWhatIsPurged
