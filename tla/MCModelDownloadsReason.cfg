SPECIFICATION Spec
CONSTANTS
  j1 = j1
  j2 = j2
  d1 = d1
  d2 = d2
  x1 = x1
  x2 = x2
  None = None
  Jobs = {j1, j2}
  Dests = {d1}
  Deletions = {x1, x2}
  DestOf <- Destination
  FilesOf <- Files
  MaxHistory = 1
  MaxPending = 1
  Budgets <- Cases
PROPERTY
  ReasonStays
CHECK_DEADLOCK FALSE
