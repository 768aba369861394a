SPECIFICATION Spec
CONSTANTS
  Managed = {m1, m2}
  External = own
  MaxFaults = 2
  MaxCrashes = 1
INVARIANTS
  DeletedStaysDeleted
  \* or, in its place: FailedIsWhole
CHECK_DEADLOCK FALSE
