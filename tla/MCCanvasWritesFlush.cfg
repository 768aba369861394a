SPECIFICATION FairSpec
CONSTANTS
  Fields = {"x", "y"}
  MaxEdits = 2
  MaxRetries = 1
  MaxFaults = 1
  MaxLocks = 0
  StraysAreQuick = FALSE
CHECK_DEADLOCK FALSE
PROPERTIES
  FlushResolves
  \* or, in its place: NoLateOverwrite
