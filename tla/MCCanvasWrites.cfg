SPECIFICATION FairSpec
CONSTANTS
  Fields = {"x", "y"}
  MaxEdits = 3
  MaxRetries = 1
  MaxFaults = 4
  MaxLocks = 2
  StraysAreQuick = TRUE
INVARIANTS
  QueueKeepsItsBooks
PROPERTIES
  SavedMeansSaved
  EditsSettle
CHECK_DEADLOCK FALSE
