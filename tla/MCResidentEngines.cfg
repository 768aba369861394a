SPECIFICATION FairSpec
CONSTANTS
  Models = {m1, m2}
  Starters = {s1}
  Stoppers = {p1}
  NoModel = NoModel
  NoThread = NoThread
  MaxEpoch = 3
INVARIANTS
  EngineIsOwned
PROPERTIES
  RollbackIsOwn
  NoStartUnderDeleteLease
  StartsReturn
CHECK_DEADLOCK FALSE
