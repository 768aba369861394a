SPECIFICATION FairSpec
CONSTANTS
  r1 = r1
  r2 = r2
  m1 = m1
  Runs = {r1, r2}
  Models = {m1}
  NoRun = NoRun
  NoModel = NoModel
  ModelOf <- MCModelOf
  Images = 2
  MaxPending = 2
  MaxStops = 2
INVARIANTS
  ProcessIsInHand
PROPERTIES
  CancelIsFinal
  EveryRunFinishes
CHECK_DEADLOCK FALSE
