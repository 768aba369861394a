SPECIFICATION Spec
CONSTANTS
  Models = {m1, m2}
  Starters = {s1}
  Stoppers = {p1}
  NoModel = NoModel
  NoThread = NoThread
  MaxEpoch = 3
CHECK_DEADLOCK FALSE
INVARIANT StatusIsTrue
