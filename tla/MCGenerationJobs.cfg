SPECIFICATION FairSpec
CONSTANTS
  a = a
  b = b
  f = f
  g = g
  Runs = {a, b}
  NoRun = NoRun
  Fingerprints = {f, g}
  Mixes <- MCMixes
  Count = 2
  MaxPollErrors = 3
  MaxCrashes = 1
INVARIANTS
  KeysAreFaithful
  FilesAreKept
PROPERTIES
  StatusIsTrueAndFinal
  JobsSettle
CHECK_DEADLOCK FALSE
