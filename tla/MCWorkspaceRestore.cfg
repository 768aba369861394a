SPECIFICATION FairSpec
CONSTANTS
  Assets = {a1}
  MaxRestores = 2
  MaxCrashes = 3
  MaxFaults = 3
  SplitIsLeftAlone = TRUE
INVARIANTS
  WorkspaceIsWhole
  PreflightsPass
PROPERTIES
  ImplementsAtomicWorkspace
  RestoresEnd
