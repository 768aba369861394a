SPECIFICATION Spec
CONSTANTS
  Assets = {a1}
  MaxRestores = 1
  MaxCrashes = 1
  MaxFaults = 2
  SplitIsLeftAlone = FALSE
INVARIANT BootCanRollBack
