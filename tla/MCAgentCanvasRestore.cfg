SPECIFICATION Spec
CONSTANTS
  Layers = {l1, l2}
  FirstLayers = {l1}
  Places = {0}
  Tasks = {t1}
  Users = {u1}
  Cap = 2
  MaxEdits = 1
  MaxTools = 1
  MaxSaves = 3
  MaxCrashes = 1
INVARIANTS RestoreIsUndoable
CHECK_DEADLOCK FALSE
