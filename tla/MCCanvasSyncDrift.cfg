SPECIFICATION Spec
CONSTANTS
  MaxMoves = 1
  MaxToggles = 1
  MaxOthers = 1
  MaxFaults = 0
  Unset = Unset
PROPERTIES
  ResyncRepairs
CHECK_DEADLOCK FALSE
