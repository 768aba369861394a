SPECIFICATION FairSpec
CONSTANTS
  MaxMoves = 2
  MaxToggles = 2
  MaxOthers = 1
  MaxFaults = 1
  Unset = Unset
INVARIANTS
  WhatWasToldStays
PROPERTIES
  MovesAreKept
  IntentsSettle
CHECK_DEADLOCK FALSE
