SPECIFICATION Spec
CONSTANTS
  Managed = {m1, m2}
  External = own
  MaxFaults = 0
  MaxCrashes = 1
INVARIANT
  AtomicAfterAnyCrash
CHECK_DEADLOCK FALSE
