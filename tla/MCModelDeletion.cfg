SPECIFICATION FairSpec
CONSTANTS
  Managed = {m1, m2}
  External = own
  MaxFaults = 3
  MaxCrashes = 3
INVARIANTS
  ResidueIsJournaled
  DeletionIsAtomic
  AnswersAreTrue
PROPERTIES
  RecoveryEnds
CHECK_DEADLOCK FALSE
