SPECIFICATION FairSpec
CONSTANTS
  Contexts = {c1, c2, c3}
  Tokens = {t1, t2, t3, t4}
  Operations = {backup, restore}
  NoOp = NoOp
  NoToken = NoToken
  Abandonable = {t1}
INVARIANTS
  OwnerIsAlone
  CountsAreHolders
PROPERTIES
  WorkIsCovered
  ImplementsExclusion
  ExclusiveWorkGoesOn
