SPECIFICATION FairSpec
CONSTANTS
  BakeryCpus = 3
  Tickets = 4
  Hoisted = TRUE
INVARIANTS
  TypeOK
  MutualExclusion
  FirstComeFirstServed
  AssertionsHold
PROPERTIES
  EveryTrylockReturns
CHECK_DEADLOCK FALSE
