SPECIFICATION Spec
CONSTANTS
  BakeryCpus = 2
  Tickets = 4
  Hoisted = FALSE
INVARIANTS
  AlwaysExclusive
CHECK_DEADLOCK FALSE
