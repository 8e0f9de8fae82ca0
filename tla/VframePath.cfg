SPECIFICATION FairSpec
CONSTANTS
  Providers = {p1, p2}
  Source = p1
  Tables <- MCTables
  Getters = {g}
  Askers = {a}
  Notifiers = {n}
  Polls = 1
  CLOSED_CNT <- MCClosed
  Upstream <- MCUpstream
  p2 = p2
  g = g
  a = a
  n = n
INVARIANTS
  TypeOK
  UsersCounted
  NoOpOnceTold
  GettersGone
  PathCurrent
PROPERTIES
  UnregReturns
