SPECIFICATION FairSpec
CONSTANTS
  monitor = monitor
  writer = writer
  u1 = u1
  u2 = u2
  h1 = h1
  h2 = h2
  h3 = h3
  None = None
  Holders = {u1, u2}
  Handles = {h1, h2, h3}
  Monitor = monitor
  Writers = {writer}
  MAX_KEEP_FRAME = 2
  START_KEEP_ID = 1
  MaxId = 3
  Uses <- MCUses
CHECK_DEADLOCK FALSE
INVARIANTS
  TypeOK
  ReferencesBalanced
  KeptWhileHeld
PROPERTIES
  UnmaskedFreed
