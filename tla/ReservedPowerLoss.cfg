SPECIFICATION FairSpec
CONSTANTS
  None = None
  v1 = v1
  v2 = v2
  Values = {v1, v2}
  end_block = 4
  pages_per_blk = 4
  page_num = 2
  Nodes = 5
  Timestamps = 8
  Bad = {1}
  MaxTimestamp = 3
  MaxFailures = 1
INVARIANTS
  TypeOK
  RestartFindsNewest
  ProgramsBlankPages
  BlocksAccounted
  ReadsCurrent
PROPERTIES
  ImplementsRegister
  CallsEnd
