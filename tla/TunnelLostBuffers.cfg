SPECIFICATION Spec
CONSTANTS
  p1 = p1
  p2 = p2
  c1 = c1
  t1 = t1
  t2 = t2
  t3 = t3
  None = None
  Producers = {p1}
  Consumers = {c1}
  Threads = {t1, t2}
  SessionOf <- OnePair
  Closers = {c1}
  Abandon = FALSE
  VT_POOL_SIZE = 2
  Limit = 0
  Calls = {"queue", "dequeue", "cancel", "acquire", "release", "refresh"}
  FdCount = 2
INVARIANTS
  NoBufferLost
