SPECIFICATION Spec
CONSTANTS
  p1 = p1
  p2 = p2
  c1 = c1
  t1 = t1
  t2 = t2
  t3 = t3
  None = None
  Producers = {p1, p2}
  Consumers = {c1}
  Threads = {t1, t2, t3}
  SessionOf <- TwoProducers
  Closers = {p1, p2, c1}
  Abandon = TRUE
  VT_POOL_SIZE = 2
  Limit = 2
  Calls = {"queue", "dequeue", "acquire", "release"}
  FdCount = 1
INVARIANTS
  StatusTellsFifo
  ReferencesBalanced
PROPERTIES
  ImplementsExchange
