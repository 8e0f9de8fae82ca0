SPECIFICATION Spec
CONSTANTS
  None = None
  p = p
  c1 = c1
  c2 = c2
  Producer = p
  Consumers = {c1, c2}
  Closers = {p, c1, c2}
  Uses <- AllUses
  VT_CMD_FIFO_SIZE = 4
  Pending = 2
SYMMETRY Exchanged
INVARIANTS
  TypeOK
  GameModeReaches
  StatusReaches
  BufferPollerWoken
  PollCmdWoken
