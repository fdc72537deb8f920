SPECIFICATION ProcessSpec
CONSTANTS
  r1 = r1
  r2 = r2
  r3 = r3
  s1 = s1
  s2 = s2
  NoServer = NoServer
  Requests = {r1}
  Repeatable = {r1}
  Servers = {s1, s2}
  MaxRetries = 1
  ShutdownTimeout = 1
  MaxTransitions = 0
  QueueDepth = 1
  MaxBatch = 1
  MaxWrites = 1
CHECK_DEADLOCK FALSE
INVARIANTS
  AttemptsCounted
