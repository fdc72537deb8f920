SPECIFICATION FairProcess
CONSTANTS
  r1 = r1
  r2 = r2
  r3 = r3
  s1 = s1
  s2 = s2
  NoServer = NoServer
  Requests = {r1, r2}
  Repeatable = {r1}
  Servers = {s1}
  MaxRetries = 1
  ShutdownTimeout = 1
  MaxTransitions = 1
  QueueDepth = 1
  MaxBatch = 2
  MaxWrites = 3
CHECK_DEADLOCK FALSE
INVARIANTS
  Accounted
  InOrder
  CloseDelivers
  CutOnlyByTimeout
  LogsKept
  TotalsExplained
PROPERTIES
  RefinesSink
  Ends
  EntriesLeave
