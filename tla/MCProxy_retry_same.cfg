SPECIFICATION Spec
CONSTANTS
  s1 = s1
  s2 = s2
  r1 = r1
  r2 = r2
  r3 = r3
  NoBackend = NoBackend
  Requests = {r1, r2}
  Backends = {s1, s2}
  Slots <- TwoSlots
  Strategy = "ip_hash"
  MaxRetries = 1
  FailureThreshold = 2
  Cooldown = 2
  MaxAge = 2
  Timeout = 1
  Flapping = {}
  ReadyzPolled = FALSE
PROPERTIES
  RetrySkipsFailed
