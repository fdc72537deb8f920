SPECIFICATION Spec
CONSTANTS
  s1 = s1
  s2 = s2
  r1 = r1
  r2 = r2
  r3 = r3
  NoBackend = NoBackend
  Requests = {r1, r2, r3}
  Backends = {s1}
  Slots <- OneSlot
  Strategy = "round_robin"
  MaxRetries = 1
  FailureThreshold = 1
  Cooldown = 1
  MaxAge = 1
  Timeout = 2
  Flapping = {}
  ReadyzPolled = FALSE
INVARIANTS
  SoleTrial
