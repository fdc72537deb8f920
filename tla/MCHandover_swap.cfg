SPECIFICATION Spec
CONSTANTS
  s1 = s1
  s2 = s2
  r1 = r1
  r2 = r2
  Nobody = Nobody
  Requests = {r1, r2}
  Servers = {s1, s2}
  Pools = {{s1}, {s1, s2}}
  Outcomes = {"success", "failure"}
  MaxGen = 2
  FailureThreshold = 2
  Cooldown = 2
  MaxAge = 2
SYMMETRY Interchangeable
INVARIANTS
  DriftBounded
PROPERTIES
  KeepsUntouched
