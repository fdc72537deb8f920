SPECIFICATION Spec
CONSTANTS
  s1 = s1
  s2 = s2
  r1 = r1
  r2 = r2
  Nobody = Nobody
  Requests = {r1, r2}
  Servers = {s1}
  Pools = {{s1}}
  Outcomes = {"success", "failure"}
  MaxGen = 2
  FailureThreshold = 1
  Cooldown = 2
  MaxAge = 2
PROPERTIES
  KeepsGeneration
