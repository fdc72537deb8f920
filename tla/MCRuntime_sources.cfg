SPECIFICATION Spec
CONSTANTS
  s1 = s1
  s2 = s2
  s3 = s3
  Servers = {s1, s2}
  Configs = {{}, {s1}}
  Startup = {s1}
  Provider = "dns"
  Listings <- Orders
  Found <- Nothing
  Signals = TRUE
  PollEvery = 3
  HealthEnabled = TRUE
  Interval = 2
  ProbeTimeout = 1
  HealthyThreshold = 1
  UnhealthyThreshold = 1
INVARIANTS
  ProbesCoverPool
  PoolOfSources
  VerdictsStand
PROPERTIES
  NeverEmptied
  RotationIgnored
