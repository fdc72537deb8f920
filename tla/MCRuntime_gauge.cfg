SPECIFICATION Spec
CONSTANTS
  s1 = s1
  s2 = s2
  s3 = s3
  Servers = {s1}
  Configs = {{s1}}
  Startup = {s1}
  Provider = "file"
  Listings <- NoListings
  Found <- Nothing
  Signals = TRUE
  PollEvery = 0
  HealthEnabled = TRUE
  Interval = 1
  ProbeTimeout = 0
  HealthyThreshold = 1
  UnhealthyThreshold = 1
INVARIANTS
  GaugeTellsHealth
