SPECIFICATION Spec
CONSTANTS
  s1 = s1
  s2 = s2
  s3 = s3
  Servers = {s1, s2}
  Configs = {{s1}, {s1, s2}}
  Startup = {s1}
  Provider = "file"
  Listings <- NoListings
  Found <- Nothing
  Signals = TRUE
  PollEvery = 0
  HealthEnabled = TRUE
  Interval = 2
  ProbeTimeout = 1
  HealthyThreshold = 1
  UnhealthyThreshold = 1
INVARIANTS
  ForgetsRemoved
