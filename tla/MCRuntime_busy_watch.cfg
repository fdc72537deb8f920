SPECIFICATION FairSpec
CONSTANTS
  s1 = s1
  s2 = s2
  s3 = s3
  Servers = {s1}
  Configs = {{s1}}
  Startup = {s1}
  Provider = "file"
  Listings <- NoListings
  Found <- Nothing
  Signals = FALSE
  PollEvery = 3
  HealthEnabled = TRUE
  Interval = 2
  ProbeTimeout = 1
  HealthyThreshold = 2
  UnhealthyThreshold = 2
PROPERTIES
  GoesDown
