SPECIFICATION ConnectedSpec
CONSTANTS
  n1 = n1
  n2 = n2
  s1 = s1
  Self = Self
  Nodes = {n1, n2}
  Servers = {s1}
  MaxTerm = 2
  MaxNet = 2
  StaleAfter = 1
  Reliable = TRUE
  Crashing = {}
PROPERTIES
  Propagates
