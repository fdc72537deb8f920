SPECIFICATION Spec
CONSTANTS
  n1 = n1
  n2 = n2
  s1 = s1
  Self = Self
  Nodes = {n1, n2}
  Servers = {s1}
  MaxTerm = 4
  MaxNet = 1
  StaleAfter = 1
  Reliable = FALSE
  Crashing = {}
PROPERTIES
  ReportsCount
