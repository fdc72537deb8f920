SPECIFICATION FairSpec
CONSTANTS
  n1 = n1
  n2 = n2
  s1 = s1
  Self = Self
  Nodes = {n1, n2}
  Servers = {s1}
  MaxTerm = 2
  MaxNet = 1
  StaleAfter = 1
  Reliable = FALSE
  Crashing = {n1}
INVARIANTS
  ViewExplained
  OnlyFirstHand
PROPERTIES
  NothingLeftBehind
