SPECIFICATION Spec
CONSTANTS
  Lengths <- SomeLengths
  Tag <- TheTag
  Key <- Keys
  LogEntries <- SomeEntries
  Others <- SomeOthers
  MaxBatch = 2
  MaxDepth = 3
CHECK_DEADLOCK FALSE
INVARIANTS
  TypeOK
  ReadBack
  StableBytes
  Narrowest
