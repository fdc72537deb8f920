SPECIFICATION CommandsSpec
CONSTANTS
  s1 = s1
  s2 = s2
  Servers = {s1, s2}
  Files <- LoadedFiles
  Listings <- SomeListings
  EnvPort <- NoPort
  Docs <- SomeDocs
  MaxDepth = 3
  TheSchema <- ConfigSchema
INVARIANTS
  RetriesReloaded
