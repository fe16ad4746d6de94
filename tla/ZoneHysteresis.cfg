SPECIFICATION HysteresisSpec
CONSTANTS
  Bits = 2
  Conn = {c1, c2}
  Capacity = 8
  AuthorityCapacity = 1
  Positions = {0, 1, 8, 16, 24}
  HostRanges <- ThreeZones
  Nowhere = Nowhere
  RttSamples = {0, 2}
  StreakBound = 3
INVARIANTS
  RecordsAreFresh
  StagedForOwner
PROPERTIES
  CrossingKeepsEntity
  NoEarlyMigration
  SteadyCrossingCommits
