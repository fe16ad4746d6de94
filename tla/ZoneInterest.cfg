SPECIFICATION Spec
CONSTANTS
  Bits = 1
  Conn = {c1, c2, c3, c4, c5, c6}
  Capacity = 8
  AuthorityCapacity = 4
  Positions = {0, 1, 2}
  HostRanges <- HostCells
  Nowhere = Nowhere
  PosAt <- Pos
  SpeedAt <- Speed
  RttAt <- Rtt
  InterestCapacity = 1
  Width = 3
SYMMETRY ConnSymmetry
INVARIANTS
  CeilingsHold
  NobodyTwice
  MutualInterest
  ZoneMatesAlwaysReached
PROPERTIES
  NoEntityVanishes
  OriginOnlyIfRefusedOrStale
