SPECIFICATION Spec
CONSTANTS
  Bits = 2
  Conn = {c1, c2, c3, c4}
  Capacity = 15
  AuthorityCapacity = 4
  Positions = {0, 1, 2, 8, 16}
  HostRanges = {}
  Nowhere = Nowhere
SYMMETRY ConnSymmetry
INVARIANT
  HomeOwnsPosition
