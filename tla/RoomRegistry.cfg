SPECIFICATION Spec
CONSTANTS
  Capacity = 2
  GenMod = 3
  MaxAllocs = 4
  Conn = {c1, c2}
  Nothing = Nothing
  Sentinel = Sentinel
  Done = Done
INVARIANTS
  TypeOK
  FreeListExact
  StaleIdNeverResolves
  RetiredIdsBehind
PROPERTY
  ImplementsDirectory
