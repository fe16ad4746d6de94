SPECIFICATION Spec
CONSTANTS
  PlayerCount = 2
  TickPackets = 1
  MaxFaults = 0
PROPERTY Returns
CHECK_DEADLOCK FALSE
