SPECIFICATION Spec
CONSTANTS
  PlayerCount = 1
  TickPackets = 1
  MaxFaults = 1
INVARIANT ServerSurvives
CHECK_DEADLOCK FALSE
