SPECIFICATION Spec
CONSTANTS
  PlayerCount = 2
  TickPackets = 2
  MaxFaults = 1
INVARIANTS TypeOK NoReceiveAbandoned DoneWasAccepted 
PROPERTIES RequestAnswered WorkerReturns
CHECK_DEADLOCK FALSE
