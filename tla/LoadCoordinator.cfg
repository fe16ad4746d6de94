SPECIFICATION Spec
CONSTANTS
  RampStart = 1
  MaxPlayers = 4
  ShardCount = 2
INVARIANTS TypeOK NoWorkerOutlivesItsRound SuccessesAreExits
PROPERTIES RampEnds
CHECK_DEADLOCK FALSE
