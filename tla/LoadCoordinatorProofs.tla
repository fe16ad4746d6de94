----------------------- MODULE LoadCoordinatorProofs -----------------------
(***************************************************************************)
(* The rounds of the coordinator for every ramp, number of players and     *)
(* number of shards, whatever the workers and shards do and however late   *)
(* the deadline comes; and a variant that every step of the coordinator    *)
(* decreases but the one that begins another sweep before the deadline.    *)
(***************************************************************************)
EXTENDS LoadCoordinator, FiniteSetTheorems, TLAPS

(* Worker i was never started, or has exited and was waited for. *)
Ended(i) == worker[i] # "running" /\ (worker[i] # "none" => i \in reaped)

(* It was counted, if it exited with 0. *)
Counted(i) == worker[i] = "zero" => i \in succeeded

InRound == phase \in {"spawn", "poll", "sweep", "tally", "decide"}

(* What the parts of a round have established so far: a sweep that has met *)
(* no running worker knows that all before its index have ended, and the   *)
(* kills start with everybody ended and counted unless the round is late.  *)
Progress ==
  /\ phase \in {"poll", "decide", "ramp", "stop", "done"} => next = 1
  /\ phase = "shards" => \A i \in Worker : worker[i] = "none"
  /\ phase = "spawn" => reaped = {} /\ succeeded = {} /\ ~ allReaped
  /\ InRound => playerCount <= MaxPlayers
  /\ InRound => \A i \in Worker : i > playerCount => worker[i] = "none"
  /\ \A i \in succeeded : worker[i] = "zero"
  /\ \A i \in reaped : worker[i] # "running"
  /\ phase \in {"poll", "sweep"} => \A i \in reaped : Counted(i)
  /\ phase = "poll" /\ allReaped => \A i \in Worker : Ended(i)
  /\ phase = "sweep" /\ allReaped => \A i \in Worker : i < next => Ended(i)
  /\ phase = "tally" => \A i \in Worker : i < next => Ended(i)
  /\ phase = "tally" => late \/ \A i \in Worker : Ended(i) /\ Counted(i)
  /\ phase = "decide" => late \/ \A i \in Worker : Counted(i)
  /\ phase \in {"decide", "ramp", "stop", "done"} => \A i \in Worker : Ended(i)

IInv == TypeOK /\ Progress

(* The ramp starts with no worker. *)
LEMMA InitIInv == Init => IInv
<1> SUFFICES ASSUME Init PROVE IInv
  OBVIOUS
<1> USE RampStartAssumption, MaxPlayersAssumption, ShardCountAssumption
<1>1. TypeOK
  <2>1. phase \in {"shards", "ramp"} /\ (phase = "shards" => 1 <= ShardCount)
    BY DEF Init
  <2>2. allReaped \in BOOLEAN /\ late \in BOOLEAN
    BY Zenon DEF Init
  <2>3. /\ shard \in [Shard -> {"none", "running", "exited", "killed"}]
        /\ worker \in [Worker -> {"none", "running", "zero", "nonzero", "killed"}]
        /\ reaped \subseteq Worker /\ succeeded \subseteq Worker
    BY DEF Init
  <2>4. /\ next = 1 /\ playerCount \in Nat /\ lastGood \in Nat
        /\ 1 <= playerCount
    BY DEF Init
  <2> QED BY <2>1, <2>2, <2>3, <2>4 DEF TypeOK
<1>2. Progress
  BY DEF Init, Progress, Ended, Counted, InRound, Worker
<1> QED BY <1>1, <1>2 DEF IInv

(* Every step keeps the type. *)
LEMMA NextTypeOK == IInv /\ [Next]_vars => TypeOK'
<1> SUFFICES ASSUME IInv, [Next]_vars PROVE TypeOK'
  OBVIOUS
<1> USE RampStartAssumption, MaxPlayersAssumption, ShardCountAssumption
<1> USE DEF IInv, TypeOK, Progress, InRound, Worker, Shard
<1>1. CASE SpawnShardServer
  <2>1. shard' \in [Shard -> {"none", "running", "exited", "killed"}]
    BY <1>1 DEF SpawnShardServer
  <2>2. /\ next' \in Nat \ {0} /\ phase' \in {"shards", "ramp"}
        /\ phase' = "shards" => next' <= ShardCount
        /\ phase' # "shards" => next' = 1
    BY <1>1 DEF SpawnShardServer, Step
  <2> QED BY <1>1, <2>1, <2>2 DEF SpawnShardServer, round
<1>2. CASE StartRound
  BY <1>2 DEF StartRound, round
<1>3. CASE SpawnWorker
  BY <1>3 DEF SpawnWorker, Step
<1>4. CASE ModuloByZero
  BY <1>4 DEF ModuloByZero, round
<1>5. CASE StartSweep
  BY <1>5 DEF StartSweep
<1>6. CASE PollChild
  <2>1. next \in Worker
    BY <1>6 DEF PollChild
  <2>2. reaped' \subseteq Worker /\ succeeded' \subseteq Worker
    BY <1>6, <2>1 DEF PollChild
  <2>3. allReaped' \in BOOLEAN
    BY <1>6, Zenon DEF PollChild
  <2>4. /\ next' \in Nat \ {0} /\ phase' \in {"sweep", "poll"}
        /\ next' <= playerCount
    BY <1>6 DEF PollChild, Step
  <2> QED BY <1>6, <2>2, <2>3, <2>4 DEF PollChild
<1>7. CASE ForceKill
  BY <1>7 DEF ForceKill, Step
<1>8. CASE Decide
  BY <1>8 DEF Decide, round
<1>9. CASE StopShards
  BY <1>9 DEF StopShards, round
<1>10. CASE WorkerExit
  BY <1>10 DEF WorkerExit
<1>11. CASE ShardExit
  BY <1>11 DEF ShardExit, round
<1>12. CASE Deadline
  BY <1>12 DEF Deadline
<1>13. CASE UNCHANGED vars
  BY <1>13 DEF vars, round
<1> QED BY <1>1, <1>2, <1>3, <1>4, <1>5, <1>6, <1>7, <1>8, <1>9, <1>10, <1>11,
           <1>12, <1>13 DEF Next, Coordinator

(* Every step keeps what the round has established. *)
LEMMA NextProgress == IInv /\ [Next]_vars => Progress'
<1> SUFFICES ASSUME IInv, [Next]_vars PROVE Progress'
  OBVIOUS
<1> USE RampStartAssumption, MaxPlayersAssumption, ShardCountAssumption
<1> USE DEF IInv, TypeOK, Progress, InRound, Worker, Shard, Ended, Counted
<1>1. CASE SpawnShardServer
  BY <1>1 DEF SpawnShardServer, Step, round
<1>2. CASE StartRound
  BY <1>2 DEF StartRound, round
<1>3. CASE SpawnWorker
  BY <1>3 DEF SpawnWorker, Step
<1>4. CASE ModuloByZero
  BY <1>4 DEF ModuloByZero, round
<1>5. CASE StartSweep
  BY <1>5 DEF StartSweep
<1>6. CASE PollChild
  <2>1. /\ next \in Worker /\ phase = "sweep" /\ phase' \in {"sweep", "poll"}
        /\ UNCHANGED <<worker, playerCount, late>>
    BY <1>6 DEF PollChild, Step
  <2>2. CASE next \in reaped \/ worker[next] = "none"
    <3>1. UNCHANGED <<reaped, succeeded, allReaped>> /\ Ended(next)
      BY <1>6, <2>2 DEF PollChild
    <3> QED BY <1>6, <2>1, <3>1 DEF PollChild, Step
  <2>3. CASE next \notin reaped /\ worker[next] = "running"
    <3>1. ~ allReaped' /\ UNCHANGED <<reaped, succeeded>>
      BY <1>6, <2>3 DEF PollChild
    <3> QED BY <1>6, <2>1, <3>1 DEF PollChild, Step
  <2>4. CASE next \notin reaped /\ worker[next] \notin {"none", "running"}
    <3>1. /\ reaped' = reaped \cup {next} /\ UNCHANGED allReaped
          /\ succeeded' = IF worker[next] = "zero" THEN succeeded \cup {next} ELSE succeeded
      BY <1>6, <2>4 DEF PollChild
    <3> QED BY <1>6, <2>1, <2>4, <3>1 DEF PollChild, Step
  <2> QED BY <2>2, <2>3, <2>4
<1>7. CASE ForceKill
  BY <1>7 DEF ForceKill, Step
<1>8. CASE Decide
  BY <1>8 DEF Decide, round
<1>9. CASE StopShards
  BY <1>9 DEF StopShards, round
<1>10. CASE WorkerExit
  BY <1>10 DEF WorkerExit
<1>11. CASE ShardExit
  BY <1>11 DEF ShardExit, round
<1>12. CASE Deadline
  BY <1>12 DEF Deadline
<1>13. CASE UNCHANGED vars
  BY <1>13 DEF vars, round
<1> QED BY <1>1, <1>2, <1>3, <1>4, <1>5, <1>6, <1>7, <1>8, <1>9, <1>10, <1>11,
           <1>12, <1>13 DEF Next, Coordinator

(* The inductive invariant of the coordinator. *)
THEOREM RoundInvariant == Spec => []IInv
<1>1. IInv /\ [Next]_vars => IInv'
  BY NextTypeOK, NextProgress DEF IInv
<1> QED BY <1>1, InitIInv, PTL DEF Spec

(* Type correctness: a loop index is never past the workers of its round.  *)
THEOREM CoordinatorTypeOK == Spec => []TypeOK
BY RoundInvariant, PTL DEF IInv

(* No worker runs on, or is left unwaited for, once its round is judged.   *)
THEOREM StragglersEnd == Spec => []NoWorkerOutlivesItsRound
<1>1. IInv => NoWorkerOutlivesItsRound
  BY DEF IInv, Progress, NoWorkerOutlivesItsRound, Ended
<1> QED BY <1>1, RoundInvariant, PTL

(* What runRound returns counts workers that exited with 0, and all of     *)
(* them unless the round was late.                                         *)
THEOREM SuccessesCounted == Spec => []SuccessesAreExits
<1>1. IInv => SuccessesAreExits
  BY DEF IInv, Progress, SuccessesAreExits, Counted
<1> QED BY <1>1, RoundInvariant, PTL

-----------------------------------------------------------------------------
(* How far the ramp may still go: rounds left, more than any of them before*)
(* the shards are started, and what is left of the round, in units of one  *)
(* look at one worker.                                                     *)
RoundsLeft ==
  IF phase = "shards" THEN MaxPlayers + 2
  ELSE IF phase \in {"stop", "done", "crashed"} THEN 0
  ELSE IF playerCount > MaxPlayers THEN 1
  ELSE (MaxPlayers + 2) - playerCount

StepsLeft ==
  LET looks == (playerCount + 1) - next
  IN  CASE phase = "shards" -> (ShardCount + 1) - next
        [] phase = "ramp"   -> 3 * playerCount + 3
        [] phase = "spawn"  -> 2 * playerCount + 2 + looks
        [] phase = "sweep"  -> playerCount + 2 + looks
        [] phase = "poll"   -> playerCount + 2
        [] phase = "tally"  -> 1 + looks
        [] phase \in {"decide", "stop"} -> 1
        [] OTHER -> 0

(* The way to the end gets shorter. *)
Closer ==
  RoundsLeft' < RoundsLeft \/ (RoundsLeft' = RoundsLeft /\ StepsLeft' < StepsLeft)

(* "one hung connection can't hang the whole ramp" (runRound): the only    *)
(* step of the coordinator that does not bring the end of the ramp closer  *)
(* is to begin another sweep, and that needs a round that is not late and  *)
(* a worker that was seen running.  Nothing a process does, or the         *)
(* deadline, puts the end off.                                             *)
OnlySweepsRepeat ==
  [][/\ Coordinator => Closer \/ (phase = "poll" /\ ~ allReaped /\ ~ late)
     /\ ~ Coordinator => RoundsLeft' = RoundsLeft /\ StepsLeft' = StepsLeft]_vars

(* The way to the end is counted in naturals, so it is finite.             *)
WayIsFinite == RoundsLeft \in Nat /\ StepsLeft \in Nat

(* Both counts are naturals in every state of the coordinator.             *)
LEMMA WayCounted == IInv => WayIsFinite
<1> SUFFICES ASSUME IInv PROVE WayIsFinite
  OBVIOUS
<1> USE MaxPlayersAssumption, ShardCountAssumption DEF IInv, TypeOK, Progress, InRound
<1>1. RoundsLeft \in Nat
  BY DEF RoundsLeft
<1>2. StepsLeft \in Nat
  BY DEF StepsLeft
<1> QED BY <1>1, <1>2 DEF WayIsFinite

(* Each step of the coordinator is one closer to its end, but for a sweep. *)
LEMMA CoordinatorCloser ==
  IInv /\ Coordinator => Closer \/ (phase = "poll" /\ ~ allReaped /\ ~ late)
<1> SUFFICES ASSUME IInv, Coordinator, ~ (phase = "poll" /\ ~ allReaped /\ ~ late)
             PROVE  Closer
  OBVIOUS
<1> USE RampStartAssumption, MaxPlayersAssumption, ShardCountAssumption
<1> USE DEF IInv, TypeOK, Progress, InRound, Closer, RoundsLeft, StepsLeft
<1>1. CASE SpawnShardServer
  BY <1>1 DEF SpawnShardServer, Step, round
<1>2. CASE StartRound
  BY <1>2 DEF StartRound, round
<1>3. CASE SpawnWorker
  BY <1>3 DEF SpawnWorker, Step
<1>4. CASE ModuloByZero
  BY <1>4 DEF ModuloByZero, round
<1>5. CASE StartSweep
  BY <1>5 DEF StartSweep
<1>6. CASE PollChild
  BY <1>6 DEF PollChild, Step
<1>7. CASE ForceKill
  BY <1>7 DEF ForceKill, Step
<1>8. CASE Decide
  BY <1>8 DEF Decide, round
<1>9. CASE StopShards
  BY <1>9 DEF StopShards, round
<1> QED BY <1>1, <1>2, <1>3, <1>4, <1>5, <1>6, <1>7, <1>8, <1>9 DEF Coordinator

(* The variant of the ramp: the argument for RampEnds but for its fairness.*)
THEOREM RampRunsDown == Spec => OnlySweepsRepeat /\ []WayIsFinite
<1>1. IInv /\ [Next]_vars =>
        [/\ Coordinator => Closer \/ (phase = "poll" /\ ~ allReaped /\ ~ late)
         /\ ~ Coordinator => RoundsLeft' = RoundsLeft /\ StepsLeft' = StepsLeft]_vars
  <2> SUFFICES ASSUME IInv, Next, ~ Coordinator
               PROVE  RoundsLeft' = RoundsLeft /\ StepsLeft' = StepsLeft
    BY CoordinatorCloser
  <2>1. UNCHANGED <<phase, next, playerCount>>
    BY DEF Next, WorkerExit, ShardExit, Deadline
  <2> QED BY <2>1 DEF RoundsLeft, StepsLeft
<1> QED BY <1>1, RoundInvariant, WayCounted, PTL DEF Spec, OnlySweepsRepeat
-----------------------------------------------------------------------------
(* Workers of the round that exited with 0. *)
ExitedZero == {i \in Worker : worker[i] = "zero"}

(* The result of the ramp is earned (runCoordinator): lastGood only grows, *)
(* to the players of a round that is over, of whose workers nine in ten    *)
(* did exit with 0.                                                        *)
ResultEarned ==
  [][lastGood' # lastGood =>
       /\ lastGood < lastGood' /\ lastGood' = playerCount /\ lastGood' <= MaxPlayers
       /\ 9 * playerCount <= 10 * Cardinality(ExitedZero)
       /\ \A i \in Worker : worker[i] # "running"]_vars

(* The round is always beyond the last good one. *)
Ahead == lastGood < playerCount

(* Every step keeps the round beyond the last good one. *)
LEMMA NextAhead == IInv /\ Ahead /\ [Next]_vars => Ahead'
<1> SUFFICES ASSUME IInv, Ahead, [Next]_vars, UNCHANGED <<lastGood, playerCount>> \/ Decide
             PROVE  Ahead'
  BY DEF Next, Coordinator, SpawnShardServer, StartRound, SpawnWorker, ModuloByZero,
         StartSweep, PollChild, ForceKill, StopShards, WorkerExit, ShardExit, Deadline, vars
<1> QED BY DEF Ahead, IInv, TypeOK, Decide

(* A success that was counted is a worker that exited with 0. *)
LEMMA SuccessesFew ==
  ASSUME IInv
  PROVE  /\ Cardinality(succeeded) \in Nat /\ Cardinality(ExitedZero) \in Nat
         /\ Cardinality(succeeded) <= Cardinality(ExitedZero)
<1>1. IsFiniteSet(Worker)
  BY FS_Interval, MaxPlayersAssumption DEF Worker
<1>2. IsFiniteSet(ExitedZero)
  BY <1>1, FS_Subset DEF ExitedZero
<1>3. succeeded \subseteq ExitedZero
  BY DEF IInv, TypeOK, Progress, ExitedZero
<1> QED BY <1>2, <1>3, FS_Subset, FS_CardinalityType

(* lastGood is never more than was measured: ResultEarned of the ramp.     *)
THEOREM RampResultEarned == Spec => ResultEarned
<1>1. IInv /\ Ahead /\ [Next]_vars =>
        [lastGood' # lastGood =>
           /\ lastGood < lastGood' /\ lastGood' = playerCount /\ lastGood' <= MaxPlayers
           /\ 9 * playerCount <= 10 * Cardinality(ExitedZero)
           /\ \A i \in Worker : worker[i] # "running"]_vars
  <2> SUFFICES ASSUME IInv, Ahead, Next, lastGood' # lastGood
               PROVE  /\ lastGood < lastGood' /\ lastGood' = playerCount
                      /\ lastGood' <= MaxPlayers
                      /\ 9 * playerCount <= 10 * Cardinality(ExitedZero)
                      /\ \A i \in Worker : worker[i] # "running"
    OBVIOUS
  <2>1. Decide
    BY DEF Next, Coordinator, SpawnShardServer, StartRound, SpawnWorker, ModuloByZero,
           StartSweep, PollChild, ForceKill, StopShards, WorkerExit, ShardExit, Deadline
  <2>2. /\ phase = "decide" /\ lastGood' = playerCount
        /\ ~ (10 * (playerCount - Cardinality(succeeded)) > playerCount)
    BY <2>1 DEF Decide
  <2>3. playerCount \in Nat /\ lastGood < playerCount /\ playerCount <= MaxPlayers
    BY <2>2 DEF IInv, TypeOK, Progress, InRound, Ahead
  <2>4. 9 * playerCount <= 10 * Cardinality(ExitedZero)
    BY <2>2, <2>3, SuccessesFew
  <2>5. \A i \in Worker : worker[i] # "running"
    BY <2>2 DEF IInv, Progress, Ended
  <2> QED BY <2>2, <2>3, <2>4, <2>5
<1>2. Init => Ahead
  BY RampStartAssumption DEF Init, Ahead
<1> QED BY <1>1, <1>2, NextAhead, RoundInvariant, PTL DEF Spec, ResultEarned
=============================================================================
