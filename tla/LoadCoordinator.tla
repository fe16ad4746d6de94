-------------------------- MODULE LoadCoordinator --------------------------
(***************************************************************************)
(* The coordinator of fanout_load_client_main.actor.cpp: it starts the     *)
(* shard servers, then ramps: each round starts one worker process per     *)
(* player, polls them until all have exited or the round is late, kills    *)
(* the rest, and doubles the players unless too many failed.  Workers and  *)
(* shards are processes that exit when they like, or hang.                 *)
(***************************************************************************)
EXTENDS Naturals, FiniteSets

CONSTANTS RampStart, MaxPlayers, ShardCount   \* the command line

(* A ramp from 0 players doubles for ever; the doubling of an int is not   *)
(* taken near its limit.                                                   *)
ASSUME RampStartAssumption == RampStart \in Nat \ {0}
ASSUME MaxPlayersAssumption == MaxPlayers \in Nat
ASSUME ShardCountAssumption == ShardCount \in Nat \ {0}

VARIABLES
  phase,        \* where runCoordinator or runRound is
  next,         \* the loop index in that phase
  playerCount,  \* players of this round
  lastGood,     \* the result: players of the last good round
  shard,        \* processes: "none", "running", "exited", "killed"
  worker,       \* processes: "none", "running", "zero", "nonzero", "killed"
  reaped,       \* workers that were waited for
  succeeded,    \* workers that were seen to exit with 0
  allReaped,    \* no child was running in this sweep
  late          \* the round's deadline has passed

vars == <<phase, next, playerCount, lastGood, shard, worker, reaped, succeeded,
          allReaped, late>>
round == <<worker, reaped, succeeded, allReaped, late>>

Worker == 1 .. MaxPlayers
Shard == 1 .. ShardCount

Init ==
  /\ phase = IF ShardCount <= 1 THEN "ramp" ELSE "shards"
  /\ next = 1
  /\ playerCount = RampStart
  /\ lastGood = 0
  /\ shard = [s \in Shard |-> "none"]
  /\ worker = [i \in Worker |-> "none"]
  /\ reaped = {} /\ succeeded = {}
  /\ allReaped = FALSE /\ late = FALSE

(* Mutant of Step: i <= n. *)
StepPastEnd(n, after) ==
  /\ next' = IF next > n THEN 1 ELSE next + 1
  /\ phase' = IF next > n THEN after ELSE phase

(* for (i = 0; i < n; i++): the index, and the phase after the last one. *)
Step(n, after) ==
  /\ next' = IF next = n THEN 1 ELSE next + 1
  /\ phase' = IF next = n THEN after ELSE phase

SpawnShardServer ==
  /\ phase = "shards"
  /\ \E outcome \in {"running", "none"} : shard' = [shard EXCEPT ![next] = outcome]
  /\ Step(ShardCount, "ramp")
  /\ UNCHANGED <<playerCount, lastGood, round>>

StartRound ==
  /\ phase = "ramp"
  /\ IF playerCount <= MaxPlayers
       THEN /\ phase' = "spawn"
            /\ worker' = [i \in Worker |-> "none"]
            /\ reaped' = {} /\ succeeded' = {}
            /\ allReaped' = FALSE /\ late' = FALSE
       ELSE phase' = "stop" /\ UNCHANGED round
  /\ UNCHANGED <<next, playerCount, lastGood, shard>>

(* shardPorts is empty when no shard server could be started: the index is *)
(* then taken modulo zero.                                                 *)
NoPorts == ShardCount > 1 /\ \A s \in Shard : shard[s] = "none"

SpawnWorker ==
  /\ phase = "spawn" /\ ~ NoPorts
  /\ \E outcome \in {"running", "none"} : worker' = [worker EXCEPT ![next] = outcome]
  /\ Step(playerCount, "poll")
  /\ UNCHANGED <<playerCount, lastGood, shard, reaped, succeeded, allReaped, late>>

ModuloByZero ==
  /\ phase = "spawn" /\ NoPorts
  /\ phase' = "crashed"
  /\ UNCHANGED <<next, playerCount, lastGood, shard, round>>

(* Mutant of StartSweep: the deadline is not looked at. *)
StartSweepNoDeadline ==
  /\ phase = "poll"
  /\ phase' = IF allReaped THEN "tally" ELSE "sweep"
  /\ allReaped' = TRUE
  /\ UNCHANGED <<next, playerCount, lastGood, shard, worker, reaped, succeeded, late>>

(* while (!allReaped && now < deadline) *)
StartSweep ==
  /\ phase = "poll"
  /\ phase' = IF allReaped \/ late THEN "tally" ELSE "sweep"
  /\ allReaped' = TRUE
  /\ UNCHANGED <<next, playerCount, lastGood, shard, worker, reaped, succeeded, late>>

(* Mutant of PollChild: any exit is a success. *)
PollChildAnyExit ==
  /\ phase = "sweep"
  /\ IF next \in reaped \/ worker[next] = "none"
       THEN UNCHANGED <<reaped, succeeded, allReaped>>
     ELSE IF worker[next] = "running"
       THEN allReaped' = FALSE /\ UNCHANGED <<reaped, succeeded>>
     ELSE /\ reaped' = reaped \cup {next}
          /\ succeeded' = succeeded \cup {next}
          /\ UNCHANGED allReaped
  /\ Step(playerCount, "poll")
  /\ UNCHANGED <<playerCount, lastGood, shard, worker, late>>

PollChild ==
  /\ phase = "sweep"
  /\ IF next \in reaped \/ worker[next] = "none"
       THEN UNCHANGED <<reaped, succeeded, allReaped>>
     ELSE IF worker[next] = "running"
       THEN allReaped' = FALSE /\ UNCHANGED <<reaped, succeeded>>
     ELSE /\ reaped' = reaped \cup {next}
          /\ succeeded' = IF worker[next] = "zero" THEN succeeded \cup {next} ELSE succeeded
          /\ UNCHANGED allReaped
  /\ Step(playerCount, "poll")
  /\ UNCHANGED <<playerCount, lastGood, shard, worker, late>>

(* Mutant of ForceKill: only workers that have exited are waited for. *)
ForceKillExited ==
  /\ phase = "tally"
  /\ reaped' = IF worker[next] \in {"none", "running"} THEN reaped ELSE reaped \cup {next}
  /\ Step(playerCount, "decide")
  /\ UNCHANGED <<playerCount, lastGood, shard, worker, succeeded, allReaped, late>>

(* A child that was not reaped is killed and waited for, one that exited   *)
(* since the last sweep too.                                               *)
ForceKill ==
  /\ phase = "tally"
  /\ worker' = IF worker[next] = "running" THEN [worker EXCEPT ![next] = "killed"] ELSE worker
  /\ reaped' = IF worker[next] = "none" THEN reaped ELSE reaped \cup {next}
  /\ Step(playerCount, "decide")
  /\ UNCHANGED <<playerCount, lastGood, shard, succeeded, allReaped, late>>

(* More than a tenth failed: the ramp stops. *)
Decide ==
  /\ phase = "decide"
  /\ IF 10 * (playerCount - Cardinality(succeeded)) > playerCount
       THEN phase' = "stop" /\ UNCHANGED <<lastGood, playerCount>>
       ELSE phase' = "ramp" /\ lastGood' = playerCount /\ playerCount' = 2 * playerCount
  /\ UNCHANGED <<next, shard, round>>

StopShards ==
  /\ phase = "stop"
  /\ shard' = [s \in Shard |-> IF shard[s] = "none" THEN "none" ELSE "killed"]
  /\ phase' = "done"
  /\ UNCHANGED <<next, playerCount, lastGood, round>>

Coordinator ==
  \/ SpawnShardServer \/ StartRound \/ SpawnWorker \/ ModuloByZero
  \/ StartSweep \/ PollChild \/ ForceKill \/ Decide \/ StopShards

(* The processes: a worker exits as runWorker does, a shard may die. *)
WorkerExit ==
  /\ \E i \in Worker : /\ worker[i] = "running"
                       /\ \E code \in {"zero", "nonzero"} :
                            worker' = [worker EXCEPT ![i] = code]
  /\ UNCHANGED <<phase, next, playerCount, lastGood, shard, reaped, succeeded,
                 allReaped, late>>

ShardExit ==
  /\ \E s \in Shard : shard[s] = "running" /\ shard' = [shard EXCEPT ![s] = "exited"]
  /\ UNCHANGED <<phase, next, playerCount, lastGood, round>>

Deadline ==
  /\ phase \in {"poll", "sweep"} /\ ~ late
  /\ late' = TRUE
  /\ UNCHANGED <<phase, next, playerCount, lastGood, shard, worker, reaped,
                 succeeded, allReaped>>

Next == Coordinator \/ WorkerExit \/ ShardExit \/ Deadline

(* The coordinator runs and time passes; a worker need never exit. *)
Spec == Init /\ [][Next]_vars /\ WF_vars(Coordinator) /\ WF_vars(Deadline)
-----------------------------------------------------------------------------
(* Type of the coordinator's state; a loop index is one of the round's     *)
(* workers, or of the shards.                                              *)
TypeOK ==
  /\ phase \in {"shards", "ramp", "spawn", "poll", "sweep", "tally", "decide",
                "stop", "done", "crashed"}
  /\ next \in Nat \ {0}
  /\ IF phase = "shards" THEN next <= ShardCount ELSE next <= playerCount
  /\ playerCount \in Nat \ {0} /\ lastGood \in Nat
  /\ shard \in [Shard -> {"none", "running", "exited", "killed"}]
  /\ worker \in [Worker -> {"none", "running", "zero", "nonzero", "killed"}]
  /\ reaped \subseteq Worker /\ succeeded \subseteq Worker
  /\ allReaped \in BOOLEAN /\ late \in BOOLEAN

(* "Stragglers past the deadline are force-killed": no worker runs on, and *)
(* none is left a zombie, when its round is judged, whatever it did between*)
(* the last poll and the kill.  A worker that lives on would load the      *)
(* server during the next round.                                           *)
NoWorkerOutlivesItsRound ==
  phase \in {"decide", "ramp", "stop", "done"} =>
    \A i \in Worker : worker[i] # "running" /\ (worker[i] # "none" => i \in reaped)

(* The successes of a round are workers that did exit with 0; if the round *)
(* ended by itself they are all of those workers.                          *)
SuccessesAreExits ==
  phase = "decide" =>
    /\ \A i \in succeeded : worker[i] = "zero"
    /\ late \/ \A i \in Worker : worker[i] = "zero" => i \in succeeded

(* "one hung connection can't hang the whole ramp": the coordinator        *)
(* finishes although any worker may never exit.                            *)
RampEnds == <>(phase \in {"done", "crashed"})
=============================================================================
