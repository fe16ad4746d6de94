--------------------------- MODULE ZoneHysteresis ---------------------------
(***************************************************************************)
(* The staged migration of fanout-core (moveEntityToIndexHysteresisV of    *)
(* ZoneDispatch.lean, hysteresisTicksFor of Zone.lean) over the zone world.*)
(* An entity that reports positions in another zone stays where it is      *)
(* until it has done so often enough in a row.  Its record is refreshed at *)
(* every report and so may lie outside the range of its zone.              *)
(*                                                                         *)
(* pendingZone and migrationStreak of a record are kept per connection: an *)
(* entity has one record.  No export calls this move, and neither does the *)
(* code that splits and merges, so the zones stay as they are.             *)
(***************************************************************************)
EXTENDS ZoneWorld

CONSTANTS
  RttSamples,  \* RTTs in ticks that come with a report, 0 for none
  StreakBound  \* bound: a streak beyond it is not counted

ASSUME RttSamplesAssumption == RttSamples \subseteq Nat

(* The host allocates its zones without overlap. *)
ASSUME HostRangesDisjoint ==
  \A r, s \in HostRanges : r # s => ~ Overlaps(r, s)
ASSUME NowhereAssumption == Nowhere \notin CurveIndex /\ Nowhere \notin HostRanges

VARIABLES
  staging,  \* connection -> pendingZone and migrationStreak of its record
  steady,   \* history: reports in a row that named the same zone
  sample    \* history: the RTT of the last report

hvars == <<zones, reported, staging, steady, sample>>

DefaultTicks == 6
HysteresisTicksFor(rtt) ==
  LET lookahead == IF rtt = 0 THEN DefaultTicks ELSE rtt
  IN  IF lookahead \div 2 < 1 THEN 1 ELSE lookahead \div 2

(* A streak beyond every threshold makes no difference any more. *)
ASSUME StreakBoundAssumption ==
  /\ StreakBound \in Nat
  /\ \A rtt \in RttSamples : HysteresisTicksFor(rtt) <= StreakBound

AtMost(n, bound) == IF n > bound THEN bound ELSE n

Settled == [zone |-> Nowhere, streak |-> 0]
Staged(r, n) == [zone |-> r, streak |-> AtMost(n, StreakBound)]

(* Mutant of Refile: Zone.sub without the Zone.unsub before it. *)
RefileKeepsOld(entities, c, idx) == SubEntity(entities, Record(c, idx))

(* Zone.unsub, then Zone.sub of the new record. *)
Refile(entities, c, idx) == SubEntity(UnsubEntity(entities, c), Record(c, idx))

(* Mutants of NextStreak: a change of direction does not start again; the  *)
(* streak is started at every report.                                      *)
NextStreakKeepsCounting(c, target) == staging[c].streak + 1
NextStreakRestarts(c, target) == 1

NextStreak(c, target) ==
  IF staging[c].zone = target THEN staging[c].streak + 1 ELSE 1

HysteresisInit ==
  /\ zones = [r \in HostRanges |-> {}]
  /\ reported = [c \in Conn |-> Nowhere]
  /\ staging = [c \in Conn |-> Settled]
  /\ steady = [c \in Conn |-> 0]
  /\ sample = [c \in Conn |-> 0]

(* A position nobody owns drops the entity. *)
LeaveWorld(c, idx) ==
  /\ ~ Owned(zones, idx)
  /\ zones' = RemoveEntity(zones, c)
  /\ staging' = [staging EXCEPT ![c] = Settled]

(* The first placement is immediate; a full zone refuses it. *)
FirstPlacement(c, idx) ==
  LET target == AuthorityForIndex(zones, idx)
  IN  /\ Owned(zones, idx) /\ ~ Present(c)
      /\ zones' = [zones EXCEPT ![target] = SubEntity(@, Record(c, idx))]
      /\ staging' = [staging EXCEPT ![c] = Settled]

Home(c) == CHOOSE r \in HomeOf(zones, c) : TRUE

(* Mutant of MoveWithin: the pending migration is not dropped. *)
MoveWithinStaysStaged(c, idx) ==
  /\ Owned(zones, idx) /\ Present(c)
  /\ AuthorityForIndex(zones, idx) = Home(c)
  /\ zones' = [zones EXCEPT ![Home(c)] = Refile(@, c, idx)]
  /\ UNCHANGED staging

MoveWithin(c, idx) ==
  /\ Owned(zones, idx) /\ Present(c)
  /\ AuthorityForIndex(zones, idx) = Home(c)
  /\ zones' = [zones EXCEPT ![Home(c)] = Refile(@, c, idx)]
  /\ staging' = [staging EXCEPT ![c] = Settled]

(* Mutant of CanCommit: the room in the target is not looked at. *)
CanCommitIntoFull(c, target, rtt) == NextStreak(c, target) >= HysteresisTicksFor(rtt)

CanCommit(c, target, rtt) ==
  /\ NextStreak(c, target) >= HysteresisTicksFor(rtt)
  /\ Cardinality(zones[target]) < AuthorityCapacity

Crossing(c, idx) ==
  /\ Owned(zones, idx) /\ Present(c)
  /\ AuthorityForIndex(zones, idx) # Home(c)

(* Below the threshold, or with no room in the target, the entity stays    *)
(* and its streak is kept.                                                 *)
Stage(c, idx, rtt) ==
  LET target == AuthorityForIndex(zones, idx)
  IN  /\ Crossing(c, idx) /\ ~ CanCommit(c, target, rtt)
      /\ zones' = [zones EXCEPT ![Home(c)] = Refile(@, c, idx)]
      /\ staging' = [staging EXCEPT ![c] = Staged(target, NextStreak(c, target))]

Commit(c, idx, rtt) ==
  LET target == AuthorityForIndex(zones, idx)
  IN  /\ Crossing(c, idx) /\ CanCommit(c, target, rtt)
      /\ zones' = [zones EXCEPT ![Home(c)] = UnsubEntity(@, c),
                                ![target] = SubEntity(@, Record(c, idx))]
      /\ staging' = [staging EXCEPT ![c] = Settled]

SameZone(a, b) ==
  a # Nowhere /\ \E r \in DOMAIN zones : Contains(r, a) /\ Contains(r, b)

(* moveEntityToIndexHysteresisV *)
HysteresisMove(c, idx, rtt) ==
  /\ \/ LeaveWorld(c, idx) \/ FirstPlacement(c, idx) \/ MoveWithin(c, idx)
     \/ Stage(c, idx, rtt) \/ Commit(c, idx, rtt)
  /\ reported' = [reported EXCEPT ![c] = idx]
  /\ steady' = [steady EXCEPT ![c] =
                  IF SameZone(reported[c], idx) THEN AtMost(@ + 1, StreakBound) ELSE 1]
  /\ sample' = [sample EXCEPT ![c] = rtt]

(* removeEntity *)
Disconnect(c) ==
  /\ zones' = RemoveEntity(zones, c)
  /\ reported' = [reported EXCEPT ![c] = Nowhere]
  /\ staging' = [staging EXCEPT ![c] = Settled]
  /\ steady' = [steady EXCEPT ![c] = 0]
  /\ sample' = [sample EXCEPT ![c] = 0]

Report(c) == \E idx \in Positions, rtt \in RttSamples : HysteresisMove(c, idx, rtt)

HysteresisNext == \E c \in Conn : Report(c) \/ Disconnect(c)

(* A client goes on reporting: the code moves nobody by itself. *)
HysteresisSpec ==
  HysteresisInit /\ [][HysteresisNext]_hvars /\ \A c \in Conn : WF_hvars(Report(c))
-----------------------------------------------------------------------------
(* A record is never stale: an entity's record is the position it last     *)
(* reported, also while it waits in a zone that does not own that position.*)
RecordsAreFresh ==
  \A r \in DOMAIN zones : \A rec \in zones[r] : rec.idx = reported[rec.conn]

(* An entity is staged for a zone exactly while its record lies outside    *)
(* its own zone, and for the zone that owns it.                            *)
StagedForOwner ==
  \A r \in DOMAIN zones : \A rec \in zones[r] :
    staging[rec.conn].zone =
      IF Contains(r, rec.idx) THEN Nowhere ELSE AuthorityForIndex(zones, rec.idx)

(* An entity is in one zone at a time, and only a position that nobody     *)
(* owns, or a disconnect, takes it out of the world: neither a crossing nor*)
(* a full target does.                                                     *)
CrossingKeepsEntity ==
  [][\A c \in Conn :
       Present(c) => \/ Cardinality(HomeOf(zones', c)) = 1
                     \/ reported'[c] = Nowhere
                     \/ ~ Owned(zones, reported'[c])]_hvars

(* "Consecutive ticks a boundary-crossing entity's curve index must        *)
(* consistently point at the same neighbouring zone before authority       *)
(* actually transfers": the zone of an entity changes only with a report   *)
(* that completes the run of reports in the new zone that its RTT asks for.*)
NoEarlyMigration ==
  [][\A c \in Conn :
       Present(c) /\ Present(c)' /\ HomeOf(zones', c) # HomeOf(zones, c) =>
         steady'[c] >= HysteresisTicksFor(sample'[c])]_hvars

(* "a genuine, sustained crossing still commits": an entity that from some *)
(* point on only reports positions of one zone, and goes on reporting,     *)
(* comes to live there, unless that zone is full again and again.          *)
SteadyCrossingCommits ==
  \A c \in Conn : \A r \in HostRanges :
    <>[](reported[c] # Nowhere /\ Contains(r, reported[c])
           /\ (Holds(zones[r], c) \/ Cardinality(zones[r]) < AuthorityCapacity))
      => <>[](Holds(zones[r], c))
=============================================================================
