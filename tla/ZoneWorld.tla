----------------------------- MODULE ZoneWorld -----------------------------
(***************************************************************************)
(* Zone authority in fanout-core (ZoneDispatch.lean, Zone.lean and the     *)
(* zone half of Ffi.lean).  The curve is partitioned into zones; each zone *)
(* holds the records of the entities it is authoritative for.  A move may  *)
(* migrate an entity and then split the zone it lands in; a removal may    *)
(* merge eight siblings back.                                              *)
(*                                                                         *)
(* The zones are a function from the live ranges to the records in each:   *)
(* live ranges never coincide (RangesDisjoint), so a range stands for its  *)
(* slot-map id, and by RoomRegistry's FreeListExact an allocation fails    *)
(* exactly when Capacity zones are live.  A record keeps the connection    *)
(* and the curve index it was filed under; position, velocity and RTT are  *)
(* written and copied together with the index and are not told apart.      *)
(***************************************************************************)
EXTENDS Octree

CONSTANTS
  Conn,               \* connection ids, one entity each
  Capacity,           \* slots of the zone slot map (64 in the server)
  AuthorityCapacity,  \* most entities in one zone (256 in the code)
  Positions,          \* curve indices that clients report
  HostRanges,         \* ranges the host allocates and frees itself
  Nowhere             \* no position reported

ASSUME CapacityAssumption == Capacity \in Nat \ {0}
ASSUME AuthorityCapacityAssumption == AuthorityCapacity \in Nat
ASSUME PositionsAssumption == Positions \subseteq CurveIndex
ASSUME HostRangesAssumption == \A r \in HostRanges : r \in Ranges /\ IsCell(r)
ASSUME ConnAssumption == IsFiniteSet(Conn)

VARIABLES
  zones,     \* zoneWorld.zones: live range -> set of records
  reported   \* history: the index each connection last reported

vars == <<zones, reported>>

EntityRecord == [conn : Conn, idx : CurveIndex]
Record(c, idx) == [conn |-> c, idx |-> idx]

Holds(entities, c) == \E rec \in entities : rec.conn = c

(* Zone.sub, Zone.unsub *)
SubEntity(entities, rec) ==
  IF Holds(entities, rec.conn) \/ Cardinality(entities) >= AuthorityCapacity
    THEN entities
    ELSE entities \cup {rec}
UnsubEntity(entities, c) == {rec \in entities : rec.conn # c}

(* The zone whose range contains the index, if any. *)
Owned(w, idx) == \E r \in DOMAIN w : Contains(r, idx)
AuthorityForIndex(w, idx) == CHOOSE r \in DOMAIN w : Contains(r, idx)

RemoveEntity(w, c) == [r \in DOMAIN w |-> UnsubEntity(w[r], c)]

(* Mutants of MoveEntityToIndex: the entity does not leave its old zone;   *)
(* it leaves before the target is known to have room.                      *)
MoveWithoutLeaving(w, c, idx) ==
  IF ~ Owned(w, idx) THEN RemoveEntity(w, c)
  ELSE [w EXCEPT ![AuthorityForIndex(w, idx)] = SubEntity(@, Record(c, idx))]

MoveIgnoresFullTarget(w, c, idx) ==
  IF ~ Owned(w, idx) THEN RemoveEntity(w, c)
  ELSE [r \in DOMAIN w |-> IF r = AuthorityForIndex(w, idx)
                             THEN SubEntity(w[r], Record(c, idx))
                             ELSE UnsubEntity(w[r], c)]

(* An index nobody owns drops the entity; a full target refuses the move   *)
(* and leaves everything as it was; otherwise the entity leaves every      *)
(* other zone and is filed in the target, where Zone.sub keeps a record    *)
(* that is already there.                                                  *)
MoveEntityToIndex(w, c, idx) ==
  LET target == AuthorityForIndex(w, idx)
  IN  IF ~ Owned(w, idx)
        THEN RemoveEntity(w, c)
      ELSE IF ~ Holds(w[target], c) /\ Cardinality(w[target]) >= AuthorityCapacity
        THEN w
      ELSE [r \in DOMAIN w |-> IF r = target
                                 THEN SubEntity(w[r], Record(c, idx))
                                 ELSE UnsubEntity(w[r], c)]

(* Mutant of InRange: the start of a range is left out. *)
InRangeExclusive(entities, r) ==
  {rec \in entities : r.start < rec.idx /\ rec.idx < r.stop}

InRange(entities, r) == {rec \in entities : Contains(r, rec.idx)}

ChildPopulations(entities, r) ==
  [i \in Octant |-> Cardinality(InRange(entities, Child(r, i)))]

ShouldSplit(entities, r) ==
  SplitIsCheaper(Cardinality(entities), ChildPopulations(entities, r))

(* Mutants of Split: every record goes to the first child; the last child  *)
(* is never made.                                                          *)
SplitKeepsTogether(w, r) ==
  [s \in (DOMAIN w \ {r}) \cup Children(r) |->
     IF s \in DOMAIN w \ {r} THEN w[s]
     ELSE IF s = Child(r, 0) THEN w[r]
     ELSE {}]

SplitSkipsLast(w, r) ==
  [s \in (DOMAIN w \ {r}) \cup (Children(r) \ {Child(r, 7)}) |->
     IF s \in DOMAIN w \ {r} THEN w[s] ELSE InRange(w[r], s)]

(* Free the zone, then allocate the children one by one.  With room for    *)
(* all eight the records are filed by their index; when an allocation      *)
(* fails the children made so far stay, empty.                             *)
Split(w, r) ==
  LET rest  == DOMAIN w \ {r}
      slots == Capacity - Cardinality(rest)
      made  == {Child(r, i) : i \in {j \in Octant : j < slots}}
  IN  [s \in rest \cup made |->
         IF s \in rest THEN w[s]
         ELSE IF slots >= 8 THEN InRange(w[r], s)
         ELSE {}]

MaybeSplitZone(w, r) ==
  IF HasChildren(r) /\ ShouldSplit(w[r], r) THEN Split(w, r) ELSE w

(* rebalanceAfterMove: only the zone the position now lands in. *)
RebalanceAfterMove(w, idx) ==
  IF Owned(w, idx) THEN MaybeSplitZone(w, AuthorityForIndex(w, idx)) ELSE w

(* All eight children of p are live, each as a zone of its own. *)
SiblingsLive(w, p) ==
  \A i \in Octant : /\ Owned(w, Child(p, i).start)
                    /\ AuthorityForIndex(w, Child(p, i).start) = Child(p, i)

(* Mutant of SiblingEntities: the first sibling is skipped. *)
SiblingEntitiesButFirst(w, p) ==
  UNION {w[r] : r \in Children(p) \ {Child(p, 0)}}

SiblingEntities(w, p) == UNION {w[r] : r \in Children(p)}

(* Mutant of ShouldMerge: authorityCapacity is not consulted. *)
ShouldMergeOverfull(w, p) ==
  SiblingsLive(w, p) /\ ~ ShouldSplit(SiblingEntities(w, p), p)

(* The siblings are better off as one zone, and fit in it. *)
ShouldMerge(w, p) ==
  /\ SiblingsLive(w, p)
  /\ ~ ShouldSplit(SiblingEntities(w, p), p)
  /\ Cardinality(SiblingEntities(w, p)) <= AuthorityCapacity

(* Mutant of Merge: the siblings are not freed. *)
MergeKeepsSiblings(w, p) ==
  [r \in DOMAIN w \cup {p} |->
     IF r = p THEN SiblingEntities(w, p)
     ELSE IF r \in Children(p) THEN {}
     ELSE w[r]]

Merge(w, p) ==
  [r \in (DOMAIN w \ Children(p)) \cup {p} |->
     IF r = p THEN SiblingEntities(w, p) ELSE w[r]]

MaybeMergeSiblings(w, r) ==
  IF HasParent(r) /\ ShouldMerge(w, ParentRange(r))
    THEN Merge(w, ParentRange(r))
    ELSE w

-----------------------------------------------------------------------------
(* The world fanoutCoreInitialize leaves: one zone that owns every index. *)
Init ==
  /\ zones = [r \in {Root} |-> {}]
  /\ reported = [c \in Conn |-> Nowhere]

(* fanout_entity_move, fanout_entity_move_v *)
EntityMove(c, idx) ==
  /\ zones' = RebalanceAfterMove(MoveEntityToIndex(zones, c, idx), idx)
  /\ reported' = [reported EXCEPT ![c] = idx]

(* fanout_entity_remove: a merge is tried around the zone that was left. *)
HomeOf(w, c) == {r \in DOMAIN w : Holds(w[r], c)}

EntityRemove(c) ==
  /\ zones' = IF HomeOf(zones, c) = {} THEN RemoveEntity(zones, c)
              ELSE MaybeMergeSiblings(RemoveEntity(zones, c),
                                      CHOOSE r \in HomeOf(zones, c) : TRUE)
  /\ reported' = [reported EXCEPT ![c] = Nowhere]

(* fanout_zone_alloc does not check its range against the live zones; the  *)
(* host is taken to ask only for ranges that no live zone overlaps.        *)
ZoneAlloc(r) ==
  /\ \A s \in DOMAIN zones : ~ Overlaps(r, s)
  /\ Cardinality(DOMAIN zones) < Capacity
  /\ zones' = [s \in DOMAIN zones \cup {r} |-> IF s = r THEN {} ELSE zones[s]]
  /\ UNCHANGED reported

(* fanout_zone_free: the zone goes with whatever it holds. *)
ZoneFree(r) ==
  /\ r \in DOMAIN zones
  /\ zones' = [s \in DOMAIN zones \ {r} |-> zones[s]]
  /\ UNCHANGED reported

Next ==
  \/ \E c \in Conn : EntityRemove(c) \/ \E idx \in Positions : EntityMove(c, idx)
  \/ \E r \in HostRanges : ZoneAlloc(r) \/ ZoneFree(r)

Spec == Init /\ [][Next]_vars
-----------------------------------------------------------------------------
(* Type of the zone world. *)
TypeOK ==
  /\ DOMAIN zones \subseteq Ranges
  /\ zones = [r \in DOMAIN zones |-> zones[r]]
  /\ \A r \in DOMAIN zones : zones[r] \subseteq EntityRecord
  /\ reported \in [Conn -> {Nowhere} \cup CurveIndex]

Present(c) == HomeOf(zones, c) # {}

(* No two live zones own the same index, whatever splits, merges, failed   *)
(* splits and host allocations came before (disjointRanges, Zone.lean).    *)
RangesDisjoint ==
  \A r, s \in DOMAIN zones : r # s => ~ Overlaps(r, s)

(* An entity has one record in the whole world: the invariant that lets    *)
(* targetsForIndex push targets without looking for duplicates.            *)
OneRecordPerEntity ==
  \A r, s \in DOMAIN zones : \A a \in zones[r], b \in zones[s] :
     a.conn = b.conn => r = s /\ a = b

(* A record is filed in the zone that owns its index, so a split loses     *)
(* nobody and childPopulationsFor counts everybody.                        *)
RecordsInRange ==
  \A r \in DOMAIN zones : \A rec \in zones[r] : Contains(r, rec.idx)

(* Neither ceiling is ever exceeded: authorityCapacity entities in a zone, *)
(* Capacity zones in the slot map.                                         *)
CeilingsHold ==
  /\ Cardinality(DOMAIN zones) <= Capacity
  /\ \A r \in DOMAIN zones : Cardinality(zones[r]) <= AuthorityCapacity

(* Every index has an authority: splits and merges tile what they replace. *)
WorldTiled == \A idx \in CurveIndex : Owned(zones, idx)

(* Whatever move comes next, the split it may cause finds its slots: the   *)
(* zone's own and seven more.  The slots that merges free are enough for   *)
(* the splits after them (maybeSplitZone, maybeMergeSiblings), and this is *)
(* the condition under which nobody is lost.                               *)
SplitsFit ==
  \A c \in Conn, idx \in Positions :
    LET w == MoveEntityToIndex(zones, c, idx)
        r == AuthorityForIndex(w, idx)
    IN  Owned(w, idx) /\ HasChildren(r) /\ ShouldSplit(w[r], r) =>
          Cardinality(DOMAIN w) + 7 <= Capacity

(* An entity leaves the world only when it is removed, when its zone is    *)
(* freed by the host, or when it moves to an index nobody owns: a migration*)
(* into a full zone, a split and a merge keep it (moveEntityToIndexV,      *)
(* maybeSplitZone, maybeMergeSiblings).                                    *)
MayLeave(c) ==
  \/ EntityRemove(c)
  \/ \E r \in HomeOf(zones, c) : ZoneFree(r)
  \/ \E idx \in Positions : ~ Owned(zones, idx) /\ EntityMove(c, idx)

NoEntityVanishes ==
  [][\A c \in Conn : Present(c) /\ ~ Present(c)' => MayLeave(c)]_vars

(* A step of one entity leaves the records of the others as they are, in   *)
(* the zone they were in or in the child or parent that replaced it:       *)
(* nobody loses authority or is refiled through somebody else's move or    *)
(* removal.                                                                *)
BystandersStay ==
  [][\A r \in DOMAIN zones : \A rec \in zones[r] :
       \/ \E s \in DOMAIN zones' : Overlaps(r, s) /\ rec \in zones'[s]
       \/ EntityRemove(rec.conn)
       \/ \E idx \in Positions : EntityMove(rec.conn, idx)
       \/ ZoneFree(r)]_vars

(* "The zone whose range contains hilbert3D bits pos is authoritative for  *)
(* an entity at that position" (Zone.lean): while no zone can fill up, an  *)
(* entity is held by the zone that owns the index it last reported.        *)
HomeOwnsPosition ==
  \A c \in Conn : \A r \in HomeOf(zones, c) : Contains(r, reported[c])
=============================================================================
