------------------------- MODULE ZoneInterestProofs -------------------------
(***************************************************************************)
(* Whom a publish reaches, for every world the zones can be in: every      *)
(* curve depth, every capacity and every position, speed and RTT that      *)
(* comes with an index.  The promises are about a query, so they follow    *)
(* from what is known of the world: disjoint ranges, one record for each   *)
(* entity, filed where its index is owned, with an index somebody reported.*)
(***************************************************************************)
EXTENDS ZoneInterest, ZoneWorldProofs

(* Every record has an index that was reported. *)
Reported(w) == \A r \in DOMAIN w : \A rec \in w[r] : rec.idx \in Positions
-----------------------------------------------------------------------------
(* A migration files no other index than the reported one. *)
LEMMA MoveReported ==
  ASSUME NEW w, Reported(w), NEW c, NEW idx \in Positions
  PROVE  Reported(MoveEntityToIndex(w, c, idx)) /\ Reported(RemoveEntity(w, c))
<1> DEFINE v == MoveEntityToIndex(w, c, idx)
<1>1. Record(c, idx).idx = idx
  BY DEF Record
<1>2. DOMAIN v = DOMAIN w /\ \A r \in DOMAIN w : v[r] \subseteq w[r] \cup {Record(c, idx)}
  BY DEF MoveEntityToIndex, RemoveEntity, SubEntity, UnsubEntity
<1>3. Reported(v)
  BY <1>1, <1>2 DEF Reported
<1>4. Reported(RemoveEntity(w, c))
  BY DEF Reported, RemoveEntity, UnsubEntity
<1> QED BY <1>3, <1>4

(* A split and a merge make no record. *)
LEMMA SplitReported ==
  ASSUME NEW w, Reported(w), NEW r \in DOMAIN w
  PROVE  Reported(Split(w, r))
<1> DEFINE v == Split(w, r)
<1>1. \A s \in DOMAIN v : v[s] \subseteq w[r] \/ (s \in DOMAIN w /\ v[s] = w[s])
  BY DEF Split, InRange
<1> QED BY <1>1 DEF Reported

(* A merge keeps the records of the siblings. *)
LEMMA MergeReported ==
  ASSUME NEW w, Reported(w), NEW p, SiblingsLive(w, p)
  PROVE  Reported(Merge(w, p))
<1> DEFINE v == Merge(w, p)
<1>1. Children(p) \subseteq DOMAIN w
  BY AuthorityExists DEF SiblingsLive, Children
<1>2. DOMAIN v = (DOMAIN w \ Children(p)) \cup {p}
  BY DEF Merge
<1>3. \A s \in DOMAIN v : \A rec \in v[s] : \E r \in DOMAIN w : rec \in w[r]
  BY <1>1, <1>2 DEF Merge, SiblingEntities
<1> QED BY <1>3 DEF Reported

(* The world and its records' indices. *)
InterestInv == IInv /\ Reported(zones)

(* Every zone export keeps them. *)
LEMMA InterestStep == InterestInv /\ [Next]_vars => InterestInv'
<1> SUFFICES ASSUME InterestInv, [Next]_vars PROVE Reported(zones')
  BY NextIInv DEF InterestInv
<1> USE DEF InterestInv
<1>1. ASSUME NEW c \in Conn, NEW idx \in Positions, EntityMove(c, idx) PROVE Reported(zones')
  <2> DEFINE w == MoveEntityToIndex(zones, c, idx)
  <2>1. Reported(w) /\ zones' = RebalanceAfterMove(w, idx)
    BY <1>1, MoveReported DEF EntityMove
  <2> HIDE DEF w
  <2> QED BY <2>1, AuthorityExists, SplitReported DEF RebalanceAfterMove, MaybeSplitZone
<1>2. ASSUME NEW c \in Conn, EntityRemove(c) PROVE Reported(zones')
  <2> DEFINE w == RemoveEntity(zones, c)
             r == CHOOSE x \in HomeOf(zones, c) : TRUE
  <2>1. Reported(w)
    BY DEF Reported, RemoveEntity, UnsubEntity
  <2>2. zones' = w \/ zones' = MaybeMergeSiblings(w, r)
    BY <1>2 DEF EntityRemove
  <2> HIDE DEF w, r
  <2> QED BY <2>1, <2>2, MergeReported DEF MaybeMergeSiblings, ShouldMerge
<1>3. ASSUME NEW r \in HostRanges, ZoneAlloc(r) \/ ZoneFree(r) PROVE Reported(zones')
  <2>1. \A s \in DOMAIN zones' : zones'[s] = {} \/ (s \in DOMAIN zones /\ zones'[s] = zones[s])
    BY <1>3 DEF ZoneAlloc, ZoneFree
  <2> QED BY <2>1 DEF Reported
<1>4. CASE UNCHANGED vars
  BY <1>4 DEF vars
<1>5. CASE Next
  BY <1>1, <1>2, <1>3, <1>5 DEF Next
<1> QED BY <1>4, <1>5

(* The world keeps InterestInv. *)
THEOREM WorldReported == Spec => []InterestInv
<1>1. Init => InterestInv
  <2>1. Init => Reported(zones)
    BY DEF Init, Reported
  <2> QED BY <2>1, InitIInv DEF InterestInv
<1> QED BY <1>1, InterestStep, PTL DEF Spec
-----------------------------------------------------------------------------
(* In a sound world an index has one owner, and a record is with the owner *)
(* of its index.                                                           *)
LEMMA OwnerUnique ==
  ASSUME NEW w, Sound(w), NEW idx \in Int, NEW r \in DOMAIN w, Contains(r, idx)
  PROVE  Owned(w, idx) /\ AuthorityForIndex(w, idx) = r
<1>1. Owned(w, idx)
  BY DEF Owned
<1> DEFINE s == AuthorityForIndex(w, idx)
<1>2. s \in DOMAIN w /\ Contains(s, idx)
  BY <1>1, AuthorityExists
<1>3. r \in Ranges /\ s \in Ranges
  BY <1>2 DEF Sound, Typed
<1> HIDE DEF s
<1>4. Overlaps(r, s)
  BY <1>2, <1>3 DEF Contains, Overlaps, Ranges
<1>5. r = s
  BY <1>2, <1>4 DEF Sound, Disjoint
<1> QED BY <1>1, <1>5 DEF s

(* A record is with the zone that authorityForIndex finds for it. *)
LEMMA RecordOwner ==
  ASSUME NEW w, Sound(w), NEW r \in DOMAIN w, NEW rec \in w[r]
  PROVE  Owned(w, rec.idx) /\ AuthorityForIndex(w, rec.idx) = r
<1>1. rec.idx \in Int /\ Contains(r, rec.idx)
  BY RecordIndex DEF Sound, Typed, Filed
<1> QED BY <1>1, OwnerUnique

(* Adjacency along the curve is mutual: nothing lies between the two. *)
LEMMA AdjacencyMutual ==
  ASSUME NEW w, Sound(w), NEW r \in DOMAIN w, NEW s \in AdjacentZones(w, r)
  PROVE  s \in DOMAIN w /\ r \in AdjacentZones(w, s)
<1>1. s \in DOMAIN w /\ s # r
  BY DEF AdjacentZones
<1>2. \A t \in DOMAIN w : t \in Ranges
  BY DEF Sound, Typed
<1>3. \A t \in DOMAIN w : t.start \in Nat /\ t.stop \in Nat /\ t.start < t.stop
  BY <1>2 DEF Ranges
<1>4. \A t, u \in DOMAIN w : t # u => t.stop <= u.start \/ u.stop <= t.start
  BY <1>3 DEF Sound, Disjoint, Overlaps
<1>5. CASE /\ s.stop <= r.start
           /\ \A t \in DOMAIN w \ {r} : t.stop <= r.start => t.stop <= s.stop
  <2>1. ASSUME NEW t \in DOMAIN w \ {s}, t.start >= s.stop PROVE t.start >= r.start
    <3>1. CASE t = r
      BY <1>3, <3>1
    <3>2. CASE t # r
      BY <1>1, <1>3, <1>4, <1>5, <2>1, <3>2
    <3> QED BY <3>1, <3>2
  <2>2. r.start >= s.stop
    BY <1>1, <1>3, <1>5
  <2> QED BY <1>1, <2>1, <2>2 DEF AdjacentZones
<1>6. CASE /\ s.start >= r.stop
           /\ \A t \in DOMAIN w \ {r} : t.start >= r.stop => t.start >= s.start
  <2>1. ASSUME NEW t \in DOMAIN w \ {s}, t.stop <= s.start PROVE t.stop <= r.stop
    <3>1. CASE t = r
      BY <1>3, <3>1
    <3>2. CASE t # r
      BY <1>1, <1>3, <1>4, <1>6, <2>1, <3>2
    <3> QED BY <3>1, <3>2
  <2>2. r.stop <= s.start
    BY <1>1, <1>3, <1>6
  <2> QED BY <1>1, <2>1, <2>2 DEF AdjacentZones
<1> QED BY <1>5, <1>6 DEF AdjacentZones

(* The distance and the sum of the two reaches do not depend on who asks,  *)
(* not even when a word wraps.                                             *)
LEMMA RangeSymmetric ==
  ASSUME NEW a, NEW b, a.pos \in Int, b.pos \in Int,
         a.speed \in Nat, b.speed \in Nat, a.ticks \in Nat, b.ticks \in Nat
  PROVE  WithinGhostRange(a, b) <=> WithinGhostRange(b, a)
<1>1. AxisDist(a.pos, b.pos) = AxisDist(b.pos, a.pos)
  BY DEF AxisDist
<1>2. \A n \in Nat : Word(n) \in Int
  BY WordSizeAssumption DEF Word
<1>3. a.speed * a.ticks \in Nat /\ b.speed * b.ticks \in Nat
  OBVIOUS
<1>4. /\ GhostExpansion(a.speed, a.ticks) \in Int
      /\ GhostExpansion(b.speed, b.ticks) \in Int
  BY <1>2, <1>3 DEF GhostExpansion
<1>5. GhostExpansion(a.speed, a.ticks) + GhostExpansion(b.speed, b.ticks) =
        GhostExpansion(b.speed, b.ticks) + GhostExpansion(a.speed, a.ticks)
  BY <1>4
<1> QED BY <1>1, <1>5 DEF WithinGhostRange

(* A publisher that publishes from where its record is has its record's    *)
(* kinematics.                                                             *)
LEMMA PublisherIsRecord ==
  ASSUME NEW w, Sound(w), NEW r \in DOMAIN w, NEW a \in w[r]
  PROVE  PublisherAt(w, a.conn, a.idx) = Kinematics(a)
<1>1. AuthorityForIndex(w, a.idx) = r
  BY RecordOwner
<1>2. {rec \in w[r] : rec.conn = a.conn} = {a}
  BY DEF Sound, OneRecord
<1>3. (CHOOSE rec \in {a} : TRUE) = a
  OBVIOUS
<1> QED BY <1>1, <1>2, <1>3 DEF PublisherAt

(* The kinematics of a reported index are numbers. *)
LEMMA KinematicsType ==
  ASSUME NEW a, a.idx \in Positions
  PROVE  /\ Kinematics(a).pos \in Int
         /\ Kinematics(a).speed \in Nat /\ Kinematics(a).ticks \in Nat
BY InterestAssumption DEF Kinematics, LookaheadTicks, DefaultLookaheadTicks

(* One direction of mutual interest. *)
LEMMA GhostsMutual ==
  ASSUME NEW w, Sound(w), Reported(w),
         NEW r \in DOMAIN w, NEW s \in DOMAIN w, NEW a \in w[r], NEW b \in w[s],
         a.conn # b.conn, b \in Ghosts(w, a.conn, a.idx)
  PROVE  a \in Ghosts(w, b.conn, b.idx)
<1>1. /\ AuthorityForIndex(w, a.idx) = r /\ AuthorityForIndex(w, b.idx) = s
      /\ PublisherAt(w, a.conn, a.idx) = Kinematics(a)
      /\ PublisherAt(w, b.conn, b.idx) = Kinematics(b)
  BY RecordOwner, PublisherIsRecord
<1>2. PICK t \in AdjacentZones(w, r) : b \in w[t]
  BY <1>1 DEF Ghosts
<1>3. t = s
  BY <1>2, AdjacencyMutual DEF Sound, OneRecord
<1>4. r \in AdjacentZones(w, s)
  BY <1>2, <1>3, AdjacencyMutual
<1>5. WithinGhostRange(Kinematics(b), Kinematics(a))
  <2>1. WithinGhostRange(Kinematics(a), Kinematics(b))
    BY <1>1 DEF Ghosts
  <2>2. a.idx \in Positions /\ b.idx \in Positions
    BY DEF Reported
  <2> QED BY <2>1, <2>2, KinematicsType, RangeSymmetric
<1> QED BY <1>1, <1>4, <1>5 DEF Ghosts
-----------------------------------------------------------------------------
(* The zones a publish visits are distinct and share no connection, in     *)
(* every world: targetsForIndex needs no search for duplicates.            *)
THEOREM NoDuplicateTargets == Spec => []NobodyTwice
<1>1. IInv => NobodyTwice
  <2> SUFFICES ASSUME IInv, NEW r \in DOMAIN zones
               PROVE  /\ r \notin AdjacentZones(zones, r)
                      /\ \A a, b \in {r} \cup AdjacentZones(zones, r) :
                           a # b => \A x \in zones[a], y \in zones[b] : x.conn # y.conn
    BY DEF NobodyTwice
  <2>1. r \notin AdjacentZones(zones, r) /\ AdjacentZones(zones, r) \subseteq DOMAIN zones
    BY DEF AdjacentZones
  <2> QED BY <2>1 DEF IInv, Sound, OneRecord
<1> QED BY <1>1, WorldSound, PTL

(* Whatever the interest cap cuts off, an entity of the publisher's own    *)
(* zone is always a target.                                                *)
THEOREM ZoneMatesReached == Spec => []ZoneMatesAlwaysReached
<1>1. IInv => ZoneMatesAlwaysReached
  <2> SUFFICES ASSUME IInv, NEW a \in Records, NEW b \in Records, a.conn # b.conn,
                      AuthorityForIndex(zones, a.idx) = AuthorityForIndex(zones, b.idx),
                      NEW S \in TargetsForIndex(zones, a.conn, a.idx)
               PROVE  b \in S
    BY DEF ZoneMatesAlwaysReached
  <2>1. PICK r \in DOMAIN zones : a \in zones[r]
    BY DEF Records
  <2>2. PICK s \in DOMAIN zones : b \in zones[s]
    BY DEF Records
  <2>3. Owned(zones, a.idx) /\ AuthorityForIndex(zones, b.idx) = s
    BY <2>1, <2>2, RecordOwner DEF IInv
  <2>4. b \in ZoneMates(zones, a.conn, a.idx)
    BY <2>2, <2>3 DEF ZoneMates
  <2> QED BY <2>3, <2>4 DEF TargetsForIndex
<1> QED BY <1>1, WorldSound, PTL

(* Of two entities that publish from where their records are, one reaches  *)
(* the other exactly if the other reaches it, whatever their speeds, RTTs  *)
(* and zones, and also when the sum of their reaches wraps.                *)
THEOREM InterestIsMutual == Spec => []MutualInterest
<1>1. InterestInv => MutualInterest
  <2> SUFFICES ASSUME InterestInv, NEW a \in Records, NEW b \in Records, a.conn # b.conn
               PROVE  b \in Ghosts(zones, a.conn, a.idx) <=> a \in Ghosts(zones, b.conn, b.idx)
    BY DEF MutualInterest
  <2>1. PICK r \in DOMAIN zones : a \in zones[r]
    BY DEF Records
  <2>2. PICK s \in DOMAIN zones : b \in zones[s]
    BY DEF Records
  <2> QED BY <2>1, <2>2, GhostsMutual DEF InterestInv, IInv
<1> QED BY <1>1, WorldReported, PTL

(* As long as splits find their slots, the publish after a move starts at  *)
(* the origin only if the move was refused or its record was already there.*)
THEOREM OriginExplained == Spec /\ []SplitsFit => OriginOnlyIfRefusedOrStale
<1> DEFINE Explained ==
      \A c \in Conn : \A idx \in Positions :
        reported'[c] = idx /\ Owned(zones', idx) /\ EntityMove(c, idx) =>
          \/ Holds(zones'[AuthorityForIndex(zones', idx)], c)
          \/ /\ Owned(zones, idx)
             /\ \/ Cardinality(zones[AuthorityForIndex(zones, idx)]) >= AuthorityCapacity
                \/ Holds(zones[AuthorityForIndex(zones, idx)], c)
<1>1. IInv /\ SplitsFit /\ [Next]_vars => [Explained]_vars
  <2> SUFFICES ASSUME IInv, SplitsFit, [Next]_vars,
                      NEW c \in Conn, NEW idx \in Positions,
                      Owned(zones', idx), EntityMove(c, idx),
                      ~ (/\ Owned(zones, idx)
                         /\ \/ Cardinality(zones[AuthorityForIndex(zones, idx)]) >= AuthorityCapacity
                            \/ Holds(zones[AuthorityForIndex(zones, idx)], c))
               PROVE  Holds(zones'[AuthorityForIndex(zones', idx)], c)
    OBVIOUS
  <2> DEFINE w == MoveEntityToIndex(zones, c, idx)
             target == AuthorityForIndex(zones, idx)
             rec == Record(c, idx)
  <2>1. /\ DOMAIN w = DOMAIN zones /\ zones' = RebalanceAfterMove(w, idx)
        /\ idx \in CurveIndex /\ idx \in Int
    BY MoveSound, PositionsAssumption DEF IInv, EntityMove, CurveIndex
  <2>2. Owned(zones, idx)
    <3> SUFFICES ASSUME ~ Owned(zones, idx) PROVE FALSE
      OBVIOUS
    <3>1. ~ Owned(w, idx)
      BY <2>1 DEF Owned
    <3>2. zones' = w
      BY <2>1, <3>1 DEF RebalanceAfterMove
    <3> QED BY <3>1, <3>2
  <2>3. rec \in w[target] /\ target \in DOMAIN w
    <3>1. target \in DOMAIN zones
      BY <2>2, AuthorityExists
    <3>2. w[target] = SubEntity(zones[target], rec)
      BY <2>2, <3>1 DEF MoveEntityToIndex
    <3>3. rec.conn = c
      BY DEF Record
    <3> QED BY <2>1, <2>2, <3>1, <3>2, <3>3 DEF SubEntity
  <2>4. PICK s \in DOMAIN zones' : rec \in zones'[s]
    BY <2>3, EntityMoveKeeps DEF Keeps
  <2>5. Sound(zones')
    BY NextIInv DEF IInv
  <2>6. AuthorityForIndex(zones', rec.idx) = s
    BY <2>4, <2>5, RecordOwner
  <2> QED BY <2>4, <2>6 DEF Record, Holds
<1> QED BY <1>1, WorldSound, PTL DEF Spec, OriginOnlyIfRefusedOrStale

(* The same without the proviso, for a host that allocates no zone of its  *)
(* own and a slot map large enough for the branching cells.                *)
THEOREM RoomyWorldExplained ==
  ASSUME HostRanges = {}, Capacity >= 1 + 7 * Cardinality(BranchingCells)
  PROVE  Spec => OriginOnlyIfRefusedOrStale
BY SplitsFindSlots, OriginExplained, PTL
=============================================================================
