---------------------------- MODULE ZoneInterest ----------------------------
(***************************************************************************)
(* Whom a publish reaches (targetsForIndex of ZoneDispatch.lean,           *)
(* adjacentZones and withinGhostRange of Zone.lean): a query on the zone   *)
(* world, so that its promises are invariants of ZoneWorld.                *)
(*                                                                         *)
(* The three axes are compared alike and one stands for them.  A record's  *)
(* position, speed and RTT are written with its index and are functions of *)
(* it.  Words have Width bits, 64 in the code.                             *)
(***************************************************************************)
EXTENDS ZoneWorld, FiniteSetsExt

CONSTANTS
  PosAt,             \* index -> coordinate reported with it
  SpeedAt,           \* index -> speed reported with it
  RttAt,             \* index -> RTT in ticks, 0 when there is no sample
  InterestCapacity,  \* most targets from adjacent zones (400 in the code)
  Width

ASSUME InterestAssumption ==
  /\ PosAt \in [Positions -> Int] /\ SpeedAt \in [Positions -> Nat]
  /\ RttAt \in [Positions -> Nat] /\ InterestCapacity \in Nat /\ Width \in Nat

(* What the proofs use of exponentiation. *)
ASSUME WordSizeAssumption == 2 ^ Width \in Nat \ {0}

Word(n) == n % 2 ^ Width

DefaultLookaheadTicks == 6
LookaheadTicks(rtt) == IF rtt = 0 THEN DefaultLookaheadTicks ELSE rtt

AxisDist(a, b) == IF a >= b THEN a - b ELSE b - a

(* aHalf is 0 in every call. *)
GhostExpansion(v, k) == Word(v * k)

(* Mutant of WithinGhostRange: only the publisher's reach counts. *)
WithinPublisherRange(pub, target) ==
  AxisDist(pub.pos, target.pos) <= GhostExpansion(pub.speed, pub.ticks)

WithinGhostRange(pub, target) ==
  AxisDist(pub.pos, target.pos) <=
    Word(GhostExpansion(pub.speed, pub.ticks) + GhostExpansion(target.speed, target.ticks))

Kinematics(rec) == [pos |-> PosAt[rec.idx], speed |-> SpeedAt[rec.idx],
                    ticks |-> LookaheadTicks(RttAt[rec.idx])]
AtOrigin == [pos |-> 0, speed |-> 0, ticks |-> DefaultLookaheadTicks]

(* Mutant of AdjacentZones: the nearest zone after is looked for from the  *)
(* start of the range, and so may be the zone itself.                      *)
AdjacentFromStart(w, r) ==
  LET before == {s \in DOMAIN w \ {r} : s.stop <= r.start}
      after  == {s \in DOMAIN w : s.start >= r.start}
  IN  {s \in before : \A t \in before : t.stop <= s.stop} \cup
      {s \in after : \A t \in after : t.start >= s.start}

(* The nearest zone that ends at or before the start of r, and the nearest *)
(* that starts at or after its stop.                                       *)
AdjacentZones(w, r) ==
  LET before == {s \in DOMAIN w \ {r} : s.stop <= r.start}
      after  == {s \in DOMAIN w \ {r} : s.start >= r.stop}
  IN  {s \in before : \A t \in before : t.stop <= s.stop} \cup
      {s \in after : \A t \in after : t.start >= s.start}

(* A publisher with no record in the zone that owns its position is taken  *)
(* to stand still at the origin.                                           *)
PublisherAt(w, c, idx) ==
  LET own == {rec \in w[AuthorityForIndex(w, idx)] : rec.conn = c}
  IN  IF own = {} THEN AtOrigin ELSE Kinematics(CHOOSE rec \in own : TRUE)

ZoneMates(w, c, idx) == {rec \in w[AuthorityForIndex(w, idx)] : rec.conn # c}

Ghosts(w, c, idx) ==
  {rec \in UNION {w[r] : r \in AdjacentZones(w, AuthorityForIndex(w, idx))} :
     rec.conn # c /\ WithinGhostRange(PublisherAt(w, c, idx), Kinematics(rec))}

(* Mutant of TargetsForIndex: the cap counts the zone-mates too. *)
TargetsUnderOneCap(w, c, idx) ==
  IF ~ Owned(w, idx) THEN {{}}
  ELSE LET all == ZoneMates(w, c, idx) \cup Ghosts(w, c, idx)
       IN  {S \in SUBSET all : Cardinality(S) = Min({InterestCapacity, Cardinality(all)})}

(* The possible results: all the zone-mates, and the ghosts up to the cap, *)
(* in the order the arrays happen to have.                                 *)
TargetsForIndex(w, c, idx) ==
  IF ~ Owned(w, idx) THEN {{}}
  ELSE LET ghosts == Ghosts(w, c, idx)
       IN  {ZoneMates(w, c, idx) \cup S : S \in
              {T \in SUBSET ghosts : Cardinality(T) = Min({InterestCapacity, Cardinality(ghosts)})}}
-----------------------------------------------------------------------------
(* The record of a connection, wherever it is. *)
Records == UNION {zones[r] : r \in DOMAIN zones}

(* "no connId can appear in two different zones' entities arrays": the     *)
(* zones a publish visits are distinct and no connection is met twice, so  *)
(* targetsForIndex needs no search for duplicates.                         *)
NobodyTwice ==
  \A r \in DOMAIN zones :
    /\ r \notin AdjacentZones(zones, r)
    /\ \A a, b \in {r} \cup AdjacentZones(zones, r) :
         a # b => \A x \in zones[a], y \in zones[b] : x.conn # y.conn

(* Interest is mutual: of two entities that both publish from where their  *)
(* records say they are, one reaches the other only if the other reaches   *)
(* it, as long as no publish is cut off by the interest cap.               *)
MutualInterest ==
  \A a, b \in Records :
    a.conn # b.conn =>
      (b \in Ghosts(zones, a.conn, a.idx) <=> a \in Ghosts(zones, b.conn, b.idx))

(* Whatever the cap cuts off, it is never a zone-mate: every other entity  *)
(* of the authority zone is a target of every publish there.               *)
ZoneMatesAlwaysReached ==
  \A a, b \in Records :
    a.conn # b.conn /\ AuthorityForIndex(zones, a.idx) = AuthorityForIndex(zones, b.idx) =>
      \A S \in TargetsForIndex(zones, a.conn, a.idx) : b \in S

(* When the publish that follows a move is computed from the origin        *)
(* instead of from the publisher: only if nobody owns the position, the    *)
(* zone that does was full, or the entity was in that zone already, so that*)
(* its record kept the index it came with and the split of this very move  *)
(* filed it by that one.                                                   *)
OriginOnlyIfRefusedOrStale ==
  [][\A c \in Conn : \A idx \in Positions :
       reported'[c] = idx /\ Owned(zones', idx) /\ EntityMove(c, idx) =>
         \/ Holds(zones'[AuthorityForIndex(zones', idx)], c)
         \/ /\ Owned(zones, idx)
            /\ \/ Cardinality(zones[AuthorityForIndex(zones, idx)]) >= AuthorityCapacity
               \/ Holds(zones[AuthorityForIndex(zones, idx)], c)]_vars
=============================================================================
