------------------------ MODULE ZoneHysteresisProofs ------------------------
(***************************************************************************)
(* The staged migration for every set of disjoint zones, every capacity    *)
(* and every RTT.  Whatever moveEntityToIndexHysteresisV does is a         *)
(* placement: the records of the one entity go, and at most one comes back *)
(* in a zone that has room for it.  From that and from what is staged      *)
(* follow the promises about records, migrations and streaks: a streak is  *)
(* exactly the run of reports it stands for, so authority passes neither   *)
(* before that run is long enough nor after.                               *)
(***************************************************************************)
EXTENDS ZoneHysteresis, ZoneWorldProofs

(* A world with the host's zones in which an entity has one record. *)
HostWorld(w) ==
  /\ Typed(w) /\ OneRecord(w) /\ DOMAIN w = HostRanges
  /\ \A r \in HostRanges : Cardinality(w[r]) <= AuthorityCapacity

(* The entity's records go and one of idx is filed at the zones of at. *)
Placement(w, c, at, idx) ==
  [r \in DOMAIN w |->
     UnsubEntity(w[r], c) \cup IF r \in at THEN {Record(c, idx)} ELSE {}]

(* At most one place, where the entity is already or there is room. *)
Place(w, c, at) ==
  /\ at = {} \/ \E r \in DOMAIN w : at = {r}
  /\ \A r \in at : Holds(w[r], c) \/ Cardinality(w[r]) < AuthorityCapacity

(* Streaks count the reports in a row that steady counts. *)
Counters ==
  /\ reported \in [Conn -> {Nowhere} \cup CurveIndex]
  /\ staging \in [Conn -> [zone : {Nowhere} \cup HostRanges, streak : Nat]]
  /\ steady \in [Conn -> Nat] /\ sample \in [Conn -> Nat]
  /\ \A c \in Conn : staging[c].streak <= steady[c]

RecordsOwned == \A r \in DOMAIN zones : \A rec \in zones[r] : Owned(zones, rec.idx)

HInv ==
  /\ HostWorld(zones) /\ Counters
  /\ RecordsOwned /\ RecordsAreFresh /\ StagedForOwner

(* What a step does to the records and the staging of one entity. *)
Filing(c, idx, at, st) ==
  /\ Place(zones, c, at) /\ zones' = Placement(zones, c, at, idx)
  /\ staging' = [staging EXCEPT ![c] = st]
  /\ at # {} => Owned(zones, idx)
  /\ \A r \in at :
       st.zone = IF Contains(r, idx) THEN Nowhere ELSE AuthorityForIndex(zones, idx)

Target(idx) == AuthorityForIndex(zones, idx)
-----------------------------------------------------------------------------
(* A record moves within a zone that holds it: there is room once the old  *)
(* one is gone.                                                            *)
LEMMA RefileIs ==
  ASSUME NEW w, HostWorld(w), NEW r \in DOMAIN w, NEW c, NEW idx, Holds(w[r], c)
  PROVE  Refile(w[r], c, idx) = UnsubEntity(w[r], c) \cup {Record(c, idx)}
<1> DEFINE S == w[r]
           T == UnsubEntity(S, c)
<1>1. IsFiniteSet(S) /\ Cardinality(S) \in Nat
  BY RecordsFinite DEF HostWorld
<1>2. T \in SUBSET S /\ T # S /\ ~ Holds(T, c)
  BY DEF UnsubEntity, Holds
<1>3. Cardinality(T) <= Cardinality(S) /\ Cardinality(T) # Cardinality(S) /\ IsFiniteSet(T)
  BY <1>1, <1>2, FS_Subset
<1>4. Cardinality(T) \in Nat
  BY <1>3, FS_CardinalityType
<1>5. Cardinality(S) <= AuthorityCapacity
  BY DEF HostWorld
<1>6. ~ (Cardinality(T) >= AuthorityCapacity)
  BY <1>1, <1>3, <1>4, <1>5, AuthorityCapacityAssumption
<1>7. Record(c, idx).conn = c
  BY DEF Record
<1> QED BY <1>2, <1>6, <1>7 DEF Refile, SubEntity

(* The same room, seen from the placement. *)
LEMMA PlacementRoom ==
  ASSUME NEW w, HostWorld(w), NEW r \in DOMAIN w, NEW c, NEW idx,
         Holds(w[r], c) \/ Cardinality(w[r]) < AuthorityCapacity
  PROVE  Cardinality(UnsubEntity(w[r], c) \cup {Record(c, idx)}) <= AuthorityCapacity
<1> DEFINE S == w[r]
           T == UnsubEntity(S, c)
           rec == Record(c, idx)
<1>1. IsFiniteSet(S) /\ Cardinality(S) \in Nat
  BY RecordsFinite DEF HostWorld
<1>2. T \in SUBSET S /\ (Holds(S, c) => T # S)
  BY DEF UnsubEntity, Holds
<1>3. /\ Cardinality(T) <= Cardinality(S) /\ IsFiniteSet(T)
      /\ Holds(S, c) => Cardinality(T) # Cardinality(S)
  BY <1>1, <1>2, FS_Subset
<1>4. Cardinality(T) \in Nat
  BY <1>3, FS_CardinalityType
<1>5. Cardinality(S) <= AuthorityCapacity
  BY DEF HostWorld
<1>6. Cardinality(T) + 1 <= AuthorityCapacity
  BY <1>1, <1>3, <1>4, <1>5, AuthorityCapacityAssumption
<1>7. Cardinality(T \cup {rec}) = IF rec \in T THEN Cardinality(T) ELSE Cardinality(T) + 1
  BY <1>3, FS_AddElement
<1> QED BY <1>4, <1>6, <1>7, AuthorityCapacityAssumption

(* A placement keeps one record for each entity and every zone within its  *)
(* capacity.                                                               *)
LEMMA PlacementHostWorld ==
  ASSUME NEW w, HostWorld(w), NEW c \in Conn, NEW idx, NEW at, Place(w, c, at),
         at # {} => idx \in CurveIndex
  PROVE  HostWorld(Placement(w, c, at, idx))
<1> DEFINE v == Placement(w, c, at, idx)
           rec == Record(c, idx)
<1>1. DOMAIN v = DOMAIN w /\ v = [r \in DOMAIN v |-> v[r]]
  BY DEF Placement
<1>2. \A r \in DOMAIN w : \A a \in v[r] :
        \/ a \in w[r] /\ a.conn # c
        \/ a = rec /\ a.conn = c /\ r \in at
  BY DEF Placement, UnsubEntity, Record
<1>3. at # {} => rec \in EntityRecord
  BY DEF EntityRecord, Record
<1>4. Typed(v)
  BY <1>1, <1>2, <1>3 DEF HostWorld, Typed
<1>5. \A r, s \in at : r = s
  BY DEF Place
<1>6. OneRecord(v)
  <2> SUFFICES ASSUME NEW r \in DOMAIN w, NEW s \in DOMAIN w,
                      NEW a \in v[r], NEW b \in v[s], a.conn = b.conn
               PROVE  r = s /\ a = b
    BY <1>1 DEF OneRecord
  <2> HIDE DEF v
  <2> QED BY <1>2, <1>5 DEF HostWorld, OneRecord
<1>7. ASSUME NEW r \in HostRanges PROVE Cardinality(v[r]) <= AuthorityCapacity
  <2>1. r \in DOMAIN w
    BY DEF HostWorld
  <2>2. CASE r \in at
    <3>1. v[r] = UnsubEntity(w[r], c) \cup {rec}
      BY <2>1, <2>2 DEF Placement
    <3> QED BY <2>1, <2>2, <3>1, PlacementRoom DEF Place
  <2>3. CASE r \notin at
    <3>1. v[r] \in SUBSET w[r]
      BY <2>1, <2>3 DEF Placement, UnsubEntity
    <3>2. IsFiniteSet(w[r]) /\ Cardinality(w[r]) <= AuthorityCapacity
      BY <2>1, RecordsFinite DEF HostWorld
    <3> QED BY <3>1, <3>2, FewerRecords
  <2> QED BY <2>2, <2>3
<1> QED BY <1>1, <1>4, <1>6, <1>7 DEF HostWorld

(* Where a placement leaves the entity, and that it leaves the others. *)
LEMMA HomeAfter ==
  ASSUME NEW w, NEW c, NEW idx, NEW at, Place(w, c, at)
  PROVE  /\ HomeOf(Placement(w, c, at, idx), c) = at
         /\ \A d : d # c => HomeOf(Placement(w, c, at, idx), d) = HomeOf(w, d)
<1> DEFINE v == Placement(w, c, at, idx)
<1>1. DOMAIN v = DOMAIN w /\ at \subseteq DOMAIN w
  BY DEF Placement, Place
<1>2. \A r \in DOMAIN w : \A a :
        a \in v[r] <=> \/ a \in w[r] /\ a.conn # c
                       \/ r \in at /\ a = Record(c, idx)
  BY DEF Placement, UnsubEntity
<1>3. Record(c, idx).conn = c
  BY DEF Record
<1> HIDE DEF v
<1>4. \A r \in DOMAIN w : Holds(v[r], c) <=> r \in at
  BY <1>2, <1>3 DEF Holds
<1>5. \A d : d # c => \A r \in DOMAIN w : Holds(v[r], d) <=> Holds(w[r], d)
  BY <1>2, <1>3 DEF Holds
<1> QED BY <1>1, <1>4, <1>5 DEF HomeOf, v

(* An entity that is present is held by its home and by no other zone. *)
LEMMA HomeHolds ==
  ASSUME HInv, NEW c \in Conn, Present(c)
  PROVE  /\ Home(c) \in DOMAIN zones /\ Holds(zones[Home(c)], c)
         /\ HomeOf(zones, c) = {Home(c)}
<1>1. Home(c) \in HomeOf(zones, c)
  BY DEF Present, Home
<1>2. \A r, s \in HomeOf(zones, c) : r = s
  BY DEF HomeOf, Holds, HInv, HostWorld, OneRecord
<1> QED BY <1>1, <1>2 DEF HomeOf

(* Two zones do not own one index. *)
LEMMA OneOwner ==
  ASSUME HInv, NEW idx \in CurveIndex, NEW r \in DOMAIN zones, NEW s \in DOMAIN zones,
         Contains(r, idx), Contains(s, idx)
  PROVE  r = s
<1>1. idx \in Int
  BY DEF CurveIndex
<1>2. r \in HostRanges /\ s \in HostRanges /\ r \in Ranges /\ s \in Ranges
  BY DEF HInv, HostWorld, Typed
<1>3. Overlaps(r, s)
  BY <1>1, <1>2 DEF Contains, Overlaps, Ranges
<1> QED BY <1>2, <1>3, HostRangesDisjoint
-----------------------------------------------------------------------------
(* The five outcomes of moveEntityToIndexHysteresisV as placements. *)
LEMMA LeaveFiles ==
  ASSUME HInv, NEW c \in Conn, NEW idx, zones' = RemoveEntity(zones, c),
         staging' = [staging EXCEPT ![c] = Settled]
  PROVE  Filing(c, idx, {}, Settled)
<1>1. zones' = Placement(zones, c, {}, idx)
  BY DEF RemoveEntity, Placement
<1> QED BY <1>1 DEF Filing, Place

(* First placement files the entity with the owner, or nowhere when full. *)
LEMMA FirstFiles ==
  ASSUME HInv, NEW c \in Conn, NEW idx \in CurveIndex, FirstPlacement(c, idx)
  PROVE  \/ Filing(c, idx, {}, Settled)
         \/ Filing(c, idx, {Target(idx)}, Settled)
<1> DEFINE t == Target(idx)
           rec == Record(c, idx)
<1>1. t \in DOMAIN zones /\ Contains(t, idx)
  BY AuthorityExists DEF FirstPlacement, Target
<1>2. /\ zones' = [zones EXCEPT ![t] = SubEntity(zones[t], rec)]
      /\ staging' = [staging EXCEPT ![c] = Settled] /\ Owned(zones, idx)
  BY DEF FirstPlacement, Target
<1>3. \A r \in DOMAIN zones : ~ Holds(zones[r], c)
  BY DEF FirstPlacement, Present, HomeOf
<1>4. \A r \in DOMAIN zones : UnsubEntity(zones[r], c) = zones[r]
  BY <1>3 DEF UnsubEntity, Holds
<1>5. zones = [r \in DOMAIN zones |-> zones[r]]
  BY DEF HInv, HostWorld, Typed
<1>6. CASE Cardinality(zones[t]) >= AuthorityCapacity
  <2>1. zones' = zones
    BY <1>1, <1>2, <1>5, <1>6 DEF SubEntity
  <2>2. Placement(zones, c, {}, idx) = zones
    BY <1>4, <1>5 DEF Placement
  <2>3. Filing(c, idx, {}, Settled)
    BY <1>2, <2>1, <2>2 DEF Filing, Place
  <2> QED BY <2>3
<1>7. CASE ~ (Cardinality(zones[t]) >= AuthorityCapacity)
  <2>1. SubEntity(zones[t], rec) = zones[t] \cup {rec}
    BY <1>1, <1>3, <1>7 DEF SubEntity, Record
  <2>2. zones' = Placement(zones, c, {t}, idx)
    BY <1>1, <1>2, <1>4, <1>5, <2>1 DEF Placement
  <2>3. Cardinality(zones[t]) < AuthorityCapacity
    <3>1. Cardinality(zones[t]) \in Nat
      BY <1>1, RecordsFinite DEF HInv, HostWorld
    <3> QED BY <1>7, <3>1, AuthorityCapacityAssumption
  <2>4. Place(zones, c, {t})
    BY <1>1, <2>3 DEF Place
  <2>5. Filing(c, idx, {t}, Settled)
    BY <1>1, <1>2, <2>2, <2>4 DEF Filing, Settled
  <2> QED BY <2>5
<1> QED BY <1>6, <1>7

(* A move within the zone and a staged crossing refile it at home. *)
LEMMA RefileFiles ==
  ASSUME HInv, NEW c \in Conn, NEW idx \in CurveIndex, NEW st, Present(c),
         Owned(zones, idx),
         zones' = [zones EXCEPT ![Home(c)] = Refile(@, c, idx)],
         staging' = [staging EXCEPT ![c] = st],
         st.zone = IF Contains(Home(c), idx) THEN Nowhere ELSE Target(idx)
  PROVE  Filing(c, idx, {Home(c)}, st)
<1> DEFINE h == Home(c)
           rec == Record(c, idx)
<1>1. h \in DOMAIN zones /\ Holds(zones[h], c) /\ HomeOf(zones, c) = {h}
  BY HomeHolds
<1>2. Refile(zones[h], c, idx) = UnsubEntity(zones[h], c) \cup {rec}
  BY <1>1, RefileIs DEF HInv
<1>3. \A r \in DOMAIN zones : r # h => UnsubEntity(zones[r], c) = zones[r]
  BY <1>1 DEF HomeOf, UnsubEntity, Holds
<1>4. zones = [r \in DOMAIN zones |-> zones[r]]
  BY DEF HInv, HostWorld, Typed
<1> HIDE DEF h
<1>5. zones' = [zones EXCEPT ![h] = UnsubEntity(zones[h], c) \cup {rec}]
  BY <1>2 DEF h
<1>6. zones' = Placement(zones, c, {h}, idx)
  BY <1>1, <1>3, <1>4, <1>5 DEF Placement
<1>7. Place(zones, c, {h})
  BY <1>1 DEF Place
<1> QED BY <1>6, <1>7 DEF Filing, Target, h

(* A commit moves it to the owner, which has a place for it. *)
LEMMA CommitFiles ==
  ASSUME HInv, NEW c \in Conn, NEW idx \in CurveIndex, NEW rtt, Commit(c, idx, rtt)
  PROVE  Filing(c, idx, {Target(idx)}, Settled)
<1> DEFINE h == Home(c)
           t == Target(idx)
           rec == Record(c, idx)
<1>1. /\ Owned(zones, idx) /\ Present(c) /\ t # h
      /\ Cardinality(zones[t]) < AuthorityCapacity
      /\ staging' = [staging EXCEPT ![c] = Settled]
  BY DEF Commit, Crossing, CanCommit, Target
<1>2. zones' = [zones EXCEPT ![h] = UnsubEntity(@, c), ![t] = SubEntity(@, rec)]
  BY DEF Commit, Target
<1>3. h \in DOMAIN zones /\ HomeOf(zones, c) = {h}
  BY <1>1, HomeHolds
<1>4. t \in DOMAIN zones /\ Contains(t, idx)
  BY <1>1, AuthorityExists DEF Target
<1>5. \A r \in DOMAIN zones : r # h =>
         UnsubEntity(zones[r], c) = zones[r] /\ ~ Holds(zones[r], c)
  BY <1>3 DEF HomeOf, UnsubEntity, Holds
<1>6. Cardinality(zones[t]) \in Nat
  BY <1>4, RecordsFinite DEF HInv, HostWorld
<1>7. ~ (Cardinality(zones[t]) >= AuthorityCapacity)
  BY <1>1, <1>6, AuthorityCapacityAssumption
<1>8. SubEntity(zones[t], rec) = zones[t] \cup {rec}
  BY <1>1, <1>4, <1>5, <1>7 DEF SubEntity, Record
<1>9. zones = [r \in DOMAIN zones |-> zones[r]]
  BY DEF HInv, HostWorld, Typed
<1> HIDE DEF h, t, rec
<1>10. zones' = [r \in DOMAIN zones |-> IF r = t THEN zones[t] \cup {rec}
                                        ELSE UnsubEntity(zones[r], c)]
  BY <1>1, <1>2, <1>3, <1>4, <1>5, <1>8, <1>9
<1>11. zones' = Placement(zones, c, {t}, idx)
  BY <1>1, <1>4, <1>5, <1>10 DEF Placement, rec
<1>12. Place(zones, c, {t})
  BY <1>1, <1>4 DEF Place
<1> QED BY <1>1, <1>4, <1>11, <1>12 DEF Filing, Settled, t

(* Which placement a report makes. *)
LEMMA ReportFiles ==
  ASSUME HInv, NEW c \in Conn, NEW idx \in CurveIndex, NEW rtt,
         HysteresisMove(c, idx, rtt)
  PROVE  \/ /\ Filing(c, idx, {}, Settled)
            /\ ~ Owned(zones, idx) \/ ~ Present(c)
         \/ Filing(c, idx, {Target(idx)}, Settled) /\ ~ Present(c)
         \/ Filing(c, idx, {Home(c)}, Settled) /\ Present(c)
         \/ /\ Filing(c, idx, {Home(c)}, Staged(Target(idx), NextStreak(c, Target(idx))))
            /\ Crossing(c, idx)
         \/ /\ Filing(c, idx, {Target(idx)}, Settled)
            /\ Crossing(c, idx) /\ CanCommit(c, Target(idx), rtt)
<1>1. CASE LeaveWorld(c, idx)
  BY <1>1, LeaveFiles DEF LeaveWorld
<1>2. CASE FirstPlacement(c, idx)
  BY <1>2, FirstFiles DEF FirstPlacement
<1>3. CASE MoveWithin(c, idx)
  <2>1. Owned(zones, idx) /\ Target(idx) = Home(c)
    BY <1>3 DEF MoveWithin, Target
  <2>2. Contains(Home(c), idx)
    BY <2>1, AuthorityExists DEF Target
  <2>3. Settled.zone = IF Contains(Home(c), idx) THEN Nowhere ELSE Target(idx)
    BY <2>2 DEF Settled
  <2> QED BY <1>3, <2>1, <2>3, RefileFiles DEF MoveWithin
<1>4. CASE Stage(c, idx, rtt)
  <2> DEFINE st == Staged(Target(idx), NextStreak(c, Target(idx)))
  <2>1. Crossing(c, idx) /\ Owned(zones, idx) /\ Present(c) /\ Target(idx) # Home(c)
    BY <1>4 DEF Stage, Crossing, Target
  <2>2. Home(c) \in DOMAIN zones
    BY <2>1, HomeHolds
  <2>3. Target(idx) \in DOMAIN zones /\ Contains(Target(idx), idx)
    BY <2>1, AuthorityExists DEF Target
  <2>4. ~ Contains(Home(c), idx)
    BY <2>1, <2>2, <2>3, OneOwner
  <2>5. st.zone = IF Contains(Home(c), idx) THEN Nowhere ELSE Target(idx)
    BY <2>4 DEF Staged
  <2>6. /\ zones' = [zones EXCEPT ![Home(c)] = Refile(@, c, idx)]
        /\ staging' = [staging EXCEPT ![c] = st]
    BY <1>4 DEF Stage, Target
  <2> HIDE DEF st
  <2>7. Filing(c, idx, {Home(c)}, st)
    BY <2>1, <2>5, <2>6, RefileFiles
  <2> QED BY <2>1, <2>7 DEF st
<1>5. CASE Commit(c, idx, rtt)
  BY <1>5, CommitFiles DEF Commit, Target
<1> QED BY <1>1, <1>2, <1>3, <1>4, <1>5 DEF HysteresisMove
-----------------------------------------------------------------------------
(* A staged streak counts reports in the target zone: the last one was one.*)
LEMMA StagedWasThere ==
  ASSUME HInv, NEW c \in Conn, NEW idx \in CurveIndex, Crossing(c, idx),
         staging[c].zone = Target(idx)
  PROVE  SameZone(reported[c], idx)
<1> DEFINE t == Target(idx)
<1>1. t \in DOMAIN zones /\ Contains(t, idx) /\ t # Nowhere
  BY AuthorityExists, NowhereAssumption DEF Crossing, Target, HInv, HostWorld
<1>2. Home(c) \in DOMAIN zones /\ Holds(zones[Home(c)], c)
  BY HomeHolds DEF Crossing
<1>3. PICK rec \in zones[Home(c)] : rec.conn = c
  BY <1>2 DEF Holds
<1>4. t = IF Contains(Home(c), rec.idx) THEN Nowhere ELSE AuthorityForIndex(zones, rec.idx)
  BY <1>2, <1>3 DEF HInv, StagedForOwner
<1>5. Owned(zones, rec.idx) /\ rec.idx = reported[c]
  BY <1>2, <1>3 DEF HInv, RecordsOwned, RecordsAreFresh
<1>6. Contains(t, reported[c])
  BY <1>1, <1>4, <1>5, AuthorityExists
<1>7. rec.idx \in CurveIndex
  BY <1>2, <1>3 DEF HInv, HostWorld, Typed, EntityRecord
<1> QED BY <1>1, <1>5, <1>6, <1>7, NowhereAssumption DEF SameZone

(* How many reports in a row name the zone of idx, this one included. *)
NextSteady(c, idx) ==
  IF SameZone(reported[c], idx) THEN AtMost(steady[c] + 1, StreakBound) ELSE 1

(* The streak of a crossing never runs ahead of the reports. *)
LEMMA StreakCounted ==
  ASSUME HInv, NEW c \in Conn, NEW idx \in CurveIndex, Crossing(c, idx)
  PROVE  /\ NextStreak(c, Target(idx)) \in Nat /\ NextSteady(c, idx) \in Nat
         /\ AtMost(NextStreak(c, Target(idx)), StreakBound) <= NextSteady(c, idx)
<1> DEFINE k == staging[c].streak
           n == steady[c]
<1>1. k \in Nat /\ n \in Nat /\ k <= n
  BY DEF HInv, Counters
<1>2. StreakBound \in Nat
  BY StreakBoundAssumption
<1> HIDE DEF k, n
<1>3. CASE staging[c].zone = Target(idx)
  <2>1. NextStreak(c, Target(idx)) = k + 1 /\ NextSteady(c, idx) = AtMost(n + 1, StreakBound)
    BY <1>3, StagedWasThere DEF NextStreak, NextSteady, k, n
  <2> QED BY <1>1, <1>2, <2>1 DEF AtMost
<1>4. CASE staging[c].zone # Target(idx)
  <2>1. /\ NextStreak(c, Target(idx)) = 1
        /\ NextSteady(c, idx) = AtMost(n + 1, StreakBound) \/ NextSteady(c, idx) = 1
    BY <1>4 DEF NextStreak, NextSteady, n
  <2> QED BY <1>1, <1>2, <2>1 DEF AtMost
<1> QED BY <1>3, <1>4
-----------------------------------------------------------------------------
(* The zones start empty. *)
LEMMA HysteresisInitHInv == HysteresisInit => HInv
<1> SUFFICES ASSUME HysteresisInit PROVE HInv
  OBVIOUS
<1>1. zones = [r \in HostRanges |-> {}] /\ DOMAIN zones = HostRanges
  BY DEF HysteresisInit
<1>2. \A r \in HostRanges : Cardinality(zones[r]) <= AuthorityCapacity
  BY <1>1, FS_EmptySet, AuthorityCapacityAssumption
<1>3. Typed(zones) /\ OneRecord(zones)
  BY <1>1, HostRangesAssumption DEF Typed, OneRecord
<1>4. Counters
  BY DEF HysteresisInit, Counters, Settled
<1>5. RecordsOwned /\ RecordsAreFresh /\ StagedForOwner
  BY <1>1 DEF RecordsOwned, RecordsAreFresh, StagedForOwner
<1> QED BY <1>1, <1>2, <1>3, <1>4, <1>5 DEF HInv, HostWorld

(* A placement that is reported keeps everything the invariant says of     *)
(* records.                                                                *)
LEMMA FilingKeeps ==
  ASSUME HInv, NEW c \in Conn, NEW idx, NEW at, NEW st, NEW x, Filing(c, idx, at, st),
         reported' = [reported EXCEPT ![c] = x],
         at # {} => x = idx /\ idx \in CurveIndex
  PROVE  HostWorld(zones') /\ RecordsOwned' /\ RecordsAreFresh' /\ StagedForOwner'
<1>1. zones' = Placement(zones, c, at, idx) /\ Place(zones, c, at)
  BY DEF Filing
<1>2. HostWorld(zones')
  BY <1>1, PlacementHostWorld DEF HInv
<1>3. DOMAIN zones' = DOMAIN zones
  BY <1>1 DEF Placement
<1>4. \A i : /\ Owned(zones', i) <=> Owned(zones, i)
             /\ AuthorityForIndex(zones', i) = AuthorityForIndex(zones, i)
  BY <1>3 DEF Owned, AuthorityForIndex
<1>5. reported \in [Conn -> {Nowhere} \cup CurveIndex] /\ DOMAIN staging = Conn
  BY DEF HInv, Counters
<1>6. /\ reported'[c] = x /\ staging'[c] = st
      /\ \A d \in Conn : d # c => reported'[d] = reported[d] /\ staging'[d] = staging[d]
  BY <1>5 DEF Filing
<1>7. \A r \in DOMAIN zones : \A a \in zones'[r] :
        \/ a \in zones[r] /\ a.conn \in Conn /\ a.conn # c
        \/ a.conn = c /\ a.idx = idx /\ r \in at
  BY <1>1 DEF Placement, UnsubEntity, Record, HInv, HostWorld, Typed, EntityRecord
<1>8. ASSUME NEW r \in DOMAIN zones, NEW a \in zones'[r]
      PROVE  /\ Owned(zones, a.idx)
             /\ a.idx = reported'[a.conn]
             /\ staging'[a.conn].zone =
                  IF Contains(r, a.idx) THEN Nowhere ELSE AuthorityForIndex(zones, a.idx)
  <2>1. CASE a \in zones[r] /\ a.conn \in Conn /\ a.conn # c
    BY <2>1, <1>6 DEF HInv, RecordsOwned, RecordsAreFresh, StagedForOwner
  <2>2. CASE a.conn = c /\ a.idx = idx /\ r \in at
    BY <2>2, <1>6 DEF Filing
  <2> QED BY <1>7, <1>8, <2>1, <2>2
<1>9. RecordsOwned' /\ RecordsAreFresh'
  BY <1>3, <1>4, <1>8 DEF RecordsOwned, RecordsAreFresh
<1>10. StagedForOwner'
  BY <1>3, <1>4, <1>8 DEF StagedForOwner
<1> QED BY <1>2, <1>9, <1>10

(* removeEntity. *)
LEMMA DisconnectHInv ==
  ASSUME HInv, NEW c \in Conn, Disconnect(c)
  PROVE  HInv'
<1>1. Filing(c, Nowhere, {}, Settled)
  BY LeaveFiles DEF Disconnect
<1>2. reported' = [reported EXCEPT ![c] = Nowhere]
  BY DEF Disconnect
<1>3. HostWorld(zones') /\ RecordsOwned' /\ RecordsAreFresh' /\ StagedForOwner'
  BY <1>1, <1>2, FilingKeeps
<1>4. Counters'
  BY DEF Disconnect, HInv, Counters, Settled
<1> QED BY <1>3, <1>4 DEF HInv

(* A report, by its five outcomes. *)
LEMMA ReportHInv ==
  ASSUME HInv, NEW c \in Conn, NEW idx \in CurveIndex, NEW rtt \in RttSamples,
         HysteresisMove(c, idx, rtt)
  PROVE  HInv'
<1> DEFINE k == NextSteady(c, idx)
           n == NextStreak(c, Target(idx))
<1>1. /\ reported' = [reported EXCEPT ![c] = idx]
      /\ steady' = [steady EXCEPT ![c] = k]
      /\ sample' = [sample EXCEPT ![c] = rtt] /\ rtt \in Nat
  BY RttSamplesAssumption DEF HysteresisMove, NextSteady
<1>2. k \in Nat
  BY StreakBoundAssumption DEF NextSteady, AtMost, HInv, Counters
<1>3. Settled \in [zone : {Nowhere} \cup HostRanges, streak : Nat] /\ Settled.streak <= k
  BY <1>2 DEF Settled
<1>4. Crossing(c, idx) =>
        /\ Staged(Target(idx), n) \in [zone : {Nowhere} \cup HostRanges, streak : Nat]
        /\ Staged(Target(idx), n).streak <= k
  <2> SUFFICES ASSUME Crossing(c, idx)
               PROVE  /\ Staged(Target(idx), n) \in [zone : {Nowhere} \cup HostRanges, streak : Nat]
                      /\ Staged(Target(idx), n).streak <= k
    OBVIOUS
  <2>1. Target(idx) \in HostRanges
    BY AuthorityExists DEF Crossing, Target, HInv, HostWorld
  <2>2. n \in Nat /\ AtMost(n, StreakBound) <= k
    BY StreakCounted
  <2>3. AtMost(n, StreakBound) \in Nat
    BY <2>2, StreakBoundAssumption DEF AtMost
  <2> HIDE DEF n, k
  <2> QED BY <2>1, <2>2, <2>3 DEF Staged
<1>5. \E at, st : /\ Filing(c, idx, at, st)
                  /\ st \in [zone : {Nowhere} \cup HostRanges, streak : Nat]
                  /\ st.streak <= k
  <2> HIDE DEF k
  <2> QED BY ReportFiles, <1>3, <1>4
<1>6. PICK at, st : /\ Filing(c, idx, at, st)
                    /\ st \in [zone : {Nowhere} \cup HostRanges, streak : Nat]
                    /\ st.streak <= k
  BY <1>5
<1>7. HostWorld(zones') /\ RecordsOwned' /\ RecordsAreFresh' /\ StagedForOwner'
  BY <1>1, <1>6, FilingKeeps
<1>8. staging' = [staging EXCEPT ![c] = st]
  BY <1>6 DEF Filing
<1> HIDE DEF k
<1>9. Counters'
  BY <1>1, <1>2, <1>6, <1>8 DEF HInv, Counters
<1> QED BY <1>7, <1>9 DEF HInv

(* Every report and every disconnect keeps the invariant. *)
LEMMA HysteresisNextHInv == HInv /\ [HysteresisNext]_hvars => HInv'
<1> SUFFICES ASSUME HInv, [HysteresisNext]_hvars PROVE HInv'
  OBVIOUS
<1>1. ASSUME NEW c \in Conn, Report(c) PROVE HInv'
  <2>1. PICK idx \in CurveIndex, rtt \in RttSamples : HysteresisMove(c, idx, rtt)
    BY <1>1, PositionsAssumption DEF Report
  <2> QED BY <2>1, ReportHInv
<1>2. ASSUME NEW c \in Conn, Disconnect(c) PROVE HInv'
  BY <1>2, DisconnectHInv
<1>3. CASE UNCHANGED hvars
  BY <1>3 DEF hvars, HInv, HostWorld, Typed, OneRecord, Counters, RecordsOwned, RecordsAreFresh,
              StagedForOwner, Owned, AuthorityForIndex
<1> QED BY <1>1, <1>2, <1>3 DEF HysteresisNext

(* The strengthening that makes the two invariants inductive. *)
THEOREM HysteresisInvariant == HysteresisSpec => []HInv
BY HysteresisInitHInv, HysteresisNextHInv, PTL DEF HysteresisSpec

(* A record is refreshed at every report, staged or not, whatever the      *)
(* zones, the capacities and the RTTs (moveEntityToIndexHysteresisV).      *)
THEOREM RecordsStayFresh == HysteresisSpec => []RecordsAreFresh
<1>1. HInv => RecordsAreFresh
  BY DEF HInv
<1> QED BY <1>1, HysteresisInvariant, PTL

(* pendingZone names the owner of the record exactly while the entity      *)
(* waits outside of it, and is cleared with every other outcome.           *)
THEOREM StagedWhileCrossing == HysteresisSpec => []StagedForOwner
<1>1. HInv => StagedForOwner
  BY DEF HInv
<1> QED BY <1>1, HysteresisInvariant, PTL
-----------------------------------------------------------------------------
(* What a step does with an entity that is in the world: it stays at home, *)
(* or leaves the world, or commits.                                        *)
Commits(c) ==
  \E idx \in CurveIndex, rtt \in RttSamples :
    /\ Crossing(c, idx) /\ CanCommit(c, Target(idx), rtt)
    /\ HomeOf(zones', c) = {Target(idx)}
    /\ steady'[c] = NextSteady(c, idx) /\ sample'[c] = rtt

Leaves(c) ==
  /\ HomeOf(zones', c) = {}
  /\ reported'[c] = Nowhere \/ ~ Owned(zones, reported'[c])

(* The three cases are all there are, for any entity of the world. *)
LEMMA StepOfEntity ==
  ASSUME HInv, [HysteresisNext]_hvars, NEW c \in Conn, Present(c)
  PROVE  HomeOf(zones', c) = HomeOf(zones, c) \/ Leaves(c) \/ Commits(c)
<1>1. ASSUME NEW d \in Conn, NEW idx \in CurveIndex, NEW rtt \in RttSamples,
             HysteresisMove(d, idx, rtt)
      PROVE  HomeOf(zones', c) = HomeOf(zones, c) \/ Leaves(c) \/ Commits(c)
  <2>1. \A at, st : Filing(d, idx, at, st) =>
          /\ HomeOf(zones', d) = at
          /\ c # d => HomeOf(zones', c) = HomeOf(zones, c)
    BY HomeAfter DEF Filing
  <2>2. CASE c # d
    BY <1>1, <2>1, <2>2, ReportFiles
  <2>3. CASE c = d
    <3>1. /\ reported'[c] = idx /\ sample'[c] = rtt
          /\ steady'[c] = NextSteady(c, idx)
      BY <1>1, <2>3 DEF HysteresisMove, NextSteady, HInv, Counters
    <3>2. CASE Filing(c, idx, {}, Settled) /\ ~ Owned(zones, idx)
      BY <2>1, <2>3, <3>1, <3>2 DEF Leaves
    <3>3. CASE \E st : Filing(c, idx, {Home(c)}, st)
      BY <2>1, <2>3, <3>3, HomeHolds
    <3>4. CASE /\ Filing(c, idx, {Target(idx)}, Settled)
               /\ Crossing(c, idx) /\ CanCommit(c, Target(idx), rtt)
      BY <2>1, <2>3, <3>1, <3>4 DEF Commits
    <3> QED BY <1>1, <2>3, <3>2, <3>3, <3>4, ReportFiles
  <2> QED BY <2>2, <2>3
<1>2. ASSUME NEW d \in Conn, Disconnect(d)
      PROVE  HomeOf(zones', c) = HomeOf(zones, c) \/ Leaves(c)
  <2>1. Filing(d, Nowhere, {}, Settled)
    BY <1>2, LeaveFiles DEF Disconnect
  <2>2. HomeOf(zones', d) = {} /\ (c # d => HomeOf(zones', c) = HomeOf(zones, c))
    BY <2>1, HomeAfter DEF Filing
  <2>3. reported'[d] = Nowhere
    BY <1>2 DEF Disconnect, HInv, Counters
  <2> QED BY <2>2, <2>3 DEF Leaves
<1>3. CASE UNCHANGED hvars
  BY <1>3 DEF hvars, HomeOf
<1> QED BY <1>1, <1>2, <1>3, PositionsAssumption DEF HysteresisNext, Report

(* Neither a crossing nor a full target loses or doubles an entity: while  *)
(* it reports positions that somebody owns it is in exactly one zone.      *)
THEOREM CrossingIsSafe == HysteresisSpec => CrossingKeepsEntity
<1> DEFINE A == \A c \in Conn :
                  Present(c) => \/ Cardinality(HomeOf(zones', c)) = 1
                                \/ reported'[c] = Nowhere
                                \/ ~ Owned(zones, reported'[c])
<1>1. HInv /\ [HysteresisNext]_hvars => A
  <2> SUFFICES ASSUME HInv, [HysteresisNext]_hvars, NEW c \in Conn, Present(c), ~ Leaves(c)
               PROVE  Cardinality(HomeOf(zones', c)) = 1
    BY DEF Leaves
  <2>1. HomeOf(zones', c) = {Home(c)} \/ \E r : HomeOf(zones', c) = {r}
    BY StepOfEntity, HomeHolds DEF Commits
  <2> QED BY <2>1, FS_Singleton
<1>2. HInv /\ [HysteresisNext]_hvars => [A]_hvars
  BY <1>1
<1> QED BY <1>2, HysteresisInvariant, PTL DEF HysteresisSpec, CrossingKeepsEntity

(* A threshold is a number of reports, and none lies beyond the bound. *)
LEMMA TicksCounted ==
  ASSUME NEW rtt \in RttSamples
  PROVE  HysteresisTicksFor(rtt) \in Nat /\ HysteresisTicksFor(rtt) <= StreakBound
<1>1. rtt \in Nat
  BY RttSamplesAssumption
<1>2. HysteresisTicksFor(rtt) \in Nat
  BY <1>1 DEF HysteresisTicksFor, DefaultTicks
<1> QED BY <1>2, StreakBoundAssumption

(* Authority passes only with a report that completes the run of reports   *)
(* in the new zone that hysteresisTicksFor asks for, however the entity    *)
(* wavers, whatever RTTs its reports carry and whoever fills the target in *)
(* between.                                                                *)
THEOREM MigrationIsSustained == HysteresisSpec => NoEarlyMigration
<1> DEFINE A == \A c \in Conn :
                  Present(c) /\ Present(c)' /\ HomeOf(zones', c) # HomeOf(zones, c) =>
                    steady'[c] >= HysteresisTicksFor(sample'[c])
<1>1. HInv /\ [HysteresisNext]_hvars => A
  <2> SUFFICES ASSUME HInv, [HysteresisNext]_hvars, NEW c \in Conn, Present(c), Present(c)',
                      HomeOf(zones', c) # HomeOf(zones, c)
               PROVE  steady'[c] >= HysteresisTicksFor(sample'[c])
    OBVIOUS
  <2>1. Commits(c)
    BY StepOfEntity DEF Leaves, Present
  <2>2. PICK idx \in CurveIndex, rtt \in RttSamples :
          /\ Crossing(c, idx) /\ CanCommit(c, Target(idx), rtt)
          /\ steady'[c] = NextSteady(c, idx) /\ sample'[c] = rtt
    BY <2>1 DEF Commits
  <2> DEFINE n == NextStreak(c, Target(idx))
             k == NextSteady(c, idx)
             m == HysteresisTicksFor(rtt)
  <2>3. n \in Nat /\ k \in Nat /\ AtMost(n, StreakBound) <= k
    BY <2>2, StreakCounted
  <2>4. n >= m
    BY <2>2 DEF CanCommit
  <2>5. m \in Nat /\ m <= StreakBound
    BY TicksCounted
  <2> HIDE DEF n, k, m
  <2>6. k >= m
    BY <2>3, <2>4, <2>5, StreakBoundAssumption DEF AtMost
  <2> QED BY <2>2, <2>6 DEF k, m
<1>2. HInv /\ [HysteresisNext]_hvars => [A]_hvars
  BY <1>1
<1> QED BY <1>2, HysteresisInvariant, PTL DEF HysteresisSpec, NoEarlyMigration

-----------------------------------------------------------------------------
(* The streak of a staged entity is exactly its run of reports in the zone *)
(* it is staged for: neither a waver, nor a full target, nor a report      *)
(* before the crossing puts the two out of step.                           *)
StreaksExact ==
  \A c \in Conn : staging[c].zone # Nowhere => staging[c].streak = steady[c]

(* A crossing towards another zone than the staged one starts a new run.   *)
LEMMA NewRun ==
  ASSUME HInv, NEW c \in Conn, NEW idx \in CurveIndex, Crossing(c, idx),
         staging[c].zone # Target(idx)
  PROVE  ~ SameZone(reported[c], idx)
<1> SUFFICES ASSUME SameZone(reported[c], idx) PROVE FALSE
  OBVIOUS
<1>1. PICK r \in DOMAIN zones : Contains(r, reported[c]) /\ Contains(r, idx)
  BY DEF SameZone
<1>2. /\ Target(idx) \in DOMAIN zones /\ Contains(Target(idx), idx)
      /\ Target(idx) # Home(c)
  BY AuthorityExists DEF Crossing, Target
<1>3. Home(c) \in DOMAIN zones /\ Holds(zones[Home(c)], c)
  BY HomeHolds DEF Crossing
<1>4. PICK rec \in zones[Home(c)] : rec.conn = c
  BY <1>3 DEF Holds
<1>5. rec.idx = reported[c] /\ rec.idx \in CurveIndex /\ Owned(zones, rec.idx)
  BY <1>3, <1>4 DEF HInv, RecordsAreFresh, RecordsOwned, HostWorld, Typed, EntityRecord
<1>6. r = Target(idx)
  BY <1>1, <1>2, OneOwner
<1>7. ~ Contains(Home(c), rec.idx)
  BY <1>1, <1>2, <1>3, <1>5, <1>6, OneOwner
<1>8. staging[c].zone = AuthorityForIndex(zones, rec.idx)
  BY <1>3, <1>4, <1>7 DEF HInv, StagedForOwner
<1>9. AuthorityForIndex(zones, rec.idx) = r
  <2>1. /\ AuthorityForIndex(zones, rec.idx) \in DOMAIN zones
        /\ Contains(AuthorityForIndex(zones, rec.idx), rec.idx)
    BY <1>5, AuthorityExists
  <2> QED BY <1>1, <1>5, <2>1, OneOwner
<1> QED BY <1>6, <1>8, <1>9

(* The streak of a crossing, this report included, is the run of reports.  *)
LEMMA StreakIsRun ==
  ASSUME HInv, StreaksExact, StreakBound >= 1,
         NEW c \in Conn, NEW idx \in CurveIndex, Crossing(c, idx)
  PROVE  AtMost(NextStreak(c, Target(idx)), StreakBound) = NextSteady(c, idx)
<1> DEFINE k == staging[c].streak
           n == steady[c]
<1>1. StreakBound \in Nat /\ k \in Nat /\ n \in Nat
  BY StreakBoundAssumption DEF HInv, Counters
<1>2. CASE staging[c].zone = Target(idx)
  <2>1. Target(idx) # Nowhere
    BY AuthorityExists, NowhereAssumption DEF Crossing, Target, HInv, HostWorld
  <2>2. k = n
    BY <1>2, <2>1 DEF StreaksExact
  <2>3. NextStreak(c, Target(idx)) = n + 1 /\ NextSteady(c, idx) = AtMost(n + 1, StreakBound)
    BY <1>2, <2>2, StagedWasThere DEF NextStreak, NextSteady
  <2> QED BY <2>3
<1>3. CASE staging[c].zone # Target(idx)
  <2>1. NextStreak(c, Target(idx)) = 1 /\ NextSteady(c, idx) = 1
    BY <1>3, NewRun DEF NextStreak, NextSteady
  <2> QED BY <1>1, <2>1 DEF AtMost
<1> QED BY <1>2, <1>3

(* Somebody reports, so there is a sample and the bound is no less than    *)
(* its threshold.                                                          *)
LEMMA BoundPositive ==
  ASSUME NEW rtt \in RttSamples
  PROVE  StreakBound >= 1
<1>1. rtt \in Nat
  BY RttSamplesAssumption
<1>2. HysteresisTicksFor(rtt) >= 1 /\ HysteresisTicksFor(rtt) \in Nat
  BY <1>1 DEF HysteresisTicksFor, DefaultTicks
<1>3. HysteresisTicksFor(rtt) <= StreakBound /\ StreakBound \in Nat
  BY StreakBoundAssumption
<1> QED BY <1>2, <1>3

(* Every step keeps streaks exact. *)
LEMMA NextStreaksExact ==
  HInv /\ StreaksExact /\ [HysteresisNext]_hvars => StreaksExact'
<1> SUFFICES ASSUME HInv, StreaksExact, [HysteresisNext]_hvars PROVE StreaksExact'
  OBVIOUS
<1>1. DOMAIN staging = Conn /\ DOMAIN steady = Conn
  BY DEF HInv, Counters
<1>2. ASSUME NEW c \in Conn, NEW st, NEW k,
             staging' = [staging EXCEPT ![c] = st], steady' = [steady EXCEPT ![c] = k],
             st.zone # Nowhere => st.streak = k
      PROVE  StreaksExact'
  BY <1>1, <1>2 DEF StreaksExact
<1>3. ASSUME NEW c \in Conn, Disconnect(c) PROVE StreaksExact'
  <2>1. staging' = [staging EXCEPT ![c] = Settled] /\ steady' = [steady EXCEPT ![c] = 0]
    BY <1>3 DEF Disconnect
  <2> QED BY <1>2, <2>1 DEF Settled
<1>4. ASSUME NEW c \in Conn, NEW idx \in CurveIndex, NEW rtt \in RttSamples,
             HysteresisMove(c, idx, rtt)
      PROVE  StreaksExact'
  <2>1. steady' = [steady EXCEPT ![c] = NextSteady(c, idx)]
    BY <1>4 DEF HysteresisMove, NextSteady
  <2>2. CASE staging' = [staging EXCEPT ![c] = Settled]
    BY <1>2, <2>1, <2>2 DEF Settled
  <2>3. CASE Stage(c, idx, rtt)
    <3> DEFINE st == Staged(Target(idx), NextStreak(c, Target(idx)))
    <3>1. staging' = [staging EXCEPT ![c] = st] /\ Crossing(c, idx)
      BY <2>3 DEF Stage, Target
    <3>2. st.streak = NextSteady(c, idx)
      BY <3>1, StreakIsRun, BoundPositive DEF Staged
    <3> HIDE DEF st
    <3> QED BY <1>2, <2>1, <3>1, <3>2
  <2> QED BY <1>4, <2>2, <2>3
          DEF HysteresisMove, LeaveWorld, FirstPlacement, MoveWithin, Commit
<1>5. CASE UNCHANGED hvars
  BY <1>5 DEF hvars, StreaksExact
<1> QED BY <1>3, <1>4, <1>5, PositionsAssumption DEF HysteresisNext, Report

(* pendingZone and migrationStreak never lose or gain a report.            *)
THEOREM StreakNeverDrifts == HysteresisSpec => []StreaksExact
<1>1. HysteresisInit => StreaksExact
  BY DEF HysteresisInit, StreaksExact, Settled
<1> QED BY <1>1, NextStreaksExact, HysteresisInvariant, PTL DEF HysteresisSpec

(* A report that completes the run of reports its RTT asks for leaves the  *)
(* entity in the zone that owns the position, if it is there already or    *)
(* the zone has room.                                                      *)
PromptMigration ==
  [][\A c \in Conn :
       LET t == AuthorityForIndex(zones, reported'[c])
       IN  /\ Report(c) /\ Present(c) /\ Owned(zones, reported'[c])
           /\ steady'[c] >= HysteresisTicksFor(sample'[c])
           /\ Holds(zones[t], c) \/ Cardinality(zones[t]) < AuthorityCapacity
           => HomeOf(zones', c) = {t}]_hvars

(* No crossing waits longer than hysteresisTicksFor says: with NoEarly-    *)
(* Migration, authority passes at exactly the report that completes the    *)
(* run, whatever happened before it, unless the target is full.  This is   *)
(* what SteadyCrossingCommits needs of each step.                          *)
THEOREM MigrationIsPrompt == HysteresisSpec => PromptMigration
<1> DEFINE A == \A c \in Conn :
                  LET t == AuthorityForIndex(zones, reported'[c])
                  IN  /\ Report(c) /\ Present(c) /\ Owned(zones, reported'[c])
                      /\ steady'[c] >= HysteresisTicksFor(sample'[c])
                      /\ Holds(zones[t], c) \/ Cardinality(zones[t]) < AuthorityCapacity
                      => HomeOf(zones', c) = {t}
<1>1. HInv /\ StreaksExact => A
  <2> SUFFICES ASSUME HInv, StreaksExact, NEW c \in Conn, Report(c), Present(c),
                      Owned(zones, reported'[c]),
                      steady'[c] >= HysteresisTicksFor(sample'[c]),
                      \/ Holds(zones[Target(reported'[c])], c)
                      \/ Cardinality(zones[Target(reported'[c])]) < AuthorityCapacity
               PROVE  HomeOf(zones', c) = {Target(reported'[c])}
    BY DEF Target
  <2>1. PICK idx \in CurveIndex, rtt \in RttSamples : HysteresisMove(c, idx, rtt)
    BY PositionsAssumption DEF Report
  <2>2. reported'[c] = idx /\ sample'[c] = rtt /\ steady'[c] = NextSteady(c, idx)
    BY <2>1 DEF HysteresisMove, NextSteady, HInv, Counters
  <2> DEFINE t == Target(idx)
  <2>3. /\ Owned(zones, idx) /\ NextSteady(c, idx) >= HysteresisTicksFor(rtt)
        /\ Holds(zones[t], c) \/ Cardinality(zones[t]) < AuthorityCapacity
    BY <2>2
  <2>4. t \in DOMAIN zones /\ Contains(t, idx)
    BY <2>3, AuthorityExists DEF Target
  <2>5. \A at, st : Filing(c, idx, at, st) => HomeOf(zones', c) = at
    BY HomeAfter DEF Filing
  <2>6. CASE t = Home(c)
    <3>1. MoveWithin(c, idx)
      BY <2>1, <2>3, <2>6 DEF HysteresisMove, LeaveWorld, FirstPlacement, Stage, Commit,
                              Crossing, Target
    <3>2. Contains(Home(c), idx)
      BY <2>4, <2>6
    <3>3. Settled.zone = IF Contains(Home(c), idx) THEN Nowhere ELSE Target(idx)
      BY <3>2 DEF Settled
    <3>4. Filing(c, idx, {Home(c)}, Settled)
      BY <2>3, <3>1, <3>3, RefileFiles DEF MoveWithin
    <3> QED BY <2>2, <2>5, <2>6, <3>4
  <2>7. CASE t # Home(c)
    <3>1. Crossing(c, idx)
      BY <2>3, <2>7 DEF Crossing, Target
    <3>2. ~ Holds(zones[t], c)
      BY <2>4, <2>7, HomeHolds DEF HomeOf
    <3>3. NextStreak(c, t) >= HysteresisTicksFor(rtt)
      <4> DEFINE n == NextStreak(c, t)
                 k == NextSteady(c, idx)
                 m == HysteresisTicksFor(rtt)
      <4>1. n \in Nat /\ k \in Nat /\ AtMost(n, StreakBound) = k
        BY <3>1, StreakIsRun, StreakCounted, BoundPositive
      <4>2. m \in Nat /\ StreakBound \in Nat
        BY TicksCounted, StreakBoundAssumption
      <4>3. k >= m
        BY <2>3
      <4> HIDE DEF n, k, m
      <4>4. n >= m
        BY <4>1, <4>2, <4>3 DEF AtMost
      <4> QED BY <4>4 DEF n, m
    <3>4. CanCommit(c, t, rtt)
      BY <2>3, <3>2, <3>3 DEF CanCommit
    <3>5. Commit(c, idx, rtt)
      BY <2>1, <2>3, <2>7, <3>4 DEF HysteresisMove, LeaveWorld, FirstPlacement, MoveWithin,
                                    Stage, Target
    <3>6. Filing(c, idx, {t}, Settled)
      BY <3>5, CommitFiles
    <3> QED BY <2>2, <2>5, <3>6
  <2> QED BY <2>6, <2>7
<1>2. HInv /\ StreaksExact => [A]_hvars
  BY <1>1
<1> QED BY <1>2, HysteresisInvariant, StreakNeverDrifts, PTL DEF PromptMigration
=============================================================================
