--------------------------- MODULE ZoneWorldProofs ---------------------------
(***************************************************************************)
(* Proofs about ZoneWorld for every curve depth, slot capacity, authority  *)
(* capacity and finite set of connections: live ranges stay disjoint, an   *)
(* entity has at most one record, a record is filed in the zone that owns  *)
(* its index and neither ceiling is exceeded.  Each operation on a world is*)
(* shown to keep a world sound and fitting; the theorems follow.  Then,    *)
(* that nobody is lost while splits find their slots; how many slots that  *)
(* takes; and that split and merge undo each other without flapping.       *)
(***************************************************************************)
EXTENDS ZoneWorld, FiniteSetTheorems, WellFoundedInduction, TLAPS

Disjoint(w) == \A r, s \in DOMAIN w : r # s => ~ Overlaps(r, s)

OneRecord(w) ==
  \A r, s \in DOMAIN w : \A a \in w[r], b \in w[s] :
     a.conn = b.conn => r = s /\ a = b

Filed(w) == \A r \in DOMAIN w : \A rec \in w[r] : Contains(r, rec.idx)

Typed(w) ==
  /\ DOMAIN w \subseteq Ranges
  /\ w = [r \in DOMAIN w |-> w[r]]
  /\ \A r \in DOMAIN w : w[r] \subseteq EntityRecord

Sound(w) == Typed(w) /\ Disjoint(w) /\ OneRecord(w) /\ Filed(w)

(* No more zones than slots, no more entities in a zone than it may own. *)
Fits(w) ==
  /\ IsFiniteSet(DOMAIN w) /\ Cardinality(DOMAIN w) <= Capacity
  /\ \A r \in DOMAIN w : Cardinality(w[r]) <= AuthorityCapacity

-----------------------------------------------------------------------------
(* The eight children of a range whose length is a multiple of eight lie   *)
(* in it, in order, without overlapping.                                   *)
LEMMA ChildBounds ==
  ASSUME NEW r \in Ranges, NEW n \in Nat \ {0}, r.stop - r.start = 8 * n,
         NEW i \in Octant
  PROVE  /\ Child(r, i) \in Ranges
         /\ Child(r, i).start = r.start + i * n
         /\ Child(r, i).stop = r.start + (i + 1) * n
         /\ r.start <= Child(r, i).start
         /\ Child(r, i).stop <= r.stop
<1>1. r.start \in Nat /\ r.stop \in Nat
  BY DEF Ranges
<1>2. (r.stop - r.start) \div 8 = n
  BY <1>1
<1>3. i \in {0, 1, 2, 3, 4, 5, 6, 7}
  BY DEF Octant
<1>4. Child(r, i) = [start |-> r.start + i * n, stop |-> r.start + (i + 1) * n]
  BY <1>2 DEF Child, ZoneRange
<1>5. /\ r.start + i * n \in Nat
      /\ r.start + (i + 1) * n \in Nat
      /\ r.start <= r.start + i * n
      /\ r.start + i * n < r.start + (i + 1) * n
      /\ r.start + (i + 1) * n <= r.stop
  BY <1>1, <1>3
<1> QED BY <1>4, <1>5 DEF Ranges

(* Two different children do not overlap. *)
LEMMA ChildrenDisjoint ==
  ASSUME NEW r \in Ranges, NEW n \in Nat \ {0}, r.stop - r.start = 8 * n,
         NEW i \in Octant, NEW j \in Octant, i < j
  PROVE  /\ ~ Overlaps(Child(r, i), Child(r, j))
         /\ ~ Overlaps(Child(r, j), Child(r, i))
<1>1. /\ Child(r, i).stop = r.start + (i + 1) * n
      /\ Child(r, j).start = r.start + j * n
      /\ Child(r, i) \in Ranges /\ Child(r, j) \in Ranges
  BY ChildBounds
<1>2. i \in {0, 1, 2, 3, 4, 5, 6, 7} /\ j \in {0, 1, 2, 3, 4, 5, 6, 7}
  BY DEF Octant
<1>3. (i + 1) * n <= j * n
  BY <1>2
<1>4. r.start \in Nat
  BY DEF Ranges
<1> QED BY <1>1, <1>2, <1>3, <1>4 DEF Overlaps, Ranges

(* A nonempty range that overlaps a range overlaps one of its children. *)
LEMMA ChildrenCover ==
  ASSUME NEW r \in Ranges, NEW n \in Nat \ {0}, r.stop - r.start = 8 * n,
         NEW t \in Ranges, Overlaps(t, r)
  PROVE  \E i \in Octant : Overlaps(t, Child(r, i))
<1> SUFFICES ASSUME \A i \in Octant : ~ Overlaps(t, Child(r, i))
             PROVE  FALSE
  OBVIOUS
<1>1. /\ r.start \in Nat /\ r.stop \in Nat /\ r.stop = r.start + 8 * n
      /\ t.start \in Nat /\ t.stop \in Nat /\ t.start < t.stop
      /\ t.start < r.stop /\ r.start < t.stop
  BY DEF Ranges, Overlaps
<1>2. \A i \in Octant : t.start >= r.start + (i + 1) * n \/ r.start + i * n >= t.stop
  <2> SUFFICES ASSUME NEW i \in Octant
               PROVE  \/ t.start >= r.start + (i + 1) * n
                      \/ r.start + i * n >= t.stop
    OBVIOUS
  <2>1. /\ Child(r, i).start = r.start + i * n
        /\ Child(r, i).stop = r.start + (i + 1) * n
        /\ Child(r, i).start \in Nat /\ Child(r, i).stop \in Nat
    BY ChildBounds DEF Ranges
  <2>2. ~ (t.start < Child(r, i).stop /\ Child(r, i).start < t.stop)
    BY DEF Overlaps
  <2> QED BY <1>1, <2>1, <2>2
<1>3. /\ t.start >= r.start + n \/ r.start >= t.stop
      /\ t.start >= r.start + 2 * n \/ r.start + n >= t.stop
      /\ t.start >= r.start + 3 * n \/ r.start + 2 * n >= t.stop
      /\ t.start >= r.start + 4 * n \/ r.start + 3 * n >= t.stop
      /\ t.start >= r.start + 5 * n \/ r.start + 4 * n >= t.stop
      /\ t.start >= r.start + 6 * n \/ r.start + 5 * n >= t.stop
      /\ t.start >= r.start + 7 * n \/ r.start + 6 * n >= t.stop
      /\ t.start >= r.start + 8 * n \/ r.start + 7 * n >= t.stop
  <2>1. /\ 0 \in Octant /\ 1 \in Octant /\ 2 \in Octant /\ 3 \in Octant
        /\ 4 \in Octant /\ 5 \in Octant /\ 6 \in Octant /\ 7 \in Octant
    BY DEF Octant
  <2> QED BY <1>2, <2>1, <1>1
<1> QED BY <1>1, <1>3

(* A cell that has children is eight times as long as each of them. *)
LEMMA SplitLength ==
  ASSUME NEW r \in Ranges, HasChildren(r)
  PROVE  \E n \in Nat \ {0} : r.stop - r.start = 8 * n
<1>1. PICK d \in 0 .. Bits - 1 : r.stop - r.start = 8 ^ (Bits - d)
  BY DEF HasChildren, CellAt
<1>2. Bits - d \in 0 .. Bits /\ Bits - d > 0 /\ Bits - d - 1 \in 0 .. Bits
  BY BitsAssumption
<1>3. 8 ^ (Bits - d) = 8 * 8 ^ (Bits - d - 1) /\ 8 ^ (Bits - d - 1) \in Nat \ {0}
  BY <1>2, PowersOfEight
<1> QED BY <1>1, <1>3

-----------------------------------------------------------------------------
(* The index of a record is an integer. *)
LEMMA RecordIndex ==
  ASSUME NEW rec \in EntityRecord
  PROVE  rec.idx \in Int
<1>1. rec.idx \in CurveIndex
  BY DEF EntityRecord
<1> QED BY <1>1 DEF CurveIndex

(* Removing an entity keeps a world sound and leaves no record of it. *)
LEMMA RemoveSound ==
  ASSUME NEW w, Sound(w), NEW c
  PROVE  /\ Sound(RemoveEntity(w, c))
         /\ DOMAIN RemoveEntity(w, c) = DOMAIN w
<1> DEFINE v == RemoveEntity(w, c)
<1>1. DOMAIN v = DOMAIN w /\ v = [r \in DOMAIN v |-> v[r]]
  BY DEF RemoveEntity
<1>2. \A r \in DOMAIN w : v[r] \subseteq w[r]
  BY DEF RemoveEntity, UnsubEntity
<1>3. Typed(v)
  BY <1>1, <1>2 DEF Sound, Typed
<1>4. Disjoint(v)
  BY <1>1 DEF Sound, Disjoint
<1>5. OneRecord(v)
  BY <1>1, <1>2 DEF Sound, OneRecord
<1>6. Filed(v)
  BY <1>1, <1>2 DEF Sound, Filed
<1> QED BY <1>1, <1>3, <1>4, <1>5, <1>6 DEF Sound

(* The authority of an index that has one is a live zone containing it. *)
LEMMA AuthorityExists ==
  ASSUME NEW w, NEW idx, Owned(w, idx)
  PROVE  /\ AuthorityForIndex(w, idx) \in DOMAIN w
         /\ Contains(AuthorityForIndex(w, idx), idx)
BY DEF Owned, AuthorityForIndex

(* A migration files the entity in one zone only, under an index the zone  *)
(* owns.                                                                   *)
LEMMA MoveSound ==
  ASSUME NEW w, Sound(w), NEW c \in Conn, NEW idx \in CurveIndex
  PROVE  /\ Sound(MoveEntityToIndex(w, c, idx))
         /\ DOMAIN MoveEntityToIndex(w, c, idx) = DOMAIN w
<1> DEFINE target == AuthorityForIndex(w, idx)
           v == MoveEntityToIndex(w, c, idx)
           rec == Record(c, idx)
<1>1. CASE ~ Owned(w, idx)
  BY <1>1, RemoveSound DEF MoveEntityToIndex
<1>2. CASE /\ Owned(w, idx)
           /\ ~ Holds(w[target], c) /\ Cardinality(w[target]) >= AuthorityCapacity
  BY <1>2 DEF MoveEntityToIndex
<1>3. CASE /\ Owned(w, idx)
           /\ ~ (~ Holds(w[target], c) /\ Cardinality(w[target]) >= AuthorityCapacity)
  <2>1. target \in DOMAIN w /\ Contains(target, idx)
    BY <1>3, AuthorityExists
  <2>2. v = [r \in DOMAIN w |-> IF r = target THEN SubEntity(w[r], rec)
                                ELSE UnsubEntity(w[r], c)]
    BY <1>3 DEF MoveEntityToIndex
  <2>3. DOMAIN v = DOMAIN w /\ v = [r \in DOMAIN v |-> v[r]]
    BY <2>2
  <2>4. rec \in EntityRecord /\ rec.conn = c /\ rec.idx = idx
    BY DEF Record, EntityRecord
  <2>5. \A r \in DOMAIN w : r # target =>
          v[r] \subseteq w[r] /\ \A a \in v[r] : a.conn # c
    BY <2>2 DEF UnsubEntity
  <2>6. \/ v[target] = w[target]
        \/ /\ v[target] = w[target] \cup {rec}
           /\ \A a \in w[target] : a.conn # c
    BY <2>1, <2>2, <2>4 DEF SubEntity, Holds
  <2>7. Typed(v)
    BY <2>1, <2>3, <2>4, <2>5, <2>6 DEF Sound, Typed
  <2>8. Disjoint(v)
    BY <2>3 DEF Sound, Disjoint
  <2>9. OneRecord(v)
    <3> SUFFICES ASSUME NEW r \in DOMAIN w, NEW s \in DOMAIN w,
                        NEW a \in v[r], NEW b \in v[s], a.conn = b.conn
                 PROVE  r = s /\ a = b
      BY <2>3 DEF OneRecord
    <3>1. CASE a.conn = c
      <4>1. r = target /\ s = target
        BY <3>1, <2>5
      <4> QED BY <4>1, <3>1, <2>4, <2>6, <2>1 DEF Sound, OneRecord
    <3>2. CASE a.conn # c
      <4>1. a \in w[r] /\ b \in w[s]
        BY <3>2, <2>4, <2>5, <2>6
      <4> QED BY <4>1 DEF Sound, OneRecord
    <3> QED BY <3>1, <3>2
  <2>10. Filed(v)
    BY <2>1, <2>3, <2>4, <2>5, <2>6 DEF Sound, Filed
  <2> QED BY <2>3, <2>7, <2>8, <2>9, <2>10 DEF Sound
<1> QED BY <1>1, <1>2, <1>3

(* A split, complete or cut short by a full slot map, keeps a world sound. *)
LEMMA SplitSound ==
  ASSUME NEW w, Sound(w), NEW r \in DOMAIN w, HasChildren(r)
  PROVE  Sound(Split(w, r))
<1> DEFINE rest  == DOMAIN w \ {r}
           slots == Capacity - Cardinality(rest)
           made  == {Child(r, i) : i \in {j \in Octant : j < slots}}
           v == Split(w, r)
<1>1. r \in Ranges
  BY DEF Sound, Typed
<1>2. PICK n \in Nat \ {0} : r.stop - r.start = 8 * n
  BY <1>1, SplitLength
<1>3. \A s \in made : \E i \in Octant : s = Child(r, i)
  OBVIOUS
<1>4. DOMAIN v = rest \cup made /\ v = [s \in DOMAIN v |-> v[s]]
  BY DEF Split
<1>5. /\ \A s \in rest : v[s] = w[s]
      /\ \A s \in made \ rest : v[s] \subseteq InRange(w[r], s)
  BY DEF Split
<1>6. \A s \in made : /\ s \in Ranges
                      /\ r.start <= s.start
                      /\ s.stop <= r.stop
  BY <1>1, <1>2, <1>3, ChildBounds
<1>7. \A s \in made \ rest : \A a \in v[s] : a \in w[r] /\ Contains(s, a.idx)
  BY <1>5 DEF InRange
<1>8. Typed(v)
  BY <1>4, <1>5, <1>6, <1>7 DEF Sound, Typed
<1>9. \A s \in made, t \in rest : ~ Overlaps(s, t) /\ ~ Overlaps(t, s)
  <2> SUFFICES ASSUME NEW s \in made, NEW t \in rest
               PROVE  ~ Overlaps(s, t) /\ ~ Overlaps(t, s)
    OBVIOUS
  <2>1. ~ Overlaps(r, t) /\ t \in Ranges
    BY DEF Sound, Disjoint, Typed
  <2> QED BY <2>1, <1>1, <1>6 DEF Overlaps, Ranges
<1>10. \A s, t \in made : s # t => ~ Overlaps(s, t)
  <2> SUFFICES ASSUME NEW s \in made, NEW t \in made, s # t
               PROVE  ~ Overlaps(s, t)
    OBVIOUS
  <2>1. PICK i \in Octant, j \in Octant : s = Child(r, i) /\ t = Child(r, j)
    BY <1>3
  <2>2. i < j \/ j < i
    BY <2>1 DEF Octant
  <2> QED BY <2>1, <2>2, <1>1, <1>2, ChildrenDisjoint
<1>11. Disjoint(v)
  BY <1>4, <1>9, <1>10 DEF Sound, Disjoint
<1>12. OneRecord(v)
  <2> SUFFICES ASSUME NEW s \in DOMAIN v, NEW t \in DOMAIN v,
                      NEW a \in v[s], NEW b \in v[t], a.conn = b.conn
               PROVE  s = t /\ a = b
    BY DEF OneRecord
  <2>1. CASE s \in rest /\ t \in rest
    BY <2>1, <1>5 DEF Sound, OneRecord
  <2>2. CASE s \in rest /\ t \notin rest
    BY <2>2, <1>4, <1>5, <1>7 DEF Sound, OneRecord
  <2>3. CASE s \notin rest /\ t \in rest
    BY <2>3, <1>4, <1>5, <1>7 DEF Sound, OneRecord
  <2>4. CASE s \notin rest /\ t \notin rest
    <3>1. /\ s \in made /\ t \in made /\ a \in w[r] /\ b \in w[r]
          /\ Contains(s, a.idx) /\ Contains(t, b.idx)
      BY <2>4, <1>4, <1>7
    <3>2. a = b
      BY <3>1 DEF Sound, OneRecord
    <3>3. a.idx \in Int /\ s \in Ranges /\ t \in Ranges
      BY <3>1, <1>6, RecordIndex DEF Sound, Typed
    <3>4. Overlaps(s, t)
      BY <3>1, <3>2, <3>3 DEF Contains, Overlaps, Ranges
    <3> QED BY <3>1, <3>2, <3>4, <1>10
  <2> QED BY <2>1, <2>2, <2>3, <2>4
<1>13. Filed(v)
  BY <1>4, <1>5, <1>7 DEF Sound, Filed
<1> QED BY <1>8, <1>11, <1>12, <1>13 DEF Sound

(* The parent of a cell is eight times as long as the cell. *)
LEMMA ParentLength ==
  ASSUME NEW r \in Ranges
  PROVE  /\ ParentRange(r) \in Ranges
         /\ \E n \in Nat \ {0} : ParentRange(r).stop - ParentRange(r).start = 8 * n
<1> DEFINE len == 8 * (r.stop - r.start)
           start == r.start - (r.start % len)
<1>1. r.start \in Nat /\ r.stop \in Nat /\ r.start < r.stop
  BY DEF Ranges
<1>2. len \in Nat \ {0}
  BY <1>1
<1>3. r.start % len \in Nat /\ r.start % len <= r.start
  <2> HIDE DEF len
  <2>1. r.start % len \in 0 .. len - 1
    BY <1>1, <1>2
  <2>2. r.start = len * (r.start \div len) + (r.start % len)
    BY <1>1, <1>2
  <2>3. r.start \div len \in Nat
    BY <1>1, <1>2
  <2>4. len * (r.start \div len) \in Nat
    BY <1>2, <2>3
  <2> QED BY <1>1, <2>1, <2>2, <2>4
<1>4. start \in Nat
  BY <1>1, <1>3
<1>5. ParentRange(r) = [start |-> start, stop |-> start + len]
  BY DEF ParentRange, ZoneRange
<1>6. r.stop - r.start \in Nat \ {0}
  BY <1>1
<1>7. ParentRange(r) \in Ranges
  <2> HIDE DEF len, start
  <2> QED BY <1>2, <1>4, <1>5 DEF Ranges
<1>8. ParentRange(r).stop - ParentRange(r).start = 8 * (r.stop - r.start)
  <2>1. ParentRange(r).stop - ParentRange(r).start = len
    <3> HIDE DEF len, start
    <3> QED BY <1>2, <1>4, <1>5
  <2> QED BY <2>1
<1> QED BY <1>6, <1>7, <1>8

(* Merging eight live siblings keeps a world sound. *)
LEMMA MergeSound ==
  ASSUME NEW w, Sound(w), NEW p \in Ranges, SiblingsLive(w, p),
         NEW n \in Nat \ {0}, p.stop - p.start = 8 * n
  PROVE  Sound(Merge(w, p))
<1> DEFINE v == Merge(w, p)
           rest == DOMAIN w \ Children(p)
           all == SiblingEntities(w, p)
<1>1. Children(p) \subseteq DOMAIN w
  BY AuthorityExists DEF SiblingsLive, Children
<1>2. \A s \in Children(p) : s \in Ranges /\ p.start <= s.start /\ s.stop <= p.stop
  BY ChildBounds DEF Children
<1>3. \A a \in all : \E s \in Children(p) : a \in w[s]
  BY DEF SiblingEntities
<1>4. DOMAIN v = rest \cup {p} /\ v = [r \in DOMAIN v |-> v[r]]
  BY DEF Merge
<1>5. v[p] = all /\ \A r \in rest : r # p => v[r] = w[r]
  BY DEF Merge
<1>6. all \subseteq EntityRecord
  BY <1>1, <1>3 DEF Sound, Typed
<1>7. Typed(v)
  BY <1>4, <1>5, <1>6 DEF Sound, Typed
<1>8. \A t \in rest : ~ Overlaps(t, p) /\ ~ Overlaps(p, t)
  <2> SUFFICES ASSUME NEW t \in rest
               PROVE  ~ Overlaps(t, p)
    BY DEF Overlaps
  <2> SUFFICES ASSUME Overlaps(t, p) PROVE FALSE
    OBVIOUS
  <2>1. t \in Ranges
    BY DEF Sound, Typed
  <2>2. PICK i \in Octant : Overlaps(t, Child(p, i))
    BY <2>1, ChildrenCover
  <2>3. Child(p, i) \in Children(p)
    BY DEF Children
  <2> QED BY <2>2, <2>3, <1>1 DEF Sound, Disjoint
<1>9. p \notin rest
  <2>1. Overlaps(p, p)
    BY DEF Overlaps, Ranges
  <2> QED BY <2>1, <1>8
<1>10. Disjoint(v)
  BY <1>4, <1>8 DEF Sound, Disjoint
<1>11. OneRecord(v)
  <2> SUFFICES ASSUME NEW s \in DOMAIN v, NEW t \in DOMAIN v,
                      NEW a \in v[s], NEW b \in v[t], a.conn = b.conn
               PROVE  s = t /\ a = b
    BY DEF OneRecord
  <2>1. PICK x \in DOMAIN w : a \in w[x] /\ IF s = p THEN x \in Children(p) ELSE x = s
    BY <1>1, <1>3, <1>4, <1>5
  <2>2. PICK y \in DOMAIN w : b \in w[y] /\ IF t = p THEN y \in Children(p) ELSE y = t
    BY <1>1, <1>3, <1>4, <1>5
  <2>3. x = y /\ a = b
    BY <2>1, <2>2 DEF Sound, OneRecord
  <2>4. s # p => s \notin Children(p)
    BY <1>4
  <2>5. t # p => t \notin Children(p)
    BY <1>4
  <2> QED BY <2>1, <2>2, <2>3, <2>4, <2>5
<1>12. Filed(v)
  <2>1. ASSUME NEW a \in all PROVE Contains(p, a.idx)
    <3>1. PICK s \in Children(p) : a \in w[s]
      BY <1>3
    <3>2. Contains(s, a.idx) /\ s \in Ranges /\ p.start <= s.start /\ s.stop <= p.stop
      BY <3>1, <1>1, <1>2 DEF Sound, Filed
    <3>3. a.idx \in Int
      BY <1>6, RecordIndex
    <3> QED BY <3>2, <3>3 DEF Contains, Ranges
  <2> QED BY <2>1, <1>4, <1>5, <1>9 DEF Sound, Filed
<1> QED BY <1>7, <1>10, <1>11, <1>12 DEF Sound

-----------------------------------------------------------------------------
(* A zone has at most one record of each connection, so its entities are   *)
(* finitely many.                                                          *)
LEMMA RecordsFinite ==
  ASSUME NEW w, Typed(w), OneRecord(w), NEW r \in DOMAIN w
  PROVE  IsFiniteSet(w[r]) /\ Cardinality(w[r]) \in Nat
<1> DEFINE f == [rec \in w[r] |-> rec.conn]
<1>1. f \in Injection(w[r], Conn)
  <2>1. f \in [w[r] -> Conn]
    BY DEF Typed, EntityRecord
  <2>2. \A a, b \in w[r] : f[a] = f[b] => a = b
    BY DEF OneRecord
  <2> QED BY <2>1, <2>2 DEF Injection, IsInjective
<1>2. IsFiniteSet(w[r])
  BY <1>1, ConnAssumption, FS_Injection
<1> QED BY <1>2, FS_CardinalityType

(* Fewer records are no more than before. *)
LEMMA FewerRecords ==
  ASSUME NEW S, IsFiniteSet(S), Cardinality(S) <= AuthorityCapacity, NEW T \in SUBSET S
  PROVE  Cardinality(T) <= AuthorityCapacity
<1>1. Cardinality(T) <= Cardinality(S) /\ IsFiniteSet(T)
  BY FS_Subset
<1>2. Cardinality(T) \in Nat /\ Cardinality(S) \in Nat
  BY <1>1, FS_CardinalityType
<1> QED BY <1>1, <1>2, AuthorityCapacityAssumption

(* Removing an entity. *)
LEMMA RemoveFits ==
  ASSUME NEW w, Sound(w), Fits(w), NEW c
  PROVE  Fits(RemoveEntity(w, c))
<1> DEFINE v == RemoveEntity(w, c)
<1>1. DOMAIN v = DOMAIN w
  BY DEF RemoveEntity
<1>2. \A r \in DOMAIN w : v[r] \in SUBSET w[r]
  BY DEF RemoveEntity, UnsubEntity
<1>3. \A r \in DOMAIN w : IsFiniteSet(w[r])
  BY RecordsFinite DEF Sound
<1>4. ASSUME NEW r \in DOMAIN w PROVE Cardinality(v[r]) <= AuthorityCapacity
  BY <1>2, <1>3, FewerRecords DEF Fits
<1> QED BY <1>1, <1>4 DEF Fits

(* Zone.sub looks at the capacity before it adds a record. *)
LEMMA SubEntityFits ==
  ASSUME NEW S, IsFiniteSet(S), Cardinality(S) <= AuthorityCapacity, NEW rec
  PROVE  Cardinality(SubEntity(S, rec)) <= AuthorityCapacity
<1>1. Cardinality(S) \in Nat
  BY FS_CardinalityType
<1>2. CASE SubEntity(S, rec) = S
  BY <1>2
<1>3. CASE SubEntity(S, rec) # S
  <2>1. SubEntity(S, rec) = S \cup {rec} /\ ~ (Cardinality(S) >= AuthorityCapacity)
    BY <1>3 DEF SubEntity
  <2>2. Cardinality(S) + 1 <= AuthorityCapacity
    BY <1>1, <2>1, AuthorityCapacityAssumption
  <2>3. Cardinality(S \cup {rec}) = IF rec \in S THEN Cardinality(S) ELSE Cardinality(S) + 1
    BY FS_AddElement
  <2> QED BY <1>1, <2>1, <2>2, <2>3
<1> QED BY <1>2, <1>3

(* A migration. *)
LEMMA MoveFits ==
  ASSUME NEW w, Sound(w), Fits(w), NEW c, NEW idx
  PROVE  Fits(MoveEntityToIndex(w, c, idx))
<1> DEFINE target == AuthorityForIndex(w, idx)
           v == MoveEntityToIndex(w, c, idx)
           rec == Record(c, idx)
<1>1. CASE ~ Owned(w, idx)
  BY <1>1, RemoveFits DEF MoveEntityToIndex
<1>2. CASE /\ Owned(w, idx)
           /\ ~ Holds(w[target], c) /\ Cardinality(w[target]) >= AuthorityCapacity
  BY <1>2 DEF MoveEntityToIndex
<1>3. CASE /\ Owned(w, idx)
           /\ ~ (~ Holds(w[target], c) /\ Cardinality(w[target]) >= AuthorityCapacity)
  <2>1. v = [r \in DOMAIN w |-> IF r = target THEN SubEntity(w[r], rec)
                                ELSE UnsubEntity(w[r], c)]
    BY <1>3 DEF MoveEntityToIndex
  <2>2. ASSUME NEW r \in DOMAIN w PROVE Cardinality(v[r]) <= AuthorityCapacity
    <3>1. IsFiniteSet(w[r]) /\ Cardinality(w[r]) <= AuthorityCapacity
      BY RecordsFinite DEF Sound, Fits
    <3>2. v[r] = SubEntity(w[r], rec) \/ v[r] \in SUBSET w[r]
      BY <2>1 DEF UnsubEntity
    <3> QED BY <3>1, <3>2, SubEntityFits, FewerRecords
  <2>3. DOMAIN v = DOMAIN w
    BY <2>1
  <2> QED BY <2>2, <2>3 DEF Fits
<1> QED BY <1>1, <1>2, <1>3

(* What a split makes of the slots that are left. *)
LEMMA SplitSlots ==
  ASSUME NEW w, Fits(w), NEW r \in DOMAIN w
  PROVE  LET slots == Capacity - Cardinality(DOMAIN w \ {r})
         IN  /\ IsFiniteSet(DOMAIN w \ {r}) /\ Cardinality(DOMAIN w \ {r}) \in Nat
             /\ Cardinality(DOMAIN w \ {r}) = Cardinality(DOMAIN w) - 1
             /\ slots \in Nat \ {0}
<1>1. /\ IsFiniteSet(DOMAIN w \ {r})
      /\ Cardinality(DOMAIN w \ {r}) = Cardinality(DOMAIN w) - 1
  BY FS_RemoveElement DEF Fits
<1>2. Cardinality(DOMAIN w) \in Nat /\ Cardinality(DOMAIN w \ {r}) \in Nat
  BY <1>1, FS_CardinalityType DEF Fits
<1> QED BY <1>1, <1>2, CapacityAssumption DEF Fits

(* A split never takes more slots than there are. *)
LEMMA SplitFits ==
  ASSUME NEW w, Sound(w), Fits(w), NEW r \in DOMAIN w
  PROVE  Fits(Split(w, r))
<1> DEFINE rest  == DOMAIN w \ {r}
           slots == Capacity - Cardinality(rest)
           J == {j \in Octant : j < slots}
           made  == {Child(r, i) : i \in J}
           f == [j \in J |-> Child(r, j)]
           v == Split(w, r)
<1>1. IsFiniteSet(rest) /\ Cardinality(rest) \in Nat /\ slots \in Nat \ {0}
  BY SplitSlots
<1>2. IsFiniteSet(J) /\ Cardinality(J) \in Nat /\ Cardinality(J) <= slots
  <2>1. IsFiniteSet(0 .. slots - 1) /\ Cardinality(0 .. slots - 1) = slots
    <3> HIDE DEF slots
    <3>1. slots - 1 \in Int /\ ~ (0 > slots - 1) /\ (slots - 1) - 0 + 1 = slots
      BY <1>1
    <3> QED BY <3>1, FS_Interval
  <2>2. J \in SUBSET (0 .. slots - 1)
    <3> HIDE DEF slots
    <3> QED BY <1>1 DEF Octant
  <2> HIDE DEF J, slots
  <2>3. IsFiniteSet(J) /\ Cardinality(J) <= Cardinality(0 .. slots - 1)
    BY <2>1, <2>2, FS_Subset
  <2> QED BY <2>1, <2>3, FS_CardinalityType
<1>3. IsFiniteSet(made) /\ Cardinality(made) \in Nat /\ Cardinality(made) <= Cardinality(J)
  <2>1. f \in Surjection(J, made)
    BY DEF Surjection
  <2> HIDE DEF f, J, made
  <2>2. IsFiniteSet(made) /\ Cardinality(made) <= Cardinality(J)
    BY <1>2, <2>1, FS_Surjection
  <2> QED BY <2>2, FS_CardinalityType
<1>4. IsFiniteSet(rest \cup made) /\ Cardinality(rest \cup made) <= Capacity
  <2> HIDE DEF rest, J, made
  <2>1. /\ IsFiniteSet(rest \cup made)
        /\ Cardinality(rest \cup made) =
             Cardinality(rest) + Cardinality(made) - Cardinality(rest \cap made)
    BY <1>1, <1>3, FS_Union
  <2>2. Cardinality(rest \cap made) \in Nat
    BY <1>1, FS_Intersection, FS_CardinalityType
  <2> QED BY <1>1, <1>2, <1>3, <2>1, <2>2, CapacityAssumption
<1>5. DOMAIN v = rest \cup made
  BY DEF Split
<1>6. ASSUME NEW s \in DOMAIN v PROVE Cardinality(v[s]) <= AuthorityCapacity
  <2>1. CASE s \in rest
    <3>1. v[s] = w[s]
      BY <2>1 DEF Split
    <3> QED BY <2>1, <3>1 DEF Fits
  <2>2. CASE s \notin rest
    <3>1. v[s] \in SUBSET w[r]
      BY <1>5, <2>2 DEF Split, InRange
    <3>2. IsFiniteSet(w[r])
      BY RecordsFinite DEF Sound
    <3> QED BY <3>1, <3>2, FewerRecords DEF Fits
  <2> QED BY <2>1, <2>2
<1> QED BY <1>4, <1>5, <1>6 DEF Fits

(* A merge frees eight slots for one, and is made only if the siblings'    *)
(* entities fit in one zone.                                               *)
LEMMA MergeFits ==
  ASSUME NEW w, Sound(w), Fits(w), NEW p, ShouldMerge(w, p)
  PROVE  Fits(Merge(w, p))
<1> DEFINE v == Merge(w, p)
           rest == DOMAIN w \ Children(p)
<1>1. Child(p, 0) \in DOMAIN w /\ Child(p, 0) \in Children(p)
  <2>1. 0 \in Octant
    BY DEF Octant
  <2> QED BY <2>1, AuthorityExists DEF ShouldMerge, SiblingsLive, Children
<1>2. IsFiniteSet(DOMAIN w) /\ Cardinality(DOMAIN w) \in Nat /\ Cardinality(DOMAIN w) <= Capacity
  BY FS_CardinalityType DEF Fits
<1>3. /\ IsFiniteSet(DOMAIN w \ {Child(p, 0)})
      /\ Cardinality(DOMAIN w \ {Child(p, 0)}) = Cardinality(DOMAIN w) - 1
  BY <1>1, <1>2, FS_RemoveElement
<1>4. IsFiniteSet(rest) /\ Cardinality(rest) <= Cardinality(DOMAIN w) - 1
  <2>1. rest \in SUBSET (DOMAIN w \ {Child(p, 0)})
    BY <1>1
  <2> HIDE DEF rest
  <2> QED BY <1>3, <2>1, FS_Subset
<1>5. Cardinality(rest) \in Nat
  BY <1>4, FS_CardinalityType
<1>6. IsFiniteSet(rest \cup {p}) /\ Cardinality(rest \cup {p}) <= Capacity
  <2> HIDE DEF rest
  <2>1. /\ IsFiniteSet(rest \cup {p})
        /\ Cardinality(rest \cup {p}) = IF p \in rest THEN Cardinality(rest) ELSE Cardinality(rest) + 1
    BY <1>4, FS_AddElement
  <2> QED BY <1>2, <1>4, <1>5, <2>1, CapacityAssumption
<1>7. /\ DOMAIN v = rest \cup {p} /\ v[p] = SiblingEntities(w, p)
      /\ \A r \in rest : r # p => v[r] = w[r]
  BY DEF Merge
<1>8. Cardinality(SiblingEntities(w, p)) <= AuthorityCapacity
  BY DEF ShouldMerge
<1> QED BY <1>6, <1>7, <1>8 DEF Fits

-----------------------------------------------------------------------------
(* The inductive invariant: the world is sound and within its ceilings. *)
IInv == Sound(zones) /\ Fits(zones) /\ reported \in [Conn -> {Nowhere} \cup CurveIndex]

(* The bootstrap world is sound. *)
LEMMA InitIInv == Init => IInv
<1> SUFFICES ASSUME Init PROVE IInv
  OBVIOUS
<1>1. Root \in Ranges
  <2>1. 8 ^ Bits \in Nat \ {0}
    BY BitsAssumption, PowersOfEight
  <2> QED BY <2>1 DEF Root, ZoneRange, Ranges
<1>2. DOMAIN zones = {Root} /\ zones[Root] = {} /\ zones = [r \in {Root} |-> {}]
  BY DEF Init
<1>3. Typed(zones)
  BY <1>1, <1>2 DEF Typed
<1>4. Disjoint(zones) /\ OneRecord(zones) /\ Filed(zones)
  BY <1>2 DEF Disjoint, OneRecord, Filed
<1>5. Fits(zones)
  BY <1>2, FS_Singleton, FS_EmptySet, CapacityAssumption, AuthorityCapacityAssumption DEF Fits
<1> QED BY <1>3, <1>4, <1>5 DEF IInv, Sound, Init

(* fanout_entity_move: migrate, then perhaps split. *)
LEMMA EntityMoveIInv ==
  ASSUME NEW c \in Conn, NEW idx \in Positions, IInv, EntityMove(c, idx)
  PROVE  IInv'
<1> DEFINE moved == MoveEntityToIndex(zones, c, idx)
<1>1. idx \in CurveIndex
  BY PositionsAssumption
<1>2. Sound(moved) /\ Fits(moved)
  BY <1>1, MoveSound, MoveFits DEF IInv
<1>3. Sound(RebalanceAfterMove(moved, idx)) /\ Fits(RebalanceAfterMove(moved, idx))
  <2> HIDE DEF moved
  <2>1. CASE Owned(moved, idx)
    <3>1. AuthorityForIndex(moved, idx) \in DOMAIN moved
      BY <2>1, AuthorityExists
    <3>2. /\ Sound(MaybeSplitZone(moved, AuthorityForIndex(moved, idx)))
          /\ Fits(MaybeSplitZone(moved, AuthorityForIndex(moved, idx)))
      BY <3>1, <1>2, SplitSound, SplitFits DEF MaybeSplitZone
    <3> QED BY <2>1, <3>2 DEF RebalanceAfterMove
  <2>2. CASE ~ Owned(moved, idx)
    BY <2>2, <1>2 DEF RebalanceAfterMove
  <2> QED BY <2>1, <2>2
<1>4. Sound(zones') /\ Fits(zones')
  BY <1>3 DEF EntityMove
<1> QED BY <1>1, <1>4 DEF IInv, EntityMove

(* fanout_entity_remove: remove, then perhaps merge. *)
LEMMA EntityRemoveIInv ==
  ASSUME NEW c \in Conn, IInv, EntityRemove(c)
  PROVE  IInv'
<1> DEFINE w == RemoveEntity(zones, c)
           r == CHOOSE x \in HomeOf(zones, c) : TRUE
<1>1. Sound(w) /\ Fits(w) /\ DOMAIN w = DOMAIN zones
  BY RemoveSound, RemoveFits DEF IInv
<1>2. CASE HomeOf(zones, c) = {}
  BY <1>1, <1>2 DEF EntityRemove, IInv
<1>3. CASE HomeOf(zones, c) # {}
  <2>1. r \in DOMAIN w
    BY <1>1, <1>3 DEF HomeOf
  <2>2. r \in Ranges
    BY <2>1, <1>1 DEF Sound, Typed
  <2>3. zones' = MaybeMergeSiblings(w, r)
    BY <1>3 DEF EntityRemove
  <2> HIDE DEF w, r
  <2>4. Sound(MaybeMergeSiblings(w, r)) /\ Fits(MaybeMergeSiblings(w, r))
    <3>1. CASE HasParent(r) /\ ShouldMerge(w, ParentRange(r))
      <4>1. Sound(Merge(w, ParentRange(r))) /\ Fits(Merge(w, ParentRange(r)))
        BY <3>1, <2>2, <1>1, ParentLength, MergeSound, MergeFits DEF ShouldMerge
      <4> QED BY <3>1, <4>1 DEF MaybeMergeSiblings
    <3>2. CASE ~ (HasParent(r) /\ ShouldMerge(w, ParentRange(r)))
      BY <3>2, <1>1 DEF MaybeMergeSiblings
    <3> QED BY <3>1, <3>2
  <2> QED BY <2>3, <2>4 DEF IInv, EntityRemove
<1> QED BY <1>2, <1>3

(* fanout_zone_alloc and fanout_zone_free of the host. *)
LEMMA HostIInv ==
  ASSUME NEW r \in HostRanges, IInv, ZoneAlloc(r) \/ ZoneFree(r)
  PROVE  IInv'
<1>1. r \in Ranges
  BY HostRangesAssumption
<1>2. CASE ZoneAlloc(r)
  <2>1. /\ DOMAIN zones' = DOMAIN zones \cup {r}
        /\ zones' = [s \in DOMAIN zones' |-> zones'[s]]
        /\ zones'[r] = {}
        /\ \A s \in DOMAIN zones : s # r => zones'[s] = zones[s]
        /\ \A s \in DOMAIN zones : ~ Overlaps(r, s)
    BY <1>2 DEF ZoneAlloc
  <2>2. \A s \in DOMAIN zones : ~ Overlaps(s, r)
    BY <2>1 DEF Overlaps
  <2>3. Typed(zones')
    BY <1>1, <2>1 DEF IInv, Sound, Typed
  <2>4. Disjoint(zones')
    BY <2>1, <2>2 DEF IInv, Sound, Disjoint
  <2>5. OneRecord(zones') /\ Filed(zones')
    BY <2>1 DEF IInv, Sound, OneRecord, Filed
  <2>6. Fits(zones')
    <3>1. IsFiniteSet(DOMAIN zones) /\ Cardinality(DOMAIN zones) \in Nat
      BY FS_CardinalityType DEF IInv, Fits
    <3>2. Cardinality(DOMAIN zones) + 1 <= Capacity
      BY <1>2, <3>1, CapacityAssumption DEF ZoneAlloc
    <3>3. /\ IsFiniteSet(DOMAIN zones \cup {r})
          /\ Cardinality(DOMAIN zones \cup {r}) =
               IF r \in DOMAIN zones THEN Cardinality(DOMAIN zones) ELSE Cardinality(DOMAIN zones) + 1
      BY <3>1, FS_AddElement
    <3>4. IsFiniteSet(DOMAIN zones') /\ Cardinality(DOMAIN zones') <= Capacity
      BY <2>1, <3>1, <3>2, <3>3, CapacityAssumption
    <3>5. \A s \in DOMAIN zones' : zones'[s] = {} \/ (s \in DOMAIN zones /\ zones'[s] = zones[s])
      BY <2>1
    <3> QED BY <3>4, <3>5, FS_EmptySet, AuthorityCapacityAssumption DEF IInv, Fits
  <2> QED BY <1>2, <2>3, <2>4, <2>5, <2>6 DEF IInv, Sound, ZoneAlloc
<1>3. CASE ZoneFree(r)
  <2>1. /\ DOMAIN zones' \subseteq DOMAIN zones
        /\ zones' = [s \in DOMAIN zones' |-> zones'[s]]
        /\ \A s \in DOMAIN zones' : zones'[s] = zones[s]
    BY <1>3 DEF ZoneFree
  <2>2. Typed(zones') /\ Disjoint(zones') /\ OneRecord(zones') /\ Filed(zones')
    BY <2>1 DEF IInv, Sound, Typed, Disjoint, OneRecord, Filed
  <2>3. Fits(zones')
    <3>1. DOMAIN zones' \in SUBSET DOMAIN zones /\ IsFiniteSet(DOMAIN zones)
      BY <2>1 DEF IInv, Fits
    <3>2. IsFiniteSet(DOMAIN zones') /\ Cardinality(DOMAIN zones') <= Cardinality(DOMAIN zones)
      BY <3>1, FS_Subset
    <3>3. Cardinality(DOMAIN zones') <= Capacity
      BY <3>1, <3>2, FS_CardinalityType, CapacityAssumption DEF IInv, Fits
    <3> QED BY <2>1, <3>2, <3>3 DEF IInv, Fits
  <2> QED BY <1>3, <2>2, <2>3 DEF IInv, Sound, ZoneFree
<1> QED BY <1>2, <1>3

(* Every step keeps the invariant. *)
LEMMA NextIInv == IInv /\ [Next]_vars => IInv'
<1> SUFFICES ASSUME IInv, [Next]_vars PROVE IInv'
  OBVIOUS
<1>1. CASE UNCHANGED vars
  BY <1>1 DEF IInv, vars
<1>2. CASE Next
  BY <1>2, EntityMoveIInv, EntityRemoveIInv, HostIInv DEF Next
<1> QED BY <1>1, <1>2

(* The world stays sound and within its ceilings. *)
THEOREM WorldSound == Spec => []IInv
BY InitIInv, NextIInv, PTL DEF Spec

(* Type correctness of the zone world. *)
THEOREM WorldTypeOK == Spec => []TypeOK
<1>1. IInv => TypeOK
  BY DEF IInv, Sound, Typed, TypeOK
<1> QED BY <1>1, WorldSound, PTL

(* No index ever has two authorities, through complete and failed splits,  *)
(* merges and host allocations.                                            *)
THEOREM AuthorityUnique == Spec => []RangesDisjoint
<1>1. IInv => RangesDisjoint
  BY DEF IInv, Sound, Disjoint, RangesDisjoint
<1> QED BY <1>1, WorldSound, PTL

(* An entity is simulated by one zone at a time, the fact targetsForIndex  *)
(* relies on to skip its duplicate check.                                  *)
THEOREM EntityUnique == Spec => []OneRecordPerEntity
<1>1. IInv => OneRecordPerEntity
  BY DEF IInv, Sound, OneRecord, OneRecordPerEntity
<1> QED BY <1>1, WorldSound, PTL

(* Every record lies in the zone that owns its index, so no complete split *)
(* can drop one.                                                           *)
THEOREM RecordsFiled == Spec => []RecordsInRange
<1>1. IInv => RecordsInRange
  BY DEF IInv, Sound, Filed, RecordsInRange
<1> QED BY <1>1, WorldSound, PTL

(* Neither the slot map nor a zone ever holds more than it may: a split    *)
(* stops when the slots run out, and a merge that would overfill its zone  *)
(* is not made.                                                            *)
THEOREM CeilingsKept == Spec => []CeilingsHold
<1>1. IInv => CeilingsHold
  BY DEF IInv, Fits, CeilingsHold
<1> QED BY <1>1, WorldSound, PTL
-----------------------------------------------------------------------------
(***************************************************************************)
(* Nobody is lost and no index loses its authority, as long as a split     *)
(* finds its eight slots: without them the code drops the zone's entities  *)
(* and leaves a hole.                                                      *)
(***************************************************************************)

(* Seven free slots are enough, the split zone's own being the eighth. *)
LEMMA SevenSlotsSuffice ==
  ASSUME IInv, Cardinality(DOMAIN zones) + 7 <= Capacity
  PROVE  SplitsFit
<1>1. \A c \in Conn : \A idx \in Positions :
        DOMAIN MoveEntityToIndex(zones, c, idx) = DOMAIN zones
  BY MoveSound, PositionsAssumption DEF IInv
<1> QED BY <1>1 DEF SplitsFit

(* Every record of w is in v, in the zone it was in or in a part or the    *)
(* whole of it; every index w owns, v owns.                                *)
Keeps(w, v) ==
  \A r \in DOMAIN w : \A rec \in w[r] :
    \E s \in DOMAIN v : Overlaps(r, s) /\ rec \in v[s]
Covers(w, v) == \A idx \in CurveIndex : Owned(w, idx) => Owned(v, idx)

(* A world keeps itself. *)
LEMMA KeepsItself ==
  ASSUME NEW w, Sound(w)
  PROVE  Keeps(w, w) /\ Covers(w, w)
<1>1. \A r \in DOMAIN w : Overlaps(r, r)
  BY DEF Sound, Typed, Ranges, Overlaps
<1> QED BY <1>1 DEF Keeps, Covers

(* An index of a range is an index of one of its children. *)
LEMMA ChildrenContain ==
  ASSUME NEW r \in Ranges, NEW n \in Nat \ {0}, r.stop - r.start = 8 * n,
         NEW idx \in Int, Contains(r, idx)
  PROVE  \E i \in Octant : Contains(Child(r, i), idx)
<1> DEFINE t == [start |-> idx, stop |-> idx + 1]
<1>1. idx \in Nat
  BY DEF Contains, Ranges
<1>2. t \in Ranges /\ t.start = idx /\ t.stop = idx + 1
  BY <1>1 DEF Ranges
<1>3. Overlaps(t, r)
  BY <1>1, <1>2 DEF Contains, Overlaps, Ranges
<1>4. PICK i \in Octant : Overlaps(t, Child(r, i))
  BY <1>2, <1>3, ChildrenCover
<1>5. Child(r, i) \in Ranges
  BY ChildBounds
<1>6. Contains(Child(r, i), idx)
  BY <1>1, <1>2, <1>4, <1>5 DEF Overlaps, Contains, Ranges
<1> QED BY <1>6

(* A child lies in its parent's range. *)
LEMMA ChildOverlaps ==
  ASSUME NEW r \in Ranges, NEW n \in Nat \ {0}, r.stop - r.start = 8 * n,
         NEW i \in Octant
  PROVE  Overlaps(r, Child(r, i)) /\ Overlaps(Child(r, i), r)
BY ChildBounds DEF Overlaps, Ranges

(* A split with its eight slots makes all eight children and files every   *)
(* record in the one that owns its index.                                  *)
LEMMA SplitKeeps ==
  ASSUME NEW w, Sound(w), Fits(w), NEW r \in DOMAIN w, HasChildren(r),
         Cardinality(DOMAIN w) + 7 <= Capacity
  PROVE  Keeps(w, Split(w, r)) /\ Covers(w, Split(w, r))
<1> DEFINE rest == DOMAIN w \ {r}
           slots == Capacity - Cardinality(rest)
           v == Split(w, r)
<1>1. r \in Ranges
  BY DEF Sound, Typed
<1>2. PICK n \in Nat \ {0} : r.stop - r.start = 8 * n
  BY <1>1, SplitLength
<1>3. slots \in Nat /\ slots >= 8
  <2>1. /\ Cardinality(rest) = Cardinality(DOMAIN w) - 1 /\ slots \in Nat \ {0}
        /\ Cardinality(DOMAIN w) \in Nat
    BY SplitSlots, FS_CardinalityType DEF Fits
  <2> QED BY <2>1, CapacityAssumption
<1>4. {j \in Octant : j < slots} = Octant
  <2> HIDE DEF slots
  <2> QED BY <1>3 DEF Octant
<1>5. v = [s \in rest \cup Children(r) |-> IF s \in rest THEN w[s] ELSE InRange(w[r], s)]
  BY <1>3, <1>4 DEF Split, Children
<1>6. ASSUME NEW i \in Octant PROVE Child(r, i) \notin rest
  <2>1. Overlaps(r, Child(r, i))
    BY <1>1, <1>2, ChildOverlaps
  <2> QED BY <2>1 DEF Sound, Disjoint
<1> HIDE DEF v
<1>7. ASSUME NEW s \in DOMAIN w, NEW rec \in w[s]
      PROVE  \E t \in DOMAIN v : Overlaps(s, t) /\ rec \in v[t]
  <2>1. CASE s # r
    <3>1. Overlaps(s, s)
      BY DEF Sound, Typed, Ranges, Overlaps
    <3> QED BY <1>5, <2>1, <3>1
  <2>2. CASE s = r
    <3>1. Contains(r, rec.idx) /\ rec.idx \in Int
      BY <2>2, RecordIndex DEF Sound, Filed, Typed
    <3>2. PICK i \in Octant : Contains(Child(r, i), rec.idx)
      BY <1>1, <1>2, <3>1, ChildrenContain
    <3>3. Child(r, i) \in DOMAIN v /\ v[Child(r, i)] = InRange(w[r], Child(r, i))
      BY <1>5, <1>6 DEF Children
    <3>4. rec \in v[Child(r, i)]
      BY <2>2, <3>2, <3>3 DEF InRange
    <3> QED BY <1>1, <1>2, <2>2, <3>3, <3>4, ChildOverlaps
  <2> QED BY <2>1, <2>2
<1>8. ASSUME NEW idx \in CurveIndex, Owned(w, idx) PROVE Owned(v, idx)
  <2>1. PICK s \in DOMAIN w : Contains(s, idx)
    BY <1>8 DEF Owned
  <2>2. CASE s # r
    BY <1>5, <2>1, <2>2 DEF Owned
  <2>3. CASE s = r
    <3>1. idx \in Int
      BY DEF CurveIndex
    <3>2. PICK i \in Octant : Contains(Child(r, i), idx)
      BY <1>1, <1>2, <2>1, <2>3, <3>1, ChildrenContain
    <3>3. Child(r, i) \in DOMAIN v
      BY <1>5 DEF Children
    <3> QED BY <3>2, <3>3 DEF Owned
  <2> QED BY <2>2, <2>3
<1> QED BY <1>7, <1>8 DEF Keeps, Covers, v

(* A merge puts the records of the siblings in their parent. *)
LEMMA MergeKeeps ==
  ASSUME NEW w, Sound(w), NEW p \in Ranges, SiblingsLive(w, p),
         NEW n \in Nat \ {0}, p.stop - p.start = 8 * n
  PROVE  Keeps(w, Merge(w, p)) /\ Covers(w, Merge(w, p))
<1> DEFINE v == Merge(w, p)
           rest == DOMAIN w \ Children(p)
<1>1. Children(p) \subseteq DOMAIN w
  BY AuthorityExists DEF SiblingsLive, Children
<1>2. /\ DOMAIN v = rest \cup {p} /\ v[p] = SiblingEntities(w, p)
      /\ \A r \in rest : r # p => v[r] = w[r]
  BY DEF Merge
<1>3. p \notin rest
  <2> SUFFICES ASSUME p \in rest PROVE FALSE
    OBVIOUS
  <2>1. 0 \in Octant
    BY DEF Octant
  <2>2. Overlaps(p, Child(p, 0)) /\ Child(p, 0) \in Children(p)
    BY <2>1, ChildOverlaps DEF Children
  <2> QED BY <1>1, <2>2 DEF Sound, Disjoint
<1>4. ASSUME NEW s \in DOMAIN w, NEW rec \in w[s]
      PROVE  \E t \in DOMAIN v : Overlaps(s, t) /\ rec \in v[t]
  <2>1. CASE s \in rest
    <3>1. Overlaps(s, s)
      BY DEF Sound, Typed, Ranges, Overlaps
    <3> QED BY <1>2, <1>3, <2>1, <3>1
  <2>2. CASE s \in Children(p)
    <3>1. rec \in v[p]
      BY <1>2, <2>2 DEF SiblingEntities
    <3>2. Overlaps(s, p)
      BY <2>2, ChildOverlaps DEF Children
    <3> QED BY <1>2, <3>1, <3>2
  <2> QED BY <2>1, <2>2
<1>5. ASSUME NEW idx \in CurveIndex, Owned(w, idx) PROVE Owned(v, idx)
  <2>1. PICK s \in DOMAIN w : Contains(s, idx)
    BY <1>5 DEF Owned
  <2>2. CASE s \in rest
    BY <1>2, <2>1, <2>2 DEF Owned
  <2>3. CASE s \in Children(p)
    <3>1. idx \in Int
      BY DEF CurveIndex
    <3>2. s \in Ranges /\ p.start <= s.start /\ s.stop <= p.stop
      BY <2>3, ChildBounds DEF Children
    <3>3. Contains(p, idx)
      BY <2>1, <3>1, <3>2 DEF Contains, Ranges
    <3> QED BY <1>2, <3>3 DEF Owned
  <2> QED BY <2>2, <2>3
<1> QED BY <1>4, <1>5 DEF Keeps, Covers

(* A migration touches no record but the entity's own. *)
LEMMA MoveKeepsOthers ==
  ASSUME NEW w, NEW c, NEW idx, NEW r \in DOMAIN w, NEW rec \in w[r], rec.conn # c
  PROVE  rec \in MoveEntityToIndex(w, c, idx)[r] /\ rec \in RemoveEntity(w, c)[r]
BY DEF MoveEntityToIndex, RemoveEntity, SubEntity, UnsubEntity

(* After a migration to an index that has an authority, an entity that was *)
(* in the world still is.                                                  *)
LEMMA MoveKeepsMover ==
  ASSUME NEW w, NEW c, NEW idx, Owned(w, idx), HomeOf(w, c) # {}
  PROVE  HomeOf(MoveEntityToIndex(w, c, idx), c) # {}
<1> DEFINE target == AuthorityForIndex(w, idx)
           v == MoveEntityToIndex(w, c, idx)
<1>1. CASE ~ Holds(w[target], c) /\ Cardinality(w[target]) >= AuthorityCapacity
  BY <1>1 DEF MoveEntityToIndex
<1>2. CASE ~ (~ Holds(w[target], c) /\ Cardinality(w[target]) >= AuthorityCapacity)
  <2>1. target \in DOMAIN w
    BY AuthorityExists
  <2>2. target \in DOMAIN v /\ v[target] = SubEntity(w[target], Record(c, idx))
    BY <1>2, <2>1 DEF MoveEntityToIndex
  <2>3. Record(c, idx).conn = c
    BY DEF Record
  <2>4. Holds(v[target], c)
    BY <1>2, <2>2, <2>3 DEF SubEntity, Holds
  <2> QED BY <2>2, <2>4 DEF HomeOf
<1> QED BY <1>1, <1>2

(* A record that is kept keeps its entity present. *)
LEMMA KeepsPresent ==
  ASSUME NEW w, NEW v, Keeps(w, v), NEW c, HomeOf(w, c) # {}
  PROVE  HomeOf(v, c) # {}
<1>1. PICK r \in DOMAIN w : Holds(w[r], c)
  BY DEF HomeOf
<1>2. PICK rec \in w[r] : rec.conn = c
  BY <1>1 DEF Holds
<1>3. PICK s \in DOMAIN v : rec \in v[s]
  BY DEF Keeps
<1>4. Holds(v[s], c)
  BY <1>2, <1>3 DEF Holds
<1> QED BY <1>4 DEF HomeOf

(* The step of a move: the others' records stay where they were, then the  *)
(* rebalancing keeps everybody.                                            *)
LEMMA EntityMoveKeeps ==
  ASSUME NEW c \in Conn, NEW idx \in Positions, IInv, SplitsFit, EntityMove(c, idx)
  PROVE  /\ Keeps(MoveEntityToIndex(zones, c, idx), zones')
         /\ Covers(zones, zones')
<1> DEFINE w == MoveEntityToIndex(zones, c, idx)
           r == AuthorityForIndex(w, idx)
<1>1. Sound(w) /\ Fits(w) /\ DOMAIN w = DOMAIN zones
  BY MoveSound, MoveFits, PositionsAssumption DEF IInv
<1>2. zones' = RebalanceAfterMove(w, idx)
  BY DEF EntityMove
<1>3. Owned(w, idx) /\ HasChildren(r) /\ ShouldSplit(w[r], r) =>
        Cardinality(DOMAIN w) + 7 <= Capacity
  BY DEF SplitsFit
<1>4. Covers(zones, w)
  BY <1>1 DEF Covers, Owned
<1> HIDE DEF w
<1>5. Keeps(w, zones') /\ Covers(w, zones')
  <2>1. CASE Owned(w, idx) /\ HasChildren(r) /\ ShouldSplit(w[r], r)
    <3>1. r \in DOMAIN w
      BY <2>1, AuthorityExists
    <3>2. zones' = Split(w, r)
      BY <1>2, <2>1 DEF RebalanceAfterMove, MaybeSplitZone
    <3> QED BY <1>1, <1>3, <2>1, <3>1, <3>2, SplitKeeps
  <2>2. CASE ~ (Owned(w, idx) /\ HasChildren(r) /\ ShouldSplit(w[r], r))
    <3>1. zones' = w
      BY <1>2, <2>2 DEF RebalanceAfterMove, MaybeSplitZone
    <3> QED BY <1>1, <3>1, KeepsItself
  <2> QED BY <2>1, <2>2
<1>6. Covers(zones, zones')
  BY <1>4, <1>5 DEF Covers
<1> QED BY <1>5, <1>6 DEF w

(* The step of a removal: the same, with a merge. *)
LEMMA EntityRemoveKeeps ==
  ASSUME NEW c \in Conn, IInv, EntityRemove(c)
  PROVE  /\ Keeps(RemoveEntity(zones, c), zones')
         /\ Covers(zones, zones')
<1> DEFINE w == RemoveEntity(zones, c)
           r == CHOOSE x \in HomeOf(zones, c) : TRUE
<1>1. Sound(w) /\ DOMAIN w = DOMAIN zones
  BY RemoveSound DEF IInv
<1>2. Covers(zones, w)
  BY <1>1 DEF Covers, Owned
<1>3. CASE zones' = w
  BY <1>1, <1>2, <1>3, KeepsItself DEF Covers
<1>4. CASE zones' # w
  <2>1. HomeOf(zones, c) # {} /\ zones' = MaybeMergeSiblings(w, r)
    BY <1>4 DEF EntityRemove
  <2>2. r \in DOMAIN w
    BY <1>1, <2>1 DEF HomeOf
  <2>3. r \in Ranges
    BY <1>1, <2>2 DEF Sound, Typed
  <2> HIDE DEF w, r
  <2>4. zones' = Merge(w, ParentRange(r)) /\ SiblingsLive(w, ParentRange(r))
    BY <1>4, <2>1 DEF MaybeMergeSiblings, ShouldMerge
  <2>5. Keeps(w, zones') /\ Covers(w, zones')
    BY <1>1, <2>3, <2>4, ParentLength, MergeKeeps
  <2>6. Covers(zones, zones')
    BY <1>2, <2>5 DEF Covers
  <2> QED BY <2>5, <2>6 DEF w
<1> QED BY <1>3, <1>4

(* Every step keeps a record, in a zone that overlaps the one it was in,   *)
(* unless it is a step of its entity or the zone is freed.                 *)
LEMMA StepKeepsRecord ==
  ASSUME IInv, SplitsFit, [Next]_vars, NEW r \in DOMAIN zones, NEW rec \in zones[r]
  PROVE  \/ \E s \in DOMAIN zones' : Overlaps(r, s) /\ rec \in zones'[s]
         \/ EntityRemove(rec.conn)
         \/ \E idx \in Positions : EntityMove(rec.conn, idx)
         \/ ZoneFree(r)
<1>1. Overlaps(r, r)
  BY DEF IInv, Sound, Typed, Ranges, Overlaps
<1>2. ASSUME NEW c \in Conn, EntityRemove(c), rec.conn # c
      PROVE  \E s \in DOMAIN zones' : Overlaps(r, s) /\ rec \in zones'[s]
  <2>1. Keeps(RemoveEntity(zones, c), zones') /\ DOMAIN RemoveEntity(zones, c) = DOMAIN zones
    BY <1>2, EntityRemoveKeeps, RemoveSound DEF IInv
  <2>2. rec \in RemoveEntity(zones, c)[r]
    BY <1>2, MoveKeepsOthers
  <2> QED BY <2>1, <2>2 DEF Keeps
<1>3. ASSUME NEW c \in Conn, NEW idx \in Positions, EntityMove(c, idx), rec.conn # c
      PROVE  \E s \in DOMAIN zones' : Overlaps(r, s) /\ rec \in zones'[s]
  <2>1. Keeps(MoveEntityToIndex(zones, c, idx), zones')
    BY <1>3, EntityMoveKeeps
  <2>2. DOMAIN MoveEntityToIndex(zones, c, idx) = DOMAIN zones
    BY MoveSound, PositionsAssumption DEF IInv
  <2>3. rec \in MoveEntityToIndex(zones, c, idx)[r]
    BY <1>3, MoveKeepsOthers
  <2> QED BY <2>1, <2>2, <2>3 DEF Keeps
<1>4. ASSUME NEW x \in HostRanges, ZoneAlloc(x)
      PROVE  \E s \in DOMAIN zones' : Overlaps(r, s) /\ rec \in zones'[s]
  <2>1. r # x
    BY <1>1, <1>4 DEF ZoneAlloc
  <2>2. r \in DOMAIN zones' /\ zones'[r] = zones[r]
    BY <1>4, <2>1 DEF ZoneAlloc
  <2> QED BY <1>1, <2>2
<1>5. ASSUME NEW x \in HostRanges, ZoneFree(x), r # x
      PROVE  \E s \in DOMAIN zones' : Overlaps(r, s) /\ rec \in zones'[s]
  <2>1. r \in DOMAIN zones' /\ zones'[r] = zones[r]
    BY <1>5 DEF ZoneFree
  <2> QED BY <1>1, <2>1
<1>6. CASE UNCHANGED vars
  BY <1>1, <1>6 DEF vars
<1>7. CASE Next
  BY <1>2, <1>3, <1>4, <1>5, <1>7 DEF Next
<1> QED BY <1>6, <1>7

(* As long as splits find their slots, somebody else's move, removal,      *)
(* split or merge leaves a record in the zone that has its place.          *)
THEOREM BystandersUndisturbed == Spec /\ []SplitsFit => BystandersStay
<1> DEFINE Stays ==
      \A r \in DOMAIN zones : \A rec \in zones[r] :
        \/ \E s \in DOMAIN zones' : Overlaps(r, s) /\ rec \in zones'[s]
        \/ EntityRemove(rec.conn)
        \/ \E idx \in Positions : EntityMove(rec.conn, idx)
        \/ ZoneFree(r)
<1>1. IInv /\ SplitsFit /\ [Next]_vars => [Stays]_vars
  <2> SUFFICES ASSUME IInv, SplitsFit, [Next]_vars PROVE Stays
    OBVIOUS
  <2> QED BY StepKeepsRecord
<1> QED BY <1>1, WorldSound, PTL DEF Spec, BystandersStay

(* As long as splits find their slots, an entity leaves the world only     *)
(* when it is removed, when its zone is freed or when it moves to an index *)
(* nobody owns.                                                            *)
THEOREM EntitiesKept == Spec /\ []SplitsFit => NoEntityVanishes
<1> DEFINE Kept == \A c \in Conn : Present(c) /\ ~ Present(c)' => MayLeave(c)
<1>1. IInv /\ SplitsFit /\ [Next]_vars => [Kept]_vars
  <2> SUFFICES ASSUME IInv, SplitsFit, [Next]_vars, NEW c \in Conn,
                      Present(c), ~ Present(c)'
               PROVE  MayLeave(c)
    OBVIOUS
  <2>1. PICK r \in DOMAIN zones : Holds(zones[r], c)
    BY DEF Present, HomeOf
  <2>2. PICK rec \in zones[r] : rec.conn = c
    BY <2>1 DEF Holds
  <2>3. ~ \E s \in DOMAIN zones' : rec \in zones'[s]
    BY <2>2 DEF Present, HomeOf, Holds
  <2>4. CASE EntityRemove(c)
    BY <2>4 DEF MayLeave
  <2>5. CASE ZoneFree(r)
    BY <2>1, <2>5 DEF MayLeave, HomeOf
  <2>6. ASSUME NEW idx \in Positions, EntityMove(c, idx) PROVE MayLeave(c)
    <3>1. CASE Owned(zones, idx)
      <4>1. HomeOf(MoveEntityToIndex(zones, c, idx), c) # {}
        BY <3>1, MoveKeepsMover DEF Present
      <4>2. Keeps(MoveEntityToIndex(zones, c, idx), zones')
        BY <2>6, EntityMoveKeeps
      <4>3. HomeOf(zones', c) # {}
        BY <4>1, <4>2, KeepsPresent
      <4> QED BY <4>3 DEF Present
    <3>2. CASE ~ Owned(zones, idx)
      BY <2>6, <3>2 DEF MayLeave
    <3> QED BY <3>1, <3>2
  <2> QED BY <2>2, <2>3, <2>4, <2>5, <2>6, StepKeepsRecord
<1> QED BY <1>1, WorldSound, PTL DEF Spec, NoEntityVanishes

(* As long as splits find their slots and the host frees no zone, every    *)
(* index of the curve has an authority.                                    *)
THEOREM WorldStaysTiled ==
  ASSUME HostRanges = {}
  PROVE  Spec /\ []SplitsFit => []WorldTiled
<1>1. Init => WorldTiled
  <2> SUFFICES ASSUME Init, NEW idx \in CurveIndex PROVE Owned(zones, idx)
    BY DEF WorldTiled
  <2>1. Root \in DOMAIN zones
    BY DEF Init
  <2>2. 8 ^ Bits \in Nat \ {0}
    BY BitsAssumption, PowersOfEight
  <2>3. Contains(Root, idx)
    BY <2>2 DEF Root, ZoneRange, Contains, CurveIndex
  <2> QED BY <2>1, <2>3 DEF Owned
<1>2. WorldTiled /\ IInv /\ SplitsFit /\ [Next]_vars => WorldTiled'
  <2> SUFFICES ASSUME WorldTiled, IInv, SplitsFit, [Next]_vars PROVE WorldTiled'
    OBVIOUS
  <2>1. CASE UNCHANGED vars
    BY <2>1 DEF vars, WorldTiled, Owned
  <2>2. CASE Next
    <3>1. PICK c \in Conn : EntityRemove(c) \/ \E idx \in Positions : EntityMove(c, idx)
      BY <2>2 DEF Next
    <3>2. Covers(zones, zones')
      BY <3>1, EntityRemoveKeeps, EntityMoveKeeps
    <3> QED BY <3>2 DEF Covers, WorldTiled
  <2> QED BY <2>1, <2>2
<1> QED BY <1>1, <1>2, WorldSound, PTL DEF Spec

-----------------------------------------------------------------------------
(***************************************************************************)
(* How many zones there can be.  A zone is split only where the reported   *)
(* positions branch, so a slot map with a slot for one zone and seven more *)
(* for each branching cell is never short of them, and what is proved      *)
(* above under SplitsFit holds outright.                                   *)
(***************************************************************************)

(* A nonempty set of naturals has a least element: the form of induction   *)
(* that the lemmas below use.                                              *)
LEMMA LeastElement ==
  ASSUME NEW T \in SUBSET Nat, T # {}
  PROVE  \E x \in T : \A y \in T : x <= y
<1> DEFINE R == OpToRel(<, Nat)
<1>1. IsWellFoundedOn(R, Nat)
  BY NatLessThanWellFounded
<1>2. \A x, y \in Nat : x < y => <<x, y>> \in R
  BY DEF OpToRel
<1> HIDE DEF R
<1>3. PICK x \in T : \A y \in T : ~ (<<y, x>> \in R)
  BY <1>1, WFMin
<1>4. ASSUME NEW y \in T PROVE x <= y
  <2>1. ~ (y < x)
    BY <1>2, <1>3
  <2>2. x \in Nat /\ y \in Nat
    OBVIOUS
  <2> QED BY <2>1, <2>2
<1> QED BY <1>4

(* The length of a cell is a multiple of the length of every smaller one. *)
LEMMA PowersDivide ==
  ASSUME NEW m \in 0 .. Bits, NEW k \in 0 .. m
  PROVE  \E q \in Nat \ {0} : 8 ^ m = 8 ^ k * q
<1> DEFINE Divides(j) == \E q \in Nat \ {0} : 8 ^ j = 8 ^ k * q
           Bad == {j \in k .. Bits : ~ Divides(j)}
<1> SUFFICES Bad = {}
  BY BitsAssumption
<1> SUFFICES ASSUME Bad # {} PROVE FALSE
  OBVIOUS
<1>1. Bad \in SUBSET Nat
  BY BitsAssumption
<1>2. PICK j \in Bad : \A i \in Bad : j <= i
  <2> HIDE DEF Bad
  <2> QED BY <1>1, LeastElement
<1>3. j \in k .. Bits /\ ~ Divides(j) /\ k \in Nat /\ j \in Nat /\ Bits \in Nat
  BY BitsAssumption
<1>4. k \in 0 .. Bits /\ 8 ^ k \in Nat \ {0}
  BY BitsAssumption, PowersOfEight
<1>5. CASE j = k
  <2>1. 8 ^ j = 8 ^ k * 1
    BY <1>4, <1>5
  <2> QED BY <1>3, <2>1
<1>6. CASE j # k
  <2>1. j - 1 \in k .. Bits /\ ~ (j <= j - 1) /\ j > 0 /\ j \in 0 .. Bits
    BY <1>3, <1>6
  <2>2. j - 1 \notin Bad
    <3> HIDE DEF Bad
    <3> QED BY <1>2, <2>1
  <2>3. PICK q \in Nat \ {0} : 8 ^ (j - 1) = 8 ^ k * q
    BY <2>1, <2>2
  <2>4. 8 ^ j = 8 * 8 ^ (j - 1)
    BY <2>1, PowersOfEight
  <2>5. 8 ^ j = 8 ^ k * (8 * q) /\ 8 * q \in Nat \ {0}
    BY <1>4, <2>3, <2>4
  <2> QED BY <1>3, <2>5
<1> QED BY <1>5, <1>6

(* What the provers need of multiplication. *)
LEMMA NextMultiple ==
  ASSUME NEW l \in Nat \ {0}, NEW a \in Int, NEW b \in Int, l * a < l * b
  PROVE  l * a + l <= l * b
<1>1. a < b
  <2> SUFFICES ASSUME b <= a PROVE FALSE
    OBVIOUS
  <2>1. l * b <= l * a
    BY SMT
  <2> QED BY <2>1
<1>2. b - a - 1 \in Nat
  BY <1>1
<1>3. l * (b - a - 1) \in Nat
  BY <1>2
<1>4. l * (b - a - 1) = l * b - l * a - l
  OBVIOUS
<1> QED BY <1>3, <1>4

(* A number with no remainder is a multiple. *)
LEMMA NoRemainder ==
  ASSUME NEW l \in Nat \ {0}, NEW s \in Nat, s % l = 0
  PROVE  \E a \in Nat : s = l * a
<1>1. s = l * (s \div l) + (s % l) /\ s \div l \in Int
  OBVIOUS
<1>2. s \div l \in Nat
  OBVIOUS
<1> QED BY <1>1, <1>2

(* A multiple has no remainder. *)
LEMMA MultipleNoRemainder ==
  ASSUME NEW l \in Nat \ {0}, NEW t \in Nat
  PROVE  (l * t) % l = 0
<1> DEFINE s == l * t
           x == t - (s \div l)
<1>1. s \in Nat /\ s = l * (s \div l) + (s % l) /\ s \div l \in Int /\ s % l \in 0 .. l - 1
  OBVIOUS
<1>2. x \in Int /\ s % l = l * x
  BY <1>1
<1> HIDE DEF x
<1>3. x >= 1 => l * x >= l
  BY <1>2
<1>4. x <= -1 => l * x <= -l
  BY <1>2
<1>5. x = 0
  <2> HIDE DEF s
  <2> QED BY <1>1, <1>2, <1>3, <1>4
<1> QED BY <1>2, <1>5

-----------------------------------------------------------------------------
(* b lies in r. *)
Within(b, r) == r.start <= b.start /\ b.stop <= r.stop

(* A cell starts at a multiple of its length. *)
LEMMA CellForm ==
  ASSUME NEW r \in Ranges, NEW d \in 0 .. Bits, CellAt(r, d)
  PROVE  /\ Bits - d \in 0 .. Bits /\ 8 ^ (Bits - d) \in Nat \ {0}
         /\ r.stop = r.start + 8 ^ (Bits - d)
         /\ \E a \in Nat : r.start = 8 ^ (Bits - d) * a
<1>1. Bits - d \in 0 .. Bits
  BY BitsAssumption
<1>2. 8 ^ (Bits - d) \in Nat \ {0}
  BY <1>1, PowersOfEight
<1>3. r.start \in Nat /\ r.stop \in Nat
  BY DEF Ranges
<1>4. r.stop - r.start = 8 ^ (Bits - d) /\ r.start % 8 ^ (Bits - d) = 0
  BY DEF CellAt
<1>5. \E a \in Nat : r.start = 8 ^ (Bits - d) * a
  BY <1>2, <1>3, <1>4, NoRemainder
<1> QED BY <1>1, <1>2, <1>3, <1>4, <1>5

(* Cells nest: one that lies in another and is not the whole of it lies in *)
(* a child of it.                                                          *)
LEMMA CellsNest ==
  ASSUME NEW b \in Ranges, NEW p \in Ranges, IsCell(b), HasChildren(p),
         Within(b, p), b # p
  PROVE  \E i \in Octant : Within(b, Child(p, i))
<1>1. PICK e \in 0 .. Bits - 1 : CellAt(p, e)
  BY DEF HasChildren
<1>2. PICK d \in 0 .. Bits : CellAt(b, d)
  BY DEF IsCell
<1> DEFINE k == Bits - e
           j == Bits - d
           n == 8 ^ (k - 1)
           l == 8 ^ j
<1>3. /\ e \in 0 .. Bits /\ k \in 0 .. Bits /\ k - 1 \in 0 .. Bits /\ k > 0
      /\ j \in 0 .. Bits
  BY BitsAssumption
<1>4. 8 ^ k = 8 * n /\ n \in Nat \ {0}
  BY <1>3, PowersOfEight
<1>5. PICK a \in Nat : p.start = 8 ^ k * a
  BY <1>1, <1>3, CellForm
<1>6. PICK c \in Nat : b.start = l * c
  BY <1>2, CellForm
<1>7. p.stop = p.start + 8 * n /\ b.stop = b.start + l /\ l \in Nat \ {0}
  BY <1>1, <1>2, <1>3, <1>4, CellForm
<1>8. /\ b.start \in Nat /\ b.stop \in Nat /\ p.start \in Nat /\ p.stop \in Nat
      /\ p.start <= b.start /\ b.stop <= p.stop
      /\ ~ (b.start = p.start /\ b.stop = p.stop)
  BY DEF Ranges, Within
<1>9. l < 8 * n
  <2> HIDE DEF l, n
  <2> QED BY <1>4, <1>7, <1>8
<1>10. j <= k - 1
  <2> SUFFICES ASSUME k <= j PROVE FALSE
    BY <1>3
  <2>1. k \in 0 .. j
    BY <1>3
  <2>2. PICK q \in Nat \ {0} : l = 8 ^ k * q
    <3> HIDE DEF k, j
    <3> QED BY <1>3, <2>1, PowersDivide
  <2>3. l >= 8 * n
    <3> HIDE DEF l, n, k
    <3>1. l = (8 * n) * q /\ 8 * n \in Nat
      BY <1>4, <2>2
    <3> HIDE <1>4, <2>2
    <3> QED BY <3>1
  <2> QED BY <1>4, <1>7, <1>9, <2>3
<1>11. PICK q \in Nat \ {0} : n = l * q
  <2>1. j \in 0 .. k - 1
    BY <1>3, <1>10
  <2> HIDE DEF k, j
  <2> QED BY <1>3, <2>1, PowersDivide
<1> HIDE DEF k, j, n, l
<1>12. p.stop - p.start = 8 * n
  BY <1>4, <1>7, <1>8
<1>13. Contains(p, b.start)
  BY <1>7, <1>8 DEF Contains
<1>14. PICK i \in Octant : Contains(Child(p, i), b.start)
  BY <1>4, <1>8, <1>12, <1>13, ChildrenContain
<1>15. /\ Child(p, i).stop = p.start + (i + 1) * n
       /\ Child(p, i).start <= b.start /\ b.start < Child(p, i).stop
  BY <1>4, <1>12, <1>14, ChildBounds DEF Contains
<1>16. p.start + (i + 1) * n = l * (8 * q * a + (i + 1) * q)
  <2>1. p.start = l * (8 * q * a)
    BY <1>4, <1>5, <1>7, <1>11
  <2>2. i \in Int /\ (i + 1) * n = l * ((i + 1) * q)
    BY <1>7, <1>11 DEF Octant
  <2> QED BY <1>7, <2>1, <2>2
<1>17. 8 * q * a + (i + 1) * q \in Int
  BY DEF Octant
<1>18. b.stop <= Child(p, i).stop
  <2> DEFINE m == 8 * q * a + (i + 1) * q
  <2>1. m \in Int /\ l * c < l * m
    BY <1>6, <1>15, <1>16, <1>17
  <2> HIDE DEF m
  <2>2. l * c + l <= l * m
    BY <1>7, <2>1, NextMultiple
  <2>3. Child(p, i).stop = l * m
    BY <1>15, <1>16 DEF m
  <2> QED BY <1>6, <1>7, <2>2, <2>3
<1> QED BY <1>15, <1>18 DEF Within

(* The parent of a cell is a cell that has children. *)
LEMMA ParentIsCell ==
  ASSUME NEW r \in Ranges, HasParent(r)
  PROVE  HasChildren(ParentRange(r))
<1>1. PICK d \in 1 .. Bits : CellAt(r, d)
  BY DEF HasParent
<1> DEFINE l == 8 ^ (Bits - (d - 1))
           t == r.start \div l
<1>2. /\ d \in 0 .. Bits /\ d - 1 \in 0 .. Bits - 1
      /\ Bits - (d - 1) \in 0 .. Bits /\ Bits - (d - 1) > 0
      /\ Bits - (d - 1) - 1 = Bits - d
  BY BitsAssumption
<1>3. l = 8 * 8 ^ (Bits - d) /\ l \in Nat \ {0}
  BY <1>2, PowersOfEight
<1>4. /\ r.start \in Nat /\ r.stop \in Nat /\ r.stop - r.start = 8 ^ (Bits - d)
      /\ 8 ^ (Bits - d) \in Nat
  BY <1>1, <1>2, CellForm DEF Ranges, CellAt
<1>5. 8 * (r.stop - r.start) = l
  BY <1>3, <1>4
<1> HIDE DEF l
<1>6. t \in Nat /\ r.start - (r.start % l) = l * t /\ l * t \in Nat
  <2>1. r.start = l * t + (r.start % l) /\ r.start % l \in Int
    BY <1>3, <1>4
  <2>2. t \in Nat
    BY <1>3, <1>4
  <2> HIDE DEF t
  <2>3. l * t \in Nat
    BY <1>3, <2>2
  <2> QED BY <2>1, <2>2, <2>3
<1>7. /\ ParentRange(r).start = l * t
      /\ ParentRange(r).stop = l * t + l
  BY <1>5, <1>6 DEF ParentRange, ZoneRange
<1> HIDE DEF t
<1>8. (l * t) % l = 0
  BY <1>3, <1>6, MultipleNoRemainder
<1>9. CellAt(ParentRange(r), d - 1)
  BY <1>3, <1>6, <1>7, <1>8 DEF CellAt, l
<1> QED BY <1>2, <1>9 DEF HasChildren

(* A cell that contains an index of the curve lies in the curve. *)
LEMMA CellInCurve ==
  ASSUME NEW r \in Ranges, IsCell(r), NEW idx \in CurveIndex, Contains(r, idx)
  PROVE  r.stop <= 8 ^ Bits
<1>1. PICK d \in 0 .. Bits : CellAt(r, d)
  BY DEF IsCell
<1> DEFINE l == 8 ^ (Bits - d)
<1>2. l \in Nat \ {0} /\ r.stop = r.start + l /\ Bits - d \in 0 .. Bits
  BY <1>1, CellForm
<1>3. PICK a \in Nat : r.start = l * a
  BY <1>1, CellForm
<1>4. PICK q \in Nat \ {0} : 8 ^ Bits = l * q
  <2>1. Bits \in 0 .. Bits
    BY BitsAssumption
  <2> QED BY <1>2, <2>1, PowersDivide
<1>5. r.start <= idx /\ idx < 8 ^ Bits /\ idx \in Int /\ 8 ^ Bits \in Nat
  BY BitsAssumption, PowersOfEight DEF Contains, CurveIndex
<1> HIDE DEF l
<1>6. l * a < l * q /\ l * a \in Int
  BY <1>2, <1>3, <1>4, <1>5
<1>7. l * a + l <= l * q
  BY <1>2, <1>6, NextMultiple
<1> QED BY <1>2, <1>3, <1>4, <1>7

-----------------------------------------------------------------------------
(* A cell branches when clients report positions in two of its children.   *)
PositionIn(r) == \E idx \in Positions : Contains(r, idx)
Branches(r) ==
  \E i, j \in Octant : i # j /\ PositionIn(Child(r, i)) /\ PositionIn(Child(r, j))

BranchingCells ==
  {r \in [start : 0 .. 8 ^ Bits, stop : 0 .. 8 ^ Bits] :
     r \in Ranges /\ HasChildren(r) /\ Branches(r)}

(* The branching cells that lie in no live zone: the ones split so far. *)
SplitCells(w) == {b \in BranchingCells : \A r \in DOMAIN w : ~ Within(b, r)}

(* Every record is filed under a reported position. *)
AtPositions(w) == \A r \in DOMAIN w : \A rec \in w[r] : rec.idx \in Positions

(* There are finitely many branching cells. *)
LEMMA BranchingFinite ==
  IsFiniteSet(BranchingCells) /\ Cardinality(BranchingCells) \in Nat
<1> DEFINE N == 0 .. 8 ^ Bits
           f == [r \in BranchingCells |-> <<r.start, r.stop>>]
<1>1. 8 ^ Bits \in Nat
  BY BitsAssumption, PowersOfEight
<1>2. IsFiniteSet(N)
  BY <1>1, FS_Interval
<1>3. IsFiniteSet(N \X N)
  <2> HIDE DEF N
  <2> QED BY <1>2, FS_Product
<1>4. f \in Injection(BranchingCells, N \X N)
  <2>1. f \in [BranchingCells -> N \X N]
    BY DEF BranchingCells
  <2>2. \A a, b \in BranchingCells : f[a] = f[b] => a = b
    BY DEF BranchingCells
  <2> QED BY <2>1, <2>2 DEF Injection, IsInjective
<1>5. IsFiniteSet(BranchingCells)
  <2> HIDE DEF f, N
  <2> QED BY <1>3, <1>4, FS_Injection
<1> QED BY <1>5, FS_CardinalityType

(* So are the ones that are split, which are no more. *)
LEMMA SplitCellsFinite ==
  ASSUME NEW w
  PROVE  /\ IsFiniteSet(SplitCells(w)) /\ Cardinality(SplitCells(w)) \in Nat
         /\ Cardinality(SplitCells(w)) <= Cardinality(BranchingCells)
<1>1. SplitCells(w) \in SUBSET BranchingCells
  BY DEF SplitCells
<1>2. /\ IsFiniteSet(SplitCells(w))
      /\ Cardinality(SplitCells(w)) <= Cardinality(BranchingCells)
  BY <1>1, BranchingFinite, FS_Subset
<1> QED BY <1>2, FS_CardinalityType

(* Splitting is not cheaper when one child keeps the whole population. *)
LEMMA LopsidedSplit ==
  ASSUME NEW K \in Nat, NEW P \in [Octant -> Nat], NEW i \in Octant, P[i] = K
  PROVE  ~ SplitIsCheaper(K, P)
<1> DEFINE cost(j) == LeafCost(P[j])
           all == LeafCost(K)
<1>1. \A j \in Octant : cost(j) \in Nat
  BY DEF LeafCost
<1>2. /\ 0 \in Octant /\ 1 \in Octant /\ 2 \in Octant /\ 3 \in Octant
      /\ 4 \in Octant /\ 5 \in Octant /\ 6 \in Octant /\ 7 \in Octant
      /\ i \in {0, 1, 2, 3, 4, 5, 6, 7}
  BY DEF Octant
<1>3. SplitIsCheaper(K, P) =>
        cost(0) + 1 + (cost(1) + 1) + (cost(2) + 1) + (cost(3) + 1) + (cost(4) + 1)
          + (cost(5) + 1) + (cost(6) + 1) + (cost(7) + 1) < all
  BY DEF SplitIsCheaper, ZoneOverhead
<1>4. cost(i) = all
  OBVIOUS
<1> HIDE DEF cost, all
<1>5. /\ cost(0) \in Nat /\ cost(1) \in Nat /\ cost(2) \in Nat /\ cost(3) \in Nat
      /\ cost(4) \in Nat /\ cost(5) \in Nat /\ cost(6) \in Nat /\ cost(7) \in Nat
  BY <1>1, <1>2
<1>6. \/ cost(0) = all \/ cost(1) = all \/ cost(2) = all \/ cost(3) = all
      \/ cost(4) = all \/ cost(5) = all \/ cost(6) = all \/ cost(7) = all
  BY <1>2, <1>4
<1> QED BY <1>3, <1>5, <1>6

(* The children's populations are numbers. *)
LEMMA ChildPopulationsType ==
  ASSUME NEW entities, IsFiniteSet(entities), NEW r
  PROVE  ChildPopulations(entities, r) \in [Octant -> Nat]
<1>1. \A i \in Octant : InRange(entities, Child(r, i)) \in SUBSET entities
  BY DEF InRange
<1>2. \A i \in Octant : Cardinality(InRange(entities, Child(r, i))) \in Nat
  BY <1>1, FS_Subset, FS_CardinalityType
<1> QED BY <1>2 DEF ChildPopulations

(* A cell is split only where it branches: entities that are all in one    *)
(* child, whatever their number, make no split worth its overhead.         *)
LEMMA SplitNeedsBranching ==
  ASSUME NEW w, Sound(w), AtPositions(w), NEW r \in DOMAIN w, HasChildren(r),
         ShouldSplit(w[r], r)
  PROVE  r \in BranchingCells
<1> DEFINE K == Cardinality(w[r])
           P == ChildPopulations(w[r], r)
<1>1. r \in Ranges /\ IsFiniteSet(w[r]) /\ K \in Nat
  BY RecordsFinite DEF Sound, Typed
<1>2. PICK n \in Nat \ {0} : r.stop - r.start = 8 * n
  BY <1>1, SplitLength
<1>3. P \in [Octant -> Nat] /\ SplitIsCheaper(K, P)
  BY <1>1, ChildPopulationsType DEF ShouldSplit
<1>4. \A rec \in w[r] : /\ rec.idx \in Positions /\ rec.idx \in Int
                        /\ \E i \in Octant : Contains(Child(r, i), rec.idx)
  <2> SUFFICES ASSUME NEW rec \in w[r]
               PROVE  /\ rec.idx \in Positions /\ rec.idx \in Int
                      /\ \E i \in Octant : Contains(Child(r, i), rec.idx)
    OBVIOUS
  <2>1. rec.idx \in Positions /\ rec.idx \in Int /\ Contains(r, rec.idx)
    BY RecordIndex DEF AtPositions, Sound, Typed, Filed
  <2> QED BY <1>1, <1>2, <2>1, ChildrenContain
<1>5. \A i \in Octant : ~ (InRange(w[r], Child(r, i)) = w[r])
  <2> SUFFICES ASSUME NEW i \in Octant, InRange(w[r], Child(r, i)) = w[r]
               PROVE  FALSE
    OBVIOUS
  <2>1. P[i] = K
    BY DEF ChildPopulations
  <2> HIDE DEF K, P
  <2> QED BY <1>1, <1>3, <2>1, LopsidedSplit
<1>6. PICK rec \in w[r] : TRUE
  <2>1. 0 \in Octant
    BY DEF Octant
  <2> QED BY <1>5, <2>1 DEF InRange
<1>7. PICK i \in Octant : Contains(Child(r, i), rec.idx)
  BY <1>4
<1>8. PICK other \in w[r] : ~ Contains(Child(r, i), other.idx)
  BY <1>5 DEF InRange
<1>9. PICK j \in Octant : Contains(Child(r, j), other.idx)
  BY <1>4
<1>10. Branches(r)
  <2>1. i # j /\ PositionIn(Child(r, i)) /\ PositionIn(Child(r, j))
    BY <1>4, <1>7, <1>8, <1>9 DEF PositionIn
  <2> QED BY <2>1 DEF Branches
<1>11. r.stop <= 8 ^ Bits
  <2>1. IsCell(r)
    BY BitsAssumption DEF HasChildren, IsCell
  <2>2. rec.idx \in CurveIndex /\ Contains(r, rec.idx)
    BY <1>4, PositionsAssumption DEF Sound, Filed
  <2> QED BY <1>1, <2>1, <2>2, CellInCurve
<1>12. r \in [start : 0 .. 8 ^ Bits, stop : 0 .. 8 ^ Bits]
  <2>1. 8 ^ Bits \in Nat
    BY BitsAssumption, PowersOfEight
  <2> QED BY <1>1, <1>11, <2>1 DEF Ranges
<1> QED BY <1>1, <1>10, <1>12 DEF BranchingCells

(* A split adds at most seven zones, and the cell to those that are split. *)
LEMMA SplitCounts ==
  ASSUME NEW w, Sound(w), Fits(w), NEW r \in DOMAIN w, r \in BranchingCells,
         Cardinality(DOMAIN w) <= 1 + 7 * Cardinality(SplitCells(w))
  PROVE  Cardinality(DOMAIN Split(w, r)) <= 1 + 7 * Cardinality(SplitCells(Split(w, r)))
<1> DEFINE rest == DOMAIN w \ {r}
           J == {j \in Octant : j < Capacity - Cardinality(rest)}
           made == {Child(r, i) : i \in J}
           f == [j \in J |-> Child(r, j)]
           v == Split(w, r)
<1>1. r \in Ranges /\ HasChildren(r)
  BY DEF BranchingCells
<1>2. PICK n \in Nat \ {0} : r.stop - r.start = 8 * n
  BY <1>1, SplitLength
<1>3. DOMAIN v = rest \cup made
  BY DEF Split
<1>4. /\ IsFiniteSet(rest) /\ Cardinality(rest) \in Nat
      /\ Cardinality(rest) = Cardinality(DOMAIN w) - 1 /\ Cardinality(DOMAIN w) \in Nat
  BY SplitSlots, FS_CardinalityType DEF Fits
<1>5. IsFiniteSet(made) /\ Cardinality(made) \in Nat /\ Cardinality(made) <= 8
  <2>1. IsFiniteSet(Octant) /\ Cardinality(Octant) = 8
    <3>1. 0 \in Int /\ 7 \in Int /\ ~ (0 > 7) /\ 7 - 0 + 1 = 8
      OBVIOUS
    <3> QED BY <3>1, FS_Interval DEF Octant
  <2>2. J \in SUBSET Octant
    OBVIOUS
  <2>3. f \in Surjection(J, made)
    BY DEF Surjection
  <2> HIDE DEF J, made, f
  <2>4. IsFiniteSet(J) /\ Cardinality(J) <= 8 /\ Cardinality(J) \in Nat
    BY <2>1, <2>2, FS_Subset, FS_CardinalityType
  <2>5. IsFiniteSet(made) /\ Cardinality(made) <= Cardinality(J)
    BY <2>3, <2>4, FS_Surjection
  <2>6. Cardinality(made) \in Nat
    BY <2>5, FS_CardinalityType
  <2> QED BY <2>4, <2>5, <2>6
<1>6. Cardinality(DOMAIN v) <= Cardinality(DOMAIN w) + 7 /\ Cardinality(DOMAIN v) \in Nat
  <2> HIDE DEF rest, made, v
  <2>1. /\ IsFiniteSet(rest \cup made)
        /\ Cardinality(rest \cup made) =
             Cardinality(rest) + Cardinality(made) - Cardinality(rest \cap made)
    BY <1>4, <1>5, FS_Union
  <2>2. Cardinality(rest \cap made) \in Nat /\ Cardinality(rest \cup made) \in Nat
    BY <1>4, <2>1, FS_Intersection, FS_CardinalityType
  <2> QED BY <1>3, <1>4, <1>5, <2>1, <2>2
<1>7. r \notin SplitCells(w)
  <2>1. Within(r, r)
    BY <1>1 DEF Within, Ranges
  <2> QED BY <2>1 DEF SplitCells
<1>8. \A s \in made : /\ s \in Ranges /\ s.start \in Nat /\ s.stop \in Nat
                      /\ r.start <= s.start /\ s.stop <= r.stop
                      /\ s.stop - s.start < r.stop - r.start
  <2> SUFFICES ASSUME NEW i \in Octant
               PROVE  LET s == Child(r, i)
                      IN  /\ s \in Ranges /\ s.start \in Nat /\ s.stop \in Nat
                          /\ r.start <= s.start /\ s.stop <= r.stop
                          /\ s.stop - s.start < r.stop - r.start
    OBVIOUS
  <2>1. /\ Child(r, i) \in Ranges
        /\ Child(r, i).start = r.start + i * n
        /\ Child(r, i).stop = r.start + (i + 1) * n
        /\ r.start <= Child(r, i).start /\ Child(r, i).stop <= r.stop
    BY <1>1, <1>2, ChildBounds
  <2>2. (i + 1) * n = i * n + n /\ i * n \in Int
    BY DEF Octant
  <2> QED BY <1>1, <1>2, <2>1, <2>2 DEF Ranges
<1>9. r \in SplitCells(v)
  <2>1. ASSUME NEW s \in rest PROVE ~ Within(r, s)
    <3>1. s \in Ranges /\ ~ Overlaps(r, s)
      BY DEF Sound, Typed, Disjoint
    <3> QED BY <1>1, <3>1 DEF Within, Overlaps, Ranges
  <2>2. ASSUME NEW s \in made PROVE ~ Within(r, s)
    <3> HIDE DEF made
    <3> QED BY <1>1, <1>8 DEF Within, Ranges
  <2> HIDE DEF rest, made, v
  <2> QED BY <1>3, <2>1, <2>2 DEF SplitCells
<1>10. SplitCells(w) \subseteq SplitCells(v)
  <2> SUFFICES ASSUME NEW b \in SplitCells(w), NEW s \in DOMAIN v, Within(b, s)
               PROVE  FALSE
    BY DEF SplitCells
  <2>1. CASE s \in rest
    BY <2>1 DEF SplitCells
  <2>2. CASE s \in made
    <3>1. b.start \in Nat /\ b.stop \in Nat
      BY DEF SplitCells, BranchingCells, Ranges
    <3>2. Within(b, r)
      <4> HIDE DEF made
      <4> QED BY <1>1, <1>8, <2>2, <3>1 DEF Within, Ranges
    <3> QED BY <3>2 DEF SplitCells
  <2> QED BY <1>3, <2>1, <2>2
<1>11. Cardinality(SplitCells(w)) + 1 <= Cardinality(SplitCells(v))
  <2> HIDE DEF v
  <2>1. SplitCells(w) \cup {r} \in SUBSET SplitCells(v)
    BY <1>9, <1>10
  <2>2. Cardinality(SplitCells(w) \cup {r}) = Cardinality(SplitCells(w)) + 1
    BY <1>7, SplitCellsFinite, FS_AddElement
  <2> QED BY <2>1, <2>2, SplitCellsFinite, FS_Subset
<1>12. Cardinality(SplitCells(w)) \in Nat /\ Cardinality(SplitCells(v)) \in Nat
  BY SplitCellsFinite
<1> HIDE DEF v
<1> QED BY <1>4, <1>6, <1>11, <1>12 DEF v

(* The eight children are eight. *)
LEMMA EightChildren ==
  ASSUME NEW p \in Ranges, NEW n \in Nat \ {0}, p.stop - p.start = 8 * n
  PROVE  IsFiniteSet(Children(p)) /\ Cardinality(Children(p)) = 8
<1> DEFINE f == [i \in Octant |-> Child(p, i)]
<1>1. IsFiniteSet(Octant) /\ Cardinality(Octant) = 8
  <2>1. 0 \in Int /\ 7 \in Int /\ ~ (0 > 7) /\ 7 - 0 + 1 = 8
    OBVIOUS
  <2> QED BY <2>1, FS_Interval DEF Octant
<1>2. \A i, j \in Octant : f[i] = f[j] => i = j
  <2> SUFFICES ASSUME NEW i \in Octant, NEW j \in Octant, Child(p, i) = Child(p, j)
               PROVE  i = j
    OBVIOUS
  <2>1. p.start + i * n = p.start + j * n /\ p.start \in Nat
    BY ChildBounds DEF Ranges
  <2>2. i \in {0, 1, 2, 3, 4, 5, 6, 7} /\ j \in {0, 1, 2, 3, 4, 5, 6, 7}
    BY DEF Octant
  <2> QED BY <2>1, <2>2
<1>3. f \in Bijection(Octant, Children(p))
  BY <1>2 DEF Bijection, Injection, Surjection, IsInjective, Children
<1> HIDE DEF f
<1>4. ExistsBijection(Octant, Children(p))
  BY <1>3 DEF ExistsBijection
<1> QED BY <1>1, <1>4, FS_Bijection

(* A merge takes seven zones away, and only the parent from the cells that *)
(* are split: a smaller cell of it lies in a sibling, a live zone.         *)
LEMMA MergeCounts ==
  ASSUME NEW w, Sound(w), Fits(w), NEW p \in Ranges, HasChildren(p), SiblingsLive(w, p),
         Cardinality(DOMAIN w) <= 1 + 7 * Cardinality(SplitCells(w))
  PROVE  Cardinality(DOMAIN Merge(w, p)) <= 1 + 7 * Cardinality(SplitCells(Merge(w, p)))
<1> DEFINE rest == DOMAIN w \ Children(p)
           v == Merge(w, p)
<1>1. PICK n \in Nat \ {0} : p.stop - p.start = 8 * n
  BY SplitLength
<1>2. Children(p) \subseteq DOMAIN w
  BY AuthorityExists DEF SiblingsLive, Children
<1>3. DOMAIN v = rest \cup {p}
  BY DEF Merge
<1>4. IsFiniteSet(Children(p)) /\ Cardinality(Children(p)) = 8
  BY <1>1, EightChildren
<1>5. /\ IsFiniteSet(DOMAIN w) /\ Cardinality(DOMAIN w) \in Nat
      /\ IsFiniteSet(rest) /\ Cardinality(rest) \in Nat
      /\ Cardinality(rest) = Cardinality(DOMAIN w) - 8
  <2>1. DOMAIN w \cap Children(p) = Children(p)
    BY <1>2
  <2>2. IsFiniteSet(DOMAIN w) /\ IsFiniteSet(rest)
    BY FS_Difference DEF Fits
  <2>3. Cardinality(rest) = Cardinality(DOMAIN w) - Cardinality(Children(p))
    BY <2>1, <2>2, FS_Difference
  <2> QED BY <1>4, <2>2, <2>3, FS_CardinalityType
<1>6. Cardinality(DOMAIN v) <= Cardinality(DOMAIN w) - 7 /\ Cardinality(DOMAIN v) \in Nat
  <2> HIDE DEF rest, v
  <2>1. Cardinality(rest \cup {p}) = IF p \in rest THEN Cardinality(rest) ELSE Cardinality(rest) + 1
    BY <1>5, FS_AddElement
  <2> QED BY <1>3, <1>5, <2>1
<1>7. SplitCells(w) \ {p} \subseteq SplitCells(v)
  <2> SUFFICES ASSUME NEW b \in SplitCells(w), b # p, NEW s \in DOMAIN v, Within(b, s)
               PROVE  FALSE
    BY DEF SplitCells
  <2>1. CASE s \in rest
    BY <2>1 DEF SplitCells
  <2>2. CASE s = p
    <3>1. b \in Ranges /\ IsCell(b)
      BY BitsAssumption DEF SplitCells, BranchingCells, HasChildren, IsCell
    <3>2. PICK i \in Octant : Within(b, Child(p, i))
      BY <2>2, <3>1, CellsNest
    <3>3. Child(p, i) \in DOMAIN w
      BY <1>2 DEF Children
    <3> QED BY <3>2, <3>3 DEF SplitCells
  <2> QED BY <1>3, <2>1, <2>2
<1>8. Cardinality(SplitCells(w)) <= Cardinality(SplitCells(v)) + 1
  <2> HIDE DEF v
  <2>1. SplitCells(w) \ {p} \in SUBSET SplitCells(v)
    BY <1>7
  <2>2. Cardinality(SplitCells(w) \ {p}) <= Cardinality(SplitCells(v))
    BY <2>1, SplitCellsFinite, FS_Subset
  <2>3. Cardinality(SplitCells(w) \ {p}) =
          IF p \in SplitCells(w) THEN Cardinality(SplitCells(w)) - 1
          ELSE Cardinality(SplitCells(w))
    BY SplitCellsFinite, FS_RemoveElement
  <2> QED BY <2>2, <2>3, SplitCellsFinite
<1>9. Cardinality(SplitCells(w)) \in Nat /\ Cardinality(SplitCells(v)) \in Nat
  BY SplitCellsFinite
<1> HIDE DEF v
<1> QED BY <1>5, <1>6, <1>8, <1>9 DEF v

-----------------------------------------------------------------------------
(* The inductive invariant: records are filed under reported positions,    *)
(* and the live zones are one, plus seven for each cell that is split.     *)
Counted(w) == Cardinality(DOMAIN w) <= 1 + 7 * Cardinality(SplitCells(w))
CInv == AtPositions(zones) /\ Counted(zones)

(* A world with the same zones has the same count. *)
LEMMA SameZonesCount ==
  ASSUME NEW w, NEW v, DOMAIN v = DOMAIN w, Counted(w)
  PROVE  Counted(v)
BY DEF Counted, SplitCells

(* A move files its entity under the position it reports. *)
LEMMA MoveAtPositions ==
  ASSUME NEW w, AtPositions(w), NEW c, NEW idx \in Positions
  PROVE  AtPositions(MoveEntityToIndex(w, c, idx))
<1> DEFINE v == MoveEntityToIndex(w, c, idx)
<1>1. DOMAIN v = DOMAIN w
  BY DEF MoveEntityToIndex, RemoveEntity
<1>2. \A r \in DOMAIN w : \A rec \in v[r] : rec \in w[r] \/ rec = Record(c, idx)
  BY DEF MoveEntityToIndex, RemoveEntity, SubEntity, UnsubEntity
<1>3. Record(c, idx).idx = idx
  BY DEF Record
<1> HIDE DEF v
<1> QED BY <1>1, <1>2, <1>3 DEF AtPositions, v

(* fanout_entity_move: the zone that is split branches. *)
LEMMA EntityMoveCInv ==
  ASSUME NEW c \in Conn, NEW idx \in Positions, IInv, CInv, EntityMove(c, idx)
  PROVE  CInv'
<1> DEFINE w == MoveEntityToIndex(zones, c, idx)
           r == AuthorityForIndex(w, idx)
<1>1. Sound(w) /\ Fits(w) /\ DOMAIN w = DOMAIN zones
  BY MoveSound, MoveFits, PositionsAssumption DEF IInv
<1>2. AtPositions(w) /\ Counted(w)
  BY <1>1, MoveAtPositions, SameZonesCount DEF CInv
<1>3. zones' = RebalanceAfterMove(w, idx)
  BY DEF EntityMove
<1> HIDE DEF w
<1>4. CASE Owned(w, idx) /\ HasChildren(r) /\ ShouldSplit(w[r], r)
  <2>1. r \in DOMAIN w
    BY <1>4, AuthorityExists
  <2>2. zones' = Split(w, r)
    BY <1>3, <1>4 DEF RebalanceAfterMove, MaybeSplitZone
  <2>3. r \in BranchingCells
    BY <1>1, <1>2, <1>4, <2>1, SplitNeedsBranching
  <2>4. Counted(Split(w, r))
    BY <1>1, <1>2, <2>1, <2>3, SplitCounts DEF Counted
  <2>5. AtPositions(Split(w, r))
    <3>1. \A s \in DOMAIN Split(w, r) :
            Split(w, r)[s] \subseteq w[r] \/ (s \in DOMAIN w /\ Split(w, r)[s] = w[s])
      BY DEF Split, InRange
    <3> QED BY <1>2, <2>1, <3>1 DEF AtPositions
  <2>6. CInv' <=> AtPositions(zones') /\ Counted(zones')
    BY DEF CInv, AtPositions, Counted, SplitCells
  <2> QED BY <2>2, <2>4, <2>5, <2>6
<1>5. CASE ~ (Owned(w, idx) /\ HasChildren(r) /\ ShouldSplit(w[r], r))
  <2>1. zones' = w
    BY <1>3, <1>5 DEF RebalanceAfterMove, MaybeSplitZone
  <2>2. CInv' <=> AtPositions(zones') /\ Counted(zones')
    BY DEF CInv, AtPositions, Counted, SplitCells
  <2> QED BY <1>2, <2>1, <2>2
<1> QED BY <1>4, <1>5

(* fanout_entity_remove: the parent that is merged into is a cell. *)
LEMMA EntityRemoveCInv ==
  ASSUME NEW c \in Conn, IInv, CInv, EntityRemove(c)
  PROVE  CInv'
<1> DEFINE w == RemoveEntity(zones, c)
           r == CHOOSE x \in HomeOf(zones, c) : TRUE
           p == ParentRange(r)
<1>1. Sound(w) /\ Fits(w) /\ DOMAIN w = DOMAIN zones
  BY RemoveSound, RemoveFits DEF IInv
<1>2. AtPositions(w)
  <2>1. \A s \in DOMAIN zones : w[s] \subseteq zones[s]
    BY DEF RemoveEntity, UnsubEntity
  <2> QED BY <1>1, <2>1 DEF CInv, AtPositions
<1>3. Counted(w)
  BY <1>1, SameZonesCount DEF CInv
<1>4. CInv' <=> AtPositions(zones') /\ Counted(zones')
  BY DEF CInv, AtPositions, Counted, SplitCells
<1>5. CASE zones' = w
  BY <1>2, <1>3, <1>4, <1>5
<1>6. CASE zones' # w
  <2>1. HomeOf(zones, c) # {} /\ zones' = MaybeMergeSiblings(w, r)
    BY <1>6 DEF EntityRemove
  <2>2. r \in DOMAIN w
    BY <1>1, <2>1 DEF HomeOf
  <2>3. r \in Ranges
    BY <1>1, <2>2 DEF Sound, Typed
  <2> HIDE DEF w, r
  <2>4. HasParent(r) /\ zones' = Merge(w, p) /\ SiblingsLive(w, p)
    BY <1>6, <2>1 DEF MaybeMergeSiblings, ShouldMerge
  <2>5. p \in Ranges /\ HasChildren(p)
    BY <2>3, <2>4, ParentLength, ParentIsCell
  <2> HIDE DEF p
  <2>6. Counted(Merge(w, p))
    BY <1>1, <1>3, <2>4, <2>5, MergeCounts DEF Counted
  <2>7. Children(p) \subseteq DOMAIN w
    BY <2>4, AuthorityExists DEF SiblingsLive, Children
  <2>8. AtPositions(Merge(w, p))
    <3>1. \A s \in DOMAIN Merge(w, p) : \A rec \in Merge(w, p)[s] :
            \E t \in DOMAIN w : rec \in w[t]
      BY <2>7 DEF Merge, SiblingEntities
    <3> QED BY <1>2, <3>1 DEF AtPositions
  <2> QED BY <1>4, <2>4, <2>6, <2>8
<1> QED BY <1>5, <1>6

(* The bootstrap world has one zone and no record. *)
LEMMA InitCInv == Init => CInv
<1> SUFFICES ASSUME Init PROVE CInv
  OBVIOUS
<1>1. DOMAIN zones = {Root} /\ zones[Root] = {}
  BY DEF Init
<1>2. Cardinality(DOMAIN zones) = 1
  BY <1>1, FS_Singleton
<1>3. Cardinality(SplitCells(zones)) \in Nat
  BY SplitCellsFinite
<1> QED BY <1>1, <1>2, <1>3 DEF CInv, AtPositions, Counted

(* Without a host that allocates zones of its own, the invariant holds. *)
LEMMA ZonesCounted ==
  ASSUME HostRanges = {}
  PROVE  Spec => []CInv
<1>1. IInv /\ CInv /\ [Next]_vars => CInv'
  <2> SUFFICES ASSUME IInv, CInv, [Next]_vars PROVE CInv'
    OBVIOUS
  <2>1. CASE UNCHANGED vars
    BY <2>1 DEF vars, CInv, AtPositions, Counted, SplitCells
  <2>2. CASE Next
    <3>1. PICK c \in Conn : EntityRemove(c) \/ \E idx \in Positions : EntityMove(c, idx)
      BY <2>2 DEF Next
    <3> QED BY <3>1, EntityRemoveCInv, EntityMoveCInv
  <2> QED BY <2>1, <2>2
<1> QED BY <1>1, InitCInv, WorldSound, PTL DEF Spec

(* The live zones never outnumber one plus seven for each branching cell,  *)
(* whatever the slot map would allow: splits follow the reported positions,*)
(* never the number of entities alone.                                     *)
THEOREM ZonesBounded ==
  ASSUME HostRanges = {}
  PROVE  Spec => [](Cardinality(DOMAIN zones) <= 1 + 7 * Cardinality(BranchingCells))
<1>1. IInv /\ CInv => Cardinality(DOMAIN zones) <= 1 + 7 * Cardinality(BranchingCells)
  <2> SUFFICES ASSUME IInv, CInv
               PROVE  Cardinality(DOMAIN zones) <= 1 + 7 * Cardinality(BranchingCells)
    OBVIOUS
  <2>1. Cardinality(DOMAIN zones) \in Nat
    BY FS_CardinalityType DEF IInv, Fits
  <2> QED BY <2>1, SplitCellsFinite, BranchingFinite DEF CInv, Counted
<1> QED BY <1>1, ZonesCounted, WorldSound, PTL

(* A slot map with a slot for each of those zones is never short of slots: *)
(* the split that a move causes finds the seven it needs.                  *)
THEOREM SplitsFindSlots ==
  ASSUME HostRanges = {}, Capacity >= 1 + 7 * Cardinality(BranchingCells)
  PROVE  Spec => []SplitsFit
<1>1. IInv /\ CInv => SplitsFit
  <2> SUFFICES ASSUME IInv, CInv, NEW c \in Conn, NEW idx \in Positions
               PROVE  LET w == MoveEntityToIndex(zones, c, idx)
                          r == AuthorityForIndex(w, idx)
                      IN  Owned(w, idx) /\ HasChildren(r) /\ ShouldSplit(w[r], r) =>
                            Cardinality(DOMAIN w) + 7 <= Capacity
    BY DEF SplitsFit
  <2> DEFINE w == MoveEntityToIndex(zones, c, idx)
             r == AuthorityForIndex(w, idx)
  <2>1. Sound(w) /\ Fits(w) /\ DOMAIN w = DOMAIN zones
    BY MoveSound, MoveFits, PositionsAssumption DEF IInv
  <2>2. AtPositions(w) /\ Counted(w)
    BY <2>1, MoveAtPositions, SameZonesCount DEF CInv
  <2> HIDE DEF w
  <2> SUFFICES ASSUME Owned(w, idx), HasChildren(r), ShouldSplit(w[r], r)
               PROVE  Cardinality(DOMAIN w) + 7 <= Capacity
    BY DEF w
  <2>3. r \in DOMAIN w
    BY AuthorityExists
  <2>4. r \in BranchingCells /\ r \in Ranges
    BY <2>1, <2>2, <2>3, SplitNeedsBranching DEF BranchingCells
  <2>5. r \notin SplitCells(w)
    <3>1. Within(r, r)
      BY <2>4 DEF Within, Ranges
    <3> QED BY <2>3, <3>1 DEF SplitCells
  <2> HIDE DEF r
  <2>6. SplitCells(w) \in SUBSET (BranchingCells \ {r})
    BY <2>5 DEF SplitCells
  <2>7. /\ IsFiniteSet(BranchingCells \ {r})
        /\ Cardinality(BranchingCells \ {r}) = Cardinality(BranchingCells) - 1
    BY <2>4, BranchingFinite, FS_RemoveElement
  <2>8. Cardinality(SplitCells(w)) <= Cardinality(BranchingCells) - 1
    BY <2>6, <2>7, FS_Subset
  <2>9. Cardinality(DOMAIN w) \in Nat
    BY <2>1, FS_CardinalityType DEF Fits
  <2> QED BY <2>2, <2>8, <2>9, SplitCellsFinite, BranchingFinite, CapacityAssumption
          DEF Counted
<1> QED BY <1>1, ZonesCounted, WorldSound, PTL

(* With those slots nobody is lost, somebody else's step moves nobody, and *)
(* every index keeps its authority.                                        *)
THEOREM RoomyWorldKeepsAll ==
  ASSUME HostRanges = {}, Capacity >= 1 + 7 * Cardinality(BranchingCells)
  PROVE  Spec => NoEntityVanishes /\ BystandersStay /\ []WorldTiled
BY SplitsFindSlots, EntitiesKept, BystandersUndisturbed, WorldStaysTiled, PTL

-----------------------------------------------------------------------------
(***************************************************************************)
(* Split and merge undo each other, and no step leaves the world so that   *)
(* the step's own rebalancing would be undone at once: zones do not flap   *)
(* between one range and its eight parts.                                  *)
(***************************************************************************)

(* A nonempty child lies in its range and is shorter, whatever the range.  *)
LEMMA ChildInside ==
  ASSUME NEW p \in Ranges, NEW i \in Octant, Child(p, i) \in Ranges
  PROVE  /\ Within(Child(p, i), p)
         /\ Child(p, i).stop - Child(p, i).start < p.stop - p.start
<1> DEFINE len == (p.stop - p.start) \div 8
<1>1. p.start \in Nat /\ p.stop \in Nat /\ p.start < p.stop
  BY DEF Ranges
<1>2. len \in Nat /\ 8 * len <= p.stop - p.start
  BY <1>1
<1>3. Child(p, i) = [start |-> p.start + i * len, stop |-> p.start + (i + 1) * len]
  BY DEF Child, ZoneRange
<1> HIDE DEF len
<1>4. i \in {0, 1, 2, 3, 4, 5, 6, 7}
  BY DEF Octant
<1>5. p.start + i * len < p.start + (i + 1) * len
  BY <1>3 DEF Ranges
<1>6. len > 0
  BY <1>1, <1>2, <1>4, <1>5
<1>7. /\ p.start <= p.start + i * len
      /\ p.start + (i + 1) * len <= p.stop
      /\ (p.start + (i + 1) * len) - (p.start + i * len) < p.stop - p.start
  BY <1>1, <1>2, <1>4, <1>6
<1> QED BY <1>3, <1>7 DEF Within

(* A live zone that lies in another range overlaps it. *)
LEMMA WithinOverlaps ==
  ASSUME NEW b \in Ranges, NEW r \in Ranges, Within(b, r)
  PROVE  Overlaps(b, r) /\ Overlaps(r, b)
BY DEF Within, Overlaps, Ranges

(* What a split with its slots makes. *)
LEMMA FullSplit ==
  ASSUME NEW w, Sound(w), NEW r \in DOMAIN w, HasChildren(r),
         Capacity - Cardinality(DOMAIN w \ {r}) \in Nat,
         Capacity - Cardinality(DOMAIN w \ {r}) >= 8
  PROVE  /\ Split(w, r) = [s \in (DOMAIN w \ {r}) \cup Children(r) |->
                             IF s \in DOMAIN w \ {r} THEN w[s] ELSE InRange(w[r], s)]
         /\ \A i \in Octant : Child(r, i) \notin DOMAIN w
<1> DEFINE rest == DOMAIN w \ {r}
           slots == Capacity - Cardinality(rest)
<1>1. r \in Ranges
  BY DEF Sound, Typed
<1>2. PICK n \in Nat \ {0} : r.stop - r.start = 8 * n
  BY <1>1, SplitLength
<1>3. {j \in Octant : j < slots} = Octant
  <2> HIDE DEF slots
  <2> QED BY DEF Octant, slots
<1>4. Split(w, r) = [s \in rest \cup Children(r) |->
                       IF s \in rest THEN w[s] ELSE InRange(w[r], s)]
  BY <1>3 DEF Split, Children
<1>5. ASSUME NEW i \in Octant PROVE Child(r, i) \notin DOMAIN w
  <2>1. Overlaps(r, Child(r, i)) /\ Child(r, i) \in Ranges
    BY <1>1, <1>2, ChildOverlaps, ChildBounds
  <2>2. Child(r, i) # r
    BY <1>1, <2>1, ChildInside DEF Ranges
  <2> QED BY <2>1, <2>2 DEF Sound, Disjoint
<1> QED BY <1>4, <1>5

(* The entities of the eight children of a complete split are the zone's. *)
LEMMA SplitSiblings ==
  ASSUME NEW w, Sound(w), NEW r \in DOMAIN w, HasChildren(r),
         Capacity - Cardinality(DOMAIN w \ {r}) \in Nat,
         Capacity - Cardinality(DOMAIN w \ {r}) >= 8
  PROVE  SiblingEntities(Split(w, r), r) = w[r]
<1> DEFINE v == Split(w, r)
<1>1. r \in Ranges
  BY DEF Sound, Typed
<1>2. PICK n \in Nat \ {0} : r.stop - r.start = 8 * n
  BY <1>1, SplitLength
<1>3. \A i \in Octant : v[Child(r, i)] = InRange(w[r], Child(r, i))
  <2>1. /\ v = [s \in (DOMAIN w \ {r}) \cup Children(r) |->
                  IF s \in DOMAIN w \ {r} THEN w[s] ELSE InRange(w[r], s)]
        /\ \A i \in Octant : Child(r, i) \notin DOMAIN w
    BY FullSplit
  <2> HIDE DEF v
  <2>2. \A i \in Octant : Child(r, i) \in Children(r)
    BY DEF Children
  <2> QED BY <2>1, <2>2
<1> HIDE DEF v
<1>4. ASSUME NEW rec \in w[r] PROVE rec \in SiblingEntities(v, r)
  <2>1. Contains(r, rec.idx) /\ rec.idx \in Int
    BY RecordIndex DEF Sound, Filed, Typed
  <2>2. PICK i \in Octant : Contains(Child(r, i), rec.idx)
    BY <1>1, <1>2, <2>1, ChildrenContain
  <2>3. rec \in v[Child(r, i)]
    BY <1>3, <2>2 DEF InRange
  <2> QED BY <2>3 DEF SiblingEntities, Children
<1>5. ASSUME NEW rec \in SiblingEntities(v, r) PROVE rec \in w[r]
  <2>1. PICK i \in Octant : rec \in v[Child(r, i)]
    BY DEF SiblingEntities, Children
  <2> QED BY <1>3, <2>1 DEF InRange
<1> QED BY <1>4, <1>5 DEF v

(* Merging what a complete split made gives back the world before it, with *)
(* every record in the zone it was in.                                     *)
THEOREM MergeUndoesSplit ==
  ASSUME NEW w, Sound(w), Fits(w), NEW r \in DOMAIN w, HasChildren(r),
         Cardinality(DOMAIN w) + 7 <= Capacity
  PROVE  Merge(Split(w, r), r) = w
<1> DEFINE rest == DOMAIN w \ {r}
           v == Split(w, r)
           u == Merge(v, r)
<1>1. Capacity - Cardinality(rest) \in Nat /\ Capacity - Cardinality(rest) >= 8
  <2>1. /\ Cardinality(rest) = Cardinality(DOMAIN w) - 1
        /\ Cardinality(DOMAIN w) \in Nat
    BY SplitSlots, FS_CardinalityType DEF Fits
  <2> QED BY <2>1, CapacityAssumption
<1>2. /\ v = [s \in rest \cup Children(r) |-> IF s \in rest THEN w[s] ELSE InRange(w[r], s)]
      /\ \A i \in Octant : Child(r, i) \notin DOMAIN w
  BY <1>1, FullSplit
<1>3. SiblingEntities(v, r) = w[r]
  BY <1>1, SplitSiblings
<1>4. DOMAIN v = rest \cup Children(r) /\ \A s \in rest : v[s] = w[s]
  BY <1>2
<1>5. \A s \in Children(r) : s \notin DOMAIN w
  BY <1>2 DEF Children
<1> HIDE DEF v
<1>6. (DOMAIN v \ Children(r)) \cup {r} = DOMAIN w
  BY <1>4, <1>5
<1>7. u = [s \in DOMAIN w |-> IF s = r THEN w[r] ELSE v[s]]
  BY <1>3, <1>6 DEF Merge
<1>8. \A s \in DOMAIN w : (IF s = r THEN w[r] ELSE v[s]) = w[s]
  BY <1>4
<1>9. w = [s \in DOMAIN w |-> w[s]]
  BY DEF Sound, Typed
<1>10. u = [s \in DOMAIN w |-> w[s]]
  <2> HIDE DEF u
  <2> QED BY <1>7, <1>8
<1> QED BY <1>9, <1>10 DEF v

(* Splitting what a merge of eight live siblings made gives back the world *)
(* before it; the slots the merge freed are enough, however full the slot  *)
(* map was.                                                                *)
THEOREM SplitUndoesMerge ==
  ASSUME NEW w, Sound(w), Fits(w), NEW p \in Ranges, HasChildren(p), SiblingsLive(w, p)
  PROVE  Split(Merge(w, p), p) = w
<1> DEFINE rest == DOMAIN w \ Children(p)
           v == Merge(w, p)
<1>1. PICK n \in Nat \ {0} : p.stop - p.start = 8 * n
  BY SplitLength
<1>2. Children(p) \subseteq DOMAIN w
  BY AuthorityExists DEF SiblingsLive, Children
<1>3. Sound(v)
  BY <1>1, MergeSound
<1>4. p \in DOMAIN v /\ v[p] = SiblingEntities(w, p) /\ DOMAIN v = rest \cup {p}
      /\ \A s \in rest : s # p => v[s] = w[s]
  BY DEF Merge
<1>5. p \notin rest
  <2>1. 0 \in Octant
    BY DEF Octant
  <2>2. Overlaps(p, Child(p, 0)) /\ Child(p, 0) \in Children(p)
    BY <1>1, <2>1, ChildOverlaps DEF Children
  <2> QED BY <1>2, <2>2 DEF Sound, Disjoint
<1>6. DOMAIN v \ {p} = rest
  BY <1>4, <1>5
<1>7. Capacity - Cardinality(rest) \in Nat /\ Capacity - Cardinality(rest) >= 8
  <2>1. IsFiniteSet(Children(p)) /\ Cardinality(Children(p)) = 8
    BY <1>1, EightChildren
  <2>2. DOMAIN w \cap Children(p) = Children(p)
    BY <1>2
  <2>3. Cardinality(rest) = Cardinality(DOMAIN w) - Cardinality(Children(p))
    BY <2>2, FS_Difference DEF Fits
  <2>4. Cardinality(DOMAIN w) \in Nat /\ Cardinality(DOMAIN w) <= Capacity
    BY FS_CardinalityType DEF Fits
  <2> QED BY <2>1, <2>3, <2>4, CapacityAssumption
<1>8. Split(v, p) = [s \in rest \cup Children(p) |->
                       IF s \in rest THEN v[s] ELSE InRange(v[p], s)]
  <2> HIDE DEF v, rest
  <2>1. Capacity - Cardinality(DOMAIN v \ {p}) \in Nat
        /\ Capacity - Cardinality(DOMAIN v \ {p}) >= 8
    BY <1>6, <1>7
  <2>2. Split(v, p) = [s \in (DOMAIN v \ {p}) \cup Children(p) |->
                         IF s \in DOMAIN v \ {p} THEN v[s] ELSE InRange(v[p], s)]
    BY <1>3, <1>4, <2>1, FullSplit
  <2> QED BY <1>6, <2>2
<1>9. rest \cup Children(p) = DOMAIN w
  BY <1>2
<1>10. \A s \in Children(p) : InRange(v[p], s) = w[s]
  <2> SUFFICES ASSUME NEW s \in Children(p) PROVE InRange(v[p], s) = w[s]
    OBVIOUS
  <2>1. ASSUME NEW rec \in w[s] PROVE rec \in InRange(v[p], s)
    <3>1. Contains(s, rec.idx)
      BY <1>2 DEF Sound, Filed
    <3>2. rec \in SiblingEntities(w, p)
      BY DEF SiblingEntities
    <3> QED BY <1>4, <3>1, <3>2 DEF InRange
  <2>2. ASSUME NEW rec \in InRange(v[p], s) PROVE rec \in w[s]
    <3>1. PICK t \in Children(p) : rec \in w[t]
      BY <1>4 DEF InRange, SiblingEntities
    <3>2. Contains(s, rec.idx) /\ Contains(t, rec.idx)
      BY <1>2, <3>1 DEF InRange, Sound, Filed
    <3>3. s \in DOMAIN w /\ t \in DOMAIN w /\ s \in Ranges /\ t \in Ranges /\ rec.idx \in Int
      BY <1>2, <3>1, RecordIndex DEF Sound, Typed
    <3>4. Overlaps(s, t)
      BY <3>2, <3>3 DEF Contains, Overlaps, Ranges
    <3>5. s = t
      BY <3>3, <3>4 DEF Sound, Disjoint
    <3> QED BY <3>1, <3>5
  <2> QED BY <2>1, <2>2
<1> HIDE DEF v
<1>11. \A s \in DOMAIN w : (IF s \in rest THEN v[s] ELSE InRange(v[p], s)) = w[s]
  BY <1>4, <1>5, <1>10
<1>12. Split(v, p) = [s \in DOMAIN w |-> w[s]]
  <2> HIDE DEF rest
  <2> QED BY <1>8, <1>9, <1>11
<1> QED BY <1>12 DEF v, Sound, Typed

(* The children of a zone that was just split, completely or not, are not  *)
(* due for a merge.                                                        *)
LEMMA SplitNotMerged ==
  ASSUME NEW w, Sound(w), Fits(w), NEW r \in DOMAIN w, HasChildren(r),
         ShouldSplit(w[r], r)
  PROVE  ~ ShouldMerge(Split(w, r), r)
<1> DEFINE rest == DOMAIN w \ {r}
           slots == Capacity - Cardinality(rest)
           made == {Child(r, i) : i \in {j \in Octant : j < slots}}
<1>1. slots \in Nat
  BY SplitSlots
<1>2. CASE slots >= 8
  <2>1. SiblingEntities(Split(w, r), r) = w[r]
    BY <1>1, <1>2, SplitSiblings
  <2> QED BY <2>1 DEF ShouldMerge
<1>3. CASE ~ (slots >= 8)
  <2>1. r \in Ranges
    BY DEF Sound, Typed
  <2>2. PICK n \in Nat \ {0} : r.stop - r.start = 8 * n
    BY <2>1, SplitLength
  <2>3. 7 \in Octant /\ \A j \in Octant : j < slots => j < 7
    <3> HIDE DEF slots
    <3> QED BY <1>1, <1>3 DEF Octant
  <2>4. Child(r, 7) \in Ranges /\ Overlaps(r, Child(r, 7)) /\ Overlaps(Child(r, 7), Child(r, 7))
    BY <2>1, <2>2, <2>3, ChildBounds, ChildOverlaps DEF Overlaps, Ranges
  <2>5. Child(r, 7) \notin rest
    BY <2>4 DEF Sound, Disjoint
  <2>6. Child(r, 7) \notin made
    <3> SUFFICES ASSUME NEW j \in Octant, j < slots, Child(r, 7) = Child(r, j)
                 PROVE  FALSE
      OBVIOUS
    <3>1. ~ Overlaps(Child(r, j), Child(r, 7))
      BY <2>1, <2>2, <2>3, ChildrenDisjoint
    <3> QED BY <2>4, <3>1
  <2>7. DOMAIN Split(w, r) = rest \cup made
    BY DEF Split
  <2> QED BY <2>3, <2>5, <2>6, <2>7, AuthorityExists DEF ShouldMerge, SiblingsLive
<1> QED BY <1>2, <1>3

(* Of a range that is not live but lay in, or was, a live one, no merge is *)
(* due: its first child would overlap that live zone.                      *)
LEMMA NoMergeInside ==
  ASSUME NEW w, Sound(w), NEW r \in Ranges, NEW p \in DOMAIN w, Within(r, p)
  PROVE  ~ ShouldMerge(w, r)
<1> SUFFICES ASSUME ShouldMerge(w, r) PROVE FALSE
  OBVIOUS
<1> DEFINE s == Child(r, 0)
<1>1. 0 \in Octant
  BY DEF Octant
<1>2. s \in DOMAIN w /\ s \in Ranges /\ p \in Ranges
  BY <1>1, AuthorityExists DEF ShouldMerge, SiblingsLive, Sound, Typed
<1>3. Within(s, r) /\ s.stop - s.start < r.stop - r.start
  BY <1>1, <1>2, ChildInside
<1> HIDE DEF s
<1>4. Within(s, p) /\ s # p
  BY <1>2, <1>3 DEF Within, Ranges
<1> QED BY <1>2, <1>4, WithinOverlaps DEF Sound, Disjoint

(* A zone that goes in a step is not due to come back by a merge, and a    *)
(* zone that a merge made in a step is not due to be split.                *)
StepsSettle ==
  [][/\ \A r \in DOMAIN zones \ DOMAIN zones' : ~ ShouldMerge(zones', r)
     /\ \A p \in DOMAIN zones' \ DOMAIN zones :
          Children(p) \cap DOMAIN zones # {} => ~ ShouldSplit(zones'[p], p)]_vars

(* A zone that a step leaves live contains no other live zone's child. *)
LEMMA NoLiveChild ==
  ASSUME NEW w, Sound(w), NEW q \in DOMAIN w, NEW p \in Ranges, Within(p, q)
  PROVE  Children(p) \cap DOMAIN w = {}
<1> SUFFICES ASSUME NEW i \in Octant, Child(p, i) \in DOMAIN w PROVE FALSE
  BY DEF Children
<1>1. Child(p, i) \in Ranges /\ q \in Ranges
  BY DEF Sound, Typed
<1>2. Within(Child(p, i), p) /\ Child(p, i).stop - Child(p, i).start < p.stop - p.start
  BY <1>1, ChildInside
<1>3. Within(Child(p, i), q) /\ Child(p, i) # q
  BY <1>1, <1>2 DEF Within, Ranges
<1> QED BY <1>1, <1>3, WithinOverlaps DEF Sound, Disjoint

(* A move: the zone that goes was split because that was cheaper, and the  *)
(* ones that come are parts of it.                                         *)
LEMMA EntityMoveSettles ==
  ASSUME NEW c \in Conn, NEW idx \in Positions, IInv, EntityMove(c, idx)
  PROVE  /\ \A r \in DOMAIN zones \ DOMAIN zones' : ~ ShouldMerge(zones', r)
         /\ \A p \in DOMAIN zones' \ DOMAIN zones : Children(p) \cap DOMAIN zones = {}
<1> DEFINE w == MoveEntityToIndex(zones, c, idx)
           q == AuthorityForIndex(w, idx)
<1>1. Sound(w) /\ Fits(w) /\ DOMAIN w = DOMAIN zones
  BY MoveSound, MoveFits, PositionsAssumption DEF IInv
<1>2. zones' = RebalanceAfterMove(w, idx)
  BY DEF EntityMove
<1> HIDE DEF w
<1>3. CASE Owned(w, idx) /\ HasChildren(q) /\ ShouldSplit(w[q], q)
  <2>1. q \in DOMAIN w /\ q \in Ranges
    BY <1>1, <1>3, AuthorityExists DEF Sound, Typed
  <2>2. zones' = Split(w, q)
    BY <1>2, <1>3 DEF RebalanceAfterMove, MaybeSplitZone
  <2>3. ~ ShouldMerge(zones', q)
    BY <1>1, <1>3, <2>1, <2>2, SplitNotMerged
  <2>4. /\ DOMAIN w \ {q} \subseteq DOMAIN zones'
        /\ \A p \in DOMAIN zones' : p \notin DOMAIN w => \E i \in Octant : p = Child(q, i)
    BY <2>2 DEF Split
  <2>5. PICK n \in Nat \ {0} : q.stop - q.start = 8 * n
    BY <1>3, <2>1, SplitLength
  <2>6. \A i \in Octant : Child(q, i) \in Ranges /\ Within(Child(q, i), q)
    BY <2>1, <2>5, ChildBounds DEF Within
  <2> HIDE DEF q
  <2>7. \A p \in DOMAIN zones' \ DOMAIN zones : Children(p) \cap DOMAIN zones = {}
    BY <1>1, <2>1, <2>4, <2>6, NoLiveChild
  <2> QED BY <1>1, <2>3, <2>4, <2>7
<1>4. CASE ~ (Owned(w, idx) /\ HasChildren(q) /\ ShouldSplit(w[q], q))
  <2>1. zones' = w
    BY <1>2, <1>4 DEF RebalanceAfterMove, MaybeSplitZone
  <2> QED BY <1>1, <2>1
<1> QED BY <1>3, <1>4

(* A removal: the zones that go lie in the parent that comes, which is not *)
(* worth splitting.                                                        *)
LEMMA EntityRemoveSettles ==
  ASSUME NEW c \in Conn, IInv, IInv', EntityRemove(c)
  PROVE  /\ \A r \in DOMAIN zones \ DOMAIN zones' : ~ ShouldMerge(zones', r)
         /\ \A p \in DOMAIN zones' \ DOMAIN zones : ~ ShouldSplit(zones'[p], p)
<1> DEFINE w == RemoveEntity(zones, c)
           x == CHOOSE y \in HomeOf(zones, c) : TRUE
           q == ParentRange(x)
<1>1. Sound(w) /\ DOMAIN w = DOMAIN zones
  BY RemoveSound DEF IInv
<1>2. Sound(zones')
  BY DEF IInv
<1>3. CASE zones' = w
  BY <1>1, <1>3
<1>4. CASE zones' # w
  <2>1. HomeOf(zones, c) # {} /\ zones' = MaybeMergeSiblings(w, x)
    BY <1>4 DEF EntityRemove
  <2>2. x \in Ranges
    BY <2>1 DEF HomeOf, IInv, Sound, Typed
  <2> HIDE DEF w, x
  <2>3. zones' = Merge(w, q) /\ ShouldMerge(w, q)
    BY <1>4, <2>1 DEF MaybeMergeSiblings
  <2>4. q \in Ranges
    BY <2>2, ParentLength
  <2>5. PICK n \in Nat \ {0} : q.stop - q.start = 8 * n
    BY <2>2, ParentLength
  <2> HIDE DEF q
  <2>6. /\ DOMAIN zones' = (DOMAIN w \ Children(q)) \cup {q}
        /\ zones'[q] = SiblingEntities(w, q)
    BY <2>3 DEF Merge
  <2>7. ~ ShouldSplit(zones'[q], q)
    BY <2>3, <2>6 DEF ShouldMerge
  <2>8. \A r \in Children(q) : r \in Ranges /\ Within(r, q)
    BY <2>4, <2>5, ChildBounds DEF Children, Within
  <2>9. \A r \in DOMAIN zones \ DOMAIN zones' : ~ ShouldMerge(zones', r)
    BY <1>1, <1>2, <2>6, <2>8, NoMergeInside
  <2> QED BY <1>1, <2>6, <2>7, <2>9
<1> QED BY <1>3, <1>4

(* No step leaves its own rebalancing to be undone: split and merge use    *)
(* one cost on the same entities, a split cut short for want of slots      *)
(* leaves too few siblings to merge, and removals that merge leave a zone  *)
(* that is not worth splitting (maybeSplitZone, maybeMergeSiblings).       *)
THEOREM NoFlapping == Spec => StepsSettle
<1> DEFINE Settles ==
      /\ \A r \in DOMAIN zones \ DOMAIN zones' : ~ ShouldMerge(zones', r)
      /\ \A p \in DOMAIN zones' \ DOMAIN zones :
           Children(p) \cap DOMAIN zones # {} => ~ ShouldSplit(zones'[p], p)
<1>1. IInv /\ [Next]_vars => [Settles]_vars
  <2> SUFFICES ASSUME IInv, [Next]_vars PROVE Settles
    OBVIOUS
  <2>1. IInv'
    BY NextIInv
  <2>2. CASE UNCHANGED vars
    BY <2>2 DEF vars
  <2>3. ASSUME NEW c \in Conn, EntityRemove(c) PROVE Settles
    BY <2>1, <2>3, EntityRemoveSettles
  <2>4. ASSUME NEW c \in Conn, NEW idx \in Positions, EntityMove(c, idx) PROVE Settles
    BY <2>4, EntityMoveSettles
  <2>5. ASSUME NEW x \in HostRanges, ZoneAlloc(x) PROVE Settles
    <3>1. DOMAIN zones' = DOMAIN zones \cup {x} /\ x \in Ranges
      BY <2>5, HostRangesAssumption DEF ZoneAlloc
    <3>2. x \in DOMAIN zones' /\ Within(x, x) /\ Sound(zones')
      BY <2>1, <3>1 DEF IInv, Within, Ranges
    <3>3. Children(x) \cap DOMAIN zones' = {}
      BY <3>1, <3>2, NoLiveChild
    <3> QED BY <3>1, <3>3
  <2>6. ASSUME NEW x \in HostRanges, ZoneFree(x) PROVE Settles
    <3>1. DOMAIN zones' = DOMAIN zones \ {x} /\ x \in DOMAIN zones /\ x \in Ranges
      BY <2>6, HostRangesAssumption DEF ZoneFree
    <3>2. Children(x) \cap DOMAIN zones = {}
      <4>1. Within(x, x) /\ Sound(zones)
        BY <3>1 DEF IInv, Within, Ranges
      <4> QED BY <3>1, <4>1, NoLiveChild
    <3>3. ~ ShouldMerge(zones', x)
      <4>1. 0 \in Octant
        BY DEF Octant
      <4>2. ShouldMerge(zones', x) => Child(x, 0) \in DOMAIN zones'
        BY <4>1, AuthorityExists DEF ShouldMerge, SiblingsLive
      <4>3. Child(x, 0) \in Children(x)
        BY <4>1 DEF Children
      <4> QED BY <3>1, <3>2, <4>2, <4>3
    <3> QED BY <3>1, <3>3
  <2>7. CASE Next
    BY <2>3, <2>4, <2>5, <2>6, <2>7 DEF Next
  <2> QED BY <2>2, <2>7
<1> QED BY <1>1, WorldSound, PTL DEF Spec, StepsSettle
=============================================================================
