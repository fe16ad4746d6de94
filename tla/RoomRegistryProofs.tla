------------------------- MODULE RoomRegistryProofs -------------------------
(***************************************************************************)
(* Proofs about RoomRegistry for every capacity, generation modulus and    *)
(* set of connections.  First what each slot-map operation preserves, then *)
(* the three invariants of the registry, then that it implements the       *)
(* directory of rooms (RoomDirectory).                                     *)
(***************************************************************************)
EXTENDS RoomRegistry, FiniteSetTheorems, TLAPS

WellFormed(m) == FreeListDistinct(m) /\ FreeListExactFor(m)

(* UInt32 increment stays in range (SlotMap.alloc's prevGen + 1). *)
LEMMA NextGenType ==
  ASSUME NEW g \in Generation
  PROVE  NextGen(g) \in Generation
BY GenModAssumption DEF NextGen, Generation

(* SlotMap.empty is well formed. *)
LEMMA EmptyWellFormed ==
  ASSUME NEW V
  PROVE  Empty \in SlotMapOf(V) /\ WellFormed(Empty)
<1> USE CapacityAssumption, GenModAssumption
<1>1. \A k \in 1 .. Capacity : Capacity - k \in Index
  BY DEF Index
<1>2. Empty.freeList \in Seq(Index) /\ Len(Empty.freeList) = Capacity
  BY <1>1 DEF Empty
<1>3. Empty.slots \in [Index -> Slot(V)]
  BY DEF Empty, Slot, Generation
<1>4. Empty \in SlotMapOf(V)
  BY <1>2, <1>3 DEF Empty, SlotMapOf
<1>5. FreeListDistinct(Empty)
  BY <1>2 DEF Empty, FreeListDistinct
<1>6. ASSUME NEW i \in Index
      PROVE  \E k \in 1 .. Len(Empty.freeList) : Empty.freeList[k] = i
  <2>1. Capacity - i \in 1 .. Capacity /\ Capacity - (Capacity - i) = i
    BY DEF Index
  <2> QED BY <2>1, <1>2 DEF Empty
<1>7. FreeListExactFor(Empty)
  BY <1>6 DEF FreeListExactFor, Empty
<1> QED BY <1>4, <1>5, <1>7 DEF WellFormed

(* SlotMap.alloc pops an unoccupied index and fills it: the stack still    *)
(* holds exactly the unoccupied indices.                                   *)
LEMMA AllocWellFormed ==
  ASSUME NEW V, Nothing \notin V, NEW v \in V,
         NEW m \in SlotMapOf(V), WellFormed(m), CanAlloc(m)
  PROVE  /\ Top(m) \in Index
         /\ m.slots[Top(m)].val = Nothing
         /\ Alloc(m, v) \in SlotMapOf(V)
         /\ WellFormed(Alloc(m, v))
<1> DEFINE n == Len(m.freeList)
           a == Alloc(m, v)
<1>1. m.freeList \in Seq(Index) /\ m.slots \in [Index -> Slot(V)]
  BY DEF SlotMapOf
<1>2. n \in Nat \ {0} /\ Top(m) = m.freeList[n]
  BY <1>1 DEF CanAlloc, Top
<1>3. Top(m) \in Index
  BY <1>1, <1>2
<1>4. m.slots[Top(m)].val = Nothing
  BY <1>2, <1>3 DEF WellFormed, FreeListExactFor
<1>5. /\ a.freeList \in Seq(Index)
      /\ Len(a.freeList) = n - 1
      /\ \A k \in 1 .. n - 1 : a.freeList[k] = m.freeList[k]
  BY <1>1, <1>2 DEF Alloc
<1>6. m.slots[Top(m)].gen \in Generation
  BY <1>1, <1>3 DEF Slot
<1>7. a.slots \in [Index -> Slot(V)]
  BY <1>1, <1>3, <1>6, NextGenType DEF Alloc, Slot
<1>8. a \in SlotMapOf(V)
  BY <1>5, <1>7 DEF Alloc, SlotMapOf
<1>9. FreeListDistinct(a)
  BY <1>2, <1>5 DEF WellFormed, FreeListDistinct
<1>10. \A i \in Index : a.slots[i].val = IF i = Top(m) THEN v ELSE m.slots[i].val
  BY <1>1, <1>3 DEF Alloc
<1>11. \A k \in 1 .. n - 1 : m.freeList[k] # Top(m)
  BY <1>2 DEF WellFormed, FreeListDistinct
<1>12. FreeListExactFor(a)
  <2> SUFFICES ASSUME NEW i \in Index
               PROVE  a.slots[i].val = Nothing <=>
                        \E k \in 1 .. n - 1 : m.freeList[k] = i
    BY <1>5 DEF FreeListExactFor
  <2>1. CASE i = Top(m)
    BY <2>1, <1>10, <1>11
  <2>2. CASE i # Top(m)
    <3>1. a.slots[i].val = m.slots[i].val
      BY <2>2, <1>10
    <3>2. (\E k \in 1 .. n : m.freeList[k] = i) <=>
          (\E k \in 1 .. n - 1 : m.freeList[k] = i)
      BY <2>2, <1>2
    <3> QED BY <3>1, <3>2 DEF WellFormed, FreeListExactFor
  <2> QED BY <2>1, <2>2
<1> QED BY <1>3, <1>4, <1>8, <1>9, <1>12 DEF WellFormed

(* SlotMap.free pushes an index only when it was occupied, so no index is  *)
(* ever on the stack twice.                                                *)
LEMMA FreeWellFormed ==
  ASSUME NEW V, Nothing \notin V,
         NEW m \in SlotMapOf(V), WellFormed(m), NEW id
  PROVE  Free(m, id) \in SlotMapOf(V) /\ WellFormed(Free(m, id))
<1>1. CASE ~ Resolves(m, id)
  BY <1>1 DEF Free
<1>2. CASE Resolves(m, id)
  <2> DEFINE n == Len(m.freeList)
             f == Free(m, id)
             x == id.index
  <2>1. m.freeList \in Seq(Index) /\ m.slots \in [Index -> Slot(V)] /\ n \in Nat
    BY DEF SlotMapOf
  <2>2. x \in Index /\ m.slots[x].val # Nothing
    BY <1>2 DEF Resolves
  <2>3. /\ f.freeList \in Seq(Index)
        /\ Len(f.freeList) = n + 1
        /\ f.freeList[n + 1] = x
        /\ \A k \in 1 .. n : f.freeList[k] = m.freeList[k]
    BY <1>2, <2>1, <2>2 DEF Free
  <2>4. f.slots \in [Index -> Slot(V)]
    BY <1>2, <2>1, <2>2 DEF Free, Slot, Resolves
  <2>5. f \in SlotMapOf(V)
    BY <1>2, <2>3, <2>4 DEF Free, SlotMapOf
  <2>6. \A k \in 1 .. n : m.freeList[k] # x
    BY <2>2 DEF WellFormed, FreeListExactFor
  <2>7. FreeListDistinct(f)
    <3> SUFFICES ASSUME NEW j \in 1 .. n + 1, NEW k \in 1 .. n + 1,
                        f.freeList[j] = f.freeList[k]
                 PROVE  j = k
      BY <2>3 DEF FreeListDistinct
    <3> QED BY <2>1, <2>3, <2>6 DEF WellFormed, FreeListDistinct
  <2>8. \A i \in Index : f.slots[i].val = IF i = x THEN Nothing ELSE m.slots[i].val
    BY <1>2, <2>1, <2>2 DEF Free, Slot
  <2>9. FreeListExactFor(f)
    <3> SUFFICES ASSUME NEW i \in Index
                 PROVE  f.slots[i].val = Nothing <=>
                          \E k \in 1 .. n + 1 : f.freeList[k] = i
      BY <2>3 DEF FreeListExactFor
    <3>1. CASE i = x
      BY <3>1, <2>1, <2>3, <2>8
    <3>2. CASE i # x
      <4>1. (\E k \in 1 .. n + 1 : f.freeList[k] = i) <=>
            (\E k \in 1 .. n : m.freeList[k] = i)
        BY <3>2, <2>1, <2>3
      <4> QED BY <4>1, <3>2, <2>8 DEF WellFormed, FreeListExactFor
    <3> QED BY <3>1, <3>2
  <2> QED BY <2>5, <2>7, <2>9 DEF WellFormed
<1> QED BY <1>1, <1>2

(* SlotMap.update changes the value of an occupied slot and nothing else.  *)
LEMMA UpdateWellFormed ==
  ASSUME NEW V, Nothing \notin V, NEW v \in V,
         NEW m \in SlotMapOf(V), WellFormed(m), NEW id
  PROVE  /\ Update(m, id, v) \in SlotMapOf(V)
         /\ WellFormed(Update(m, id, v))
         /\ \A i \in Index :
              /\ Update(m, id, v).slots[i].gen = m.slots[i].gen
              /\ Update(m, id, v).slots[i].val = Nothing <=>
                   m.slots[i].val = Nothing
<1>1. CASE ~ Resolves(m, id)
  BY <1>1 DEF Update
<1>2. CASE Resolves(m, id)
  <2> DEFINE u == Update(m, id, v)
  <2>1. m.freeList \in Seq(Index) /\ m.slots \in [Index -> Slot(V)]
    BY DEF SlotMapOf
  <2>2. id.index \in Index /\ m.slots[id.index].val # Nothing
    BY <1>2 DEF Resolves
  <2>3. m.slots[id.index].gen = id.generation /\ id.generation \in Generation
    BY <1>2, <2>1, <2>2 DEF Resolves, Slot
  <2>4. u = [slots    |-> [m.slots EXCEPT ![id.index] =
                             [gen |-> id.generation, val |-> v]],
             freeList |-> m.freeList]
    BY <1>2 DEF Update
  <2>5. u.slots \in [Index -> Slot(V)]
    BY <2>1, <2>2, <2>3, <2>4 DEF Slot
  <2>6. u \in SlotMapOf(V)
    BY <2>1, <2>4, <2>5 DEF SlotMapOf
  <2>7. \A i \in Index : /\ u.slots[i].gen = m.slots[i].gen
                         /\ u.slots[i].val = Nothing <=> m.slots[i].val = Nothing
    BY <2>1, <2>2, <2>3, <2>4
  <2>8. WellFormed(u)
    BY <2>4, <2>7 DEF WellFormed, FreeListDistinct, FreeListExactFor
  <2> QED BY <2>6, <2>7, <2>8
<1> QED BY <1>1, <1>2

-----------------------------------------------------------------------------
(***************************************************************************)
(* The inductive invariant.  FreeListExact is inductive over well-typed    *)
(* slot maps; StaleIdNeverResolves is not, and follows from                *)
(* RetiredIdsBehind.                                                       *)
(***************************************************************************)
IInv == TypeOK /\ FreeListExact /\ RetiredIdsBehind

(* A room value is never the mark of an unoccupied slot. *)
LEMMA NothingIsNoRoom == Nothing \notin Room
BY NothingAssumption DEF Room

(* The registry starts in the invariant. *)
LEMMA InitIInv == Init => IInv
<1> SUFFICES ASSUME Init PROVE IInv
  OBVIOUS
<1>1. rooms \in SlotMapOf(Room) /\ WellFormed(rooms)
  BY EmptyWellFormed DEF Init
<1>2. TypeOK
  BY <1>1 DEF Init, TypeOK, Reply, Room, Call, Calls
<1>3. FreeListExact
  BY <1>1 DEF FreeListExact, WellFormed
<1>4. RetiredIdsBehind
  BY DEF Init, RetiredIdsBehind, Empty
<1> QED BY <1>2, <1>3, <1>4 DEF IInv

(* fanout_alloc_room keeps it: the fresh id is newer than every retired    *)
(* id of its slot.                                                         *)
LEMMA AllocRoomIInv == IInv /\ AllocRoom => IInv'
<1> SUFFICES ASSUME IInv, AllocRoom PROVE IInv'
  OBVIOUS
<1> DEFINE x == Top(rooms)
<1>1. /\ rooms \in SlotMapOf(Room) /\ WellFormed(rooms) /\ CanAlloc(rooms)
      /\ allocs \in [Index -> Nat] /\ retired \subseteq IssuedIds
      /\ RetiredIdsBehind
  BY DEF IInv, TypeOK, FreeListExact, WellFormed, AllocRoom
<1>2. /\ x \in Index
      /\ rooms.slots[x].val = Nothing
      /\ rooms' \in SlotMapOf(Room)
      /\ WellFormed(rooms')
  <2>1. {} \in Room
    BY DEF Room
  <2>2. rooms' = Alloc(rooms, {})
    BY DEF AllocRoom
  <2> QED BY <1>1, <2>1, <2>2, NothingIsNoRoom, AllocWellFormed
<1>3. rooms.slots[x].gen \in Generation
  BY <1>1, <1>2 DEF SlotMapOf, Slot
<1>4. TypeOK'
  <2>1. AllocId(rooms) \in IssuedIds
    BY <1>2, <1>3, NextGenType DEF AllocId, IssuedIds
  <2> QED BY <1>1, <1>2, <2>1 DEF TypeOK, AllocRoom, Reply, Room, Call, Calls
<1>5. FreeListExact'
  BY <1>2 DEF FreeListExact, WellFormed
<1>6. \A i \in Index :
        /\ allocs'[i] = IF i = x THEN allocs[x] + 1 ELSE allocs[i]
        /\ rooms'.slots[i].gen =
             IF i = x THEN NextGen(rooms.slots[x].gen) ELSE rooms.slots[i].gen
        /\ i # x => rooms'.slots[i].val = rooms.slots[i].val
  BY <1>1, <1>2 DEF AllocRoom, Alloc, SlotMapOf
<1>7. RetiredIdsBehind'
  <2>1. ASSUME NEW i \in Index, allocs'[i] < GenMod
        PROVE  rooms'.slots[i].gen = allocs'[i]
    <3>1. CASE i = x
      <4>1. allocs[x] \in Nat /\ allocs[x] + 1 < GenMod
        BY <2>1, <3>1, <1>1, <1>2, <1>6
      <4>2. rooms.slots[x].gen = allocs[x]
        BY <4>1, <1>1, <1>2, GenModAssumption DEF RetiredIdsBehind
      <4> QED BY <4>1, <4>2, <3>1, <1>6, <1>2 DEF NextGen
    <3>2. CASE i # x
      BY <2>1, <3>2, <1>1, <1>6 DEF RetiredIdsBehind
    <3> QED BY <3>1, <3>2
  <2>2. ASSUME NEW id \in retired', allocs'[id.index] < GenMod
        PROVE  /\ id.generation <= allocs'[id.index]
               /\ id.generation = allocs'[id.index] =>
                    rooms'.slots[id.index].val = Nothing
    <3>1. id \in retired /\ id.index \in Index /\ id.generation \in Nat
      BY <1>1, GenModAssumption DEF AllocRoom, IssuedIds, Generation
    <3>2. CASE id.index = x
      <4>1. allocs[x] \in Nat /\ allocs[x] + 1 < GenMod
        BY <2>2, <3>2, <1>1, <1>2, <1>6
      <4>2. id.generation <= allocs[x]
        BY <4>1, <3>1, <3>2, <1>1, GenModAssumption DEF RetiredIdsBehind
      <4> QED BY <4>1, <4>2, <3>1, <3>2, <1>6
    <3>3. CASE id.index # x
      BY <2>2, <3>1, <3>3, <1>1, <1>6 DEF RetiredIdsBehind
    <3> QED BY <3>2, <3>3
  <2> QED BY <2>1, <2>2 DEF RetiredIdsBehind
<1> QED BY <1>4, <1>5, <1>7 DEF IInv

(* fanout_free_room keeps it: the id that is retired carries the           *)
(* generation the slot keeps.                                              *)
LEMMA FreeRoomIInv ==
  ASSUME NEW id \in CallerIds
  PROVE  IInv /\ FreeRoom(id) => IInv'
<1> SUFFICES ASSUME IInv, FreeRoom(id) PROVE IInv'
  OBVIOUS
<1>1. /\ rooms \in SlotMapOf(Room) /\ WellFormed(rooms)
      /\ allocs \in [Index -> Nat] /\ retired \subseteq IssuedIds
      /\ RetiredIdsBehind
  BY DEF IInv, TypeOK, FreeListExact, WellFormed
<1>2. rooms' \in SlotMapOf(Room) /\ WellFormed(rooms')
  BY <1>1, NothingIsNoRoom, FreeWellFormed DEF FreeRoom
<1>3. FreeListExact'
  BY <1>2 DEF FreeListExact, WellFormed
<1>4. CASE ~ Resolves(rooms, id)
  <2>1. UNCHANGED <<rooms, allocs, retired>>
    BY <1>4 DEF FreeRoom, Free
  <2>2. TypeOK'
    BY <1>1, <2>1 DEF TypeOK, FreeRoom, Reply, Room, Call, Calls
  <2>3. RetiredIdsBehind'
    BY <1>1, <2>1 DEF RetiredIdsBehind
  <2> QED BY <1>3, <2>2, <2>3 DEF IInv
<1>5. CASE Resolves(rooms, id)
  <2> DEFINE x == id.index
  <2>1. /\ x \in Index /\ id \in IssuedIds
        /\ rooms.slots[x].gen = id.generation
    BY <1>5 DEF Resolves, CallerIds, IssuedIds
  <2>2. retired' = retired \cup {id} /\ allocs' = allocs
    BY <1>5 DEF FreeRoom
  <2>3. TypeOK'
    BY <1>1, <1>2, <2>1, <2>2 DEF TypeOK, FreeRoom, Reply, Room, Call, Calls
  <2>4. \A i \in Index :
          /\ rooms'.slots[i].gen = rooms.slots[i].gen
          /\ rooms'.slots[i].val = IF i = x THEN Nothing ELSE rooms.slots[i].val
    BY <1>1, <1>5, <2>1 DEF FreeRoom, Free, SlotMapOf
  <2>5. ASSUME NEW r \in retired', allocs'[r.index] < GenMod
        PROVE  /\ r.generation <= allocs'[r.index]
               /\ r.generation = allocs'[r.index] =>
                    rooms'.slots[r.index].val = Nothing
    <3>1. CASE r = id
      <4>1. allocs[x] = id.generation /\ allocs[x] \in Nat
        BY <1>1, <2>1, <2>2, <2>5, <3>1 DEF RetiredIdsBehind
      <4> QED BY <3>1, <4>1, <2>1, <2>2, <2>4
    <3>2. CASE r \in retired
      <4>1. r.index \in Index
        BY <3>2, <1>1 DEF IssuedIds
      <4> QED BY <3>2, <4>1, <1>1, <2>2, <2>4, <2>5 DEF RetiredIdsBehind
    <3> QED BY <3>1, <3>2, <2>2
  <2>6. RetiredIdsBehind'
    BY <1>1, <2>2, <2>4, <2>5 DEF RetiredIdsBehind
  <2> QED BY <1>3, <2>3, <2>6 DEF IInv
<1> QED BY <1>4, <1>5

(* fanout_sub and fanout_unsub keep it: they change no generation and      *)
(* occupy no slot.                                                         *)
LEMMA SetSubscribersIInv ==
  ASSUME IInv, NEW id \in CallerIds, NEW S \in Room,
         rooms' = rooms \/ rooms' = Update(rooms, id, S),
         call' \in Calls, ret' = Reply(Done, {}), UNCHANGED <<allocs, retired>>
  PROVE  IInv'
<1>1. /\ rooms \in SlotMapOf(Room) /\ WellFormed(rooms)
      /\ allocs \in [Index -> Nat] /\ retired \subseteq IssuedIds
      /\ RetiredIdsBehind
  BY DEF IInv, TypeOK, FreeListExact, WellFormed
<1>2. /\ rooms' \in SlotMapOf(Room)
      /\ WellFormed(rooms')
      /\ \A i \in Index : /\ rooms'.slots[i].gen = rooms.slots[i].gen
                          /\ rooms'.slots[i].val = Nothing <=>
                               rooms.slots[i].val = Nothing
  BY <1>1, NothingIsNoRoom, UpdateWellFormed
<1>3. TypeOK'
  BY <1>1, <1>2 DEF TypeOK, Reply, Room
<1>4. FreeListExact'
  BY <1>2 DEF FreeListExact, WellFormed
<1>5. \A r \in retired : r.index \in Index
  BY <1>1 DEF IssuedIds
<1>6. RetiredIdsBehind'
  BY <1>1, <1>2, <1>5 DEF RetiredIdsBehind
<1> QED BY <1>3, <1>4, <1>6 DEF IInv

(* A value found under an id is a room. *)
LEMMA FindType ==
  ASSUME TypeOK, NEW id, Find(rooms, id) # Nothing
  PROVE  Find(rooms, id) \in Room
BY DEF TypeOK, SlotMapOf, Slot, Find, Resolves

(* Every step keeps the invariant. *)
LEMMA NextIInv == IInv /\ [Next]_vars => IInv'
<1> SUFFICES ASSUME IInv, [Next]_vars PROVE IInv'
  OBVIOUS
<1> USE DEF IInv
<1>1. CASE AllocRoom
  BY <1>1, AllocRoomIInv
<1>2. CASE AllocRoomFull
  BY <1>2 DEF AllocRoomFull, TypeOK, Reply, Room, Call, Calls, FreeListExact,
              RetiredIdsBehind
<1>3. ASSUME NEW id \in CallerIds, FreeRoom(id) PROVE IInv'
  BY <1>3, FreeRoomIInv
<1>4. ASSUME NEW id \in CallerIds, NEW c \in Conn, Sub(id, c) PROVE IInv'
  <2>0. call' \in Calls
    BY <1>4 DEF Sub, Call, Calls
  <2>1. CASE Find(rooms, id) = Nothing
    BY <1>4, <2>0, <2>1, SetSubscribersIInv DEF Sub, Room
  <2>2. CASE Find(rooms, id) # Nothing
    <3>1. Find(rooms, id) \cup {c} \in Room
      BY <2>2, FindType DEF Room
    <3> QED BY <1>4, <2>0, <2>2, <3>1, SetSubscribersIInv DEF Sub
  <2> QED BY <2>1, <2>2
<1>5. ASSUME NEW id \in CallerIds, NEW c \in Conn, Unsub(id, c) PROVE IInv'
  <2>0. call' \in Calls
    BY <1>5 DEF Unsub, Call, Calls
  <2>1. CASE Find(rooms, id) = Nothing
    BY <1>5, <2>0, <2>1, SetSubscribersIInv DEF Unsub, Room
  <2>2. CASE Find(rooms, id) # Nothing
    <3>1. Find(rooms, id) \ {c} \in Room
      BY <2>2, FindType DEF Room
    <3> QED BY <1>5, <2>0, <2>2, <3>1, SetSubscribersIInv DEF Unsub
  <2> QED BY <2>1, <2>2
<1>6. ASSUME NEW id \in CallerIds, NEW c \in Conn, PubTargets(id, c) PROVE IInv'
  <2>1. ret'.targets \in Room /\ ret' = Reply(Done, ret'.targets)
    BY <1>6, FindType DEF PubTargets, Reply, Room
  <2> QED
    BY <1>6, <2>1 DEF PubTargets, TypeOK, Reply, Call, Calls, FreeListExact,
                      RetiredIdsBehind
<1>7. CASE UNCHANGED vars
  BY <1>7 DEF vars, TypeOK, FreeListExact, RetiredIdsBehind
<1> QED BY <1>1, <1>2, <1>3, <1>4, <1>5, <1>6, <1>7 DEF Next

(* The invariant holds throughout every run of the registry. *)
THEOREM RegistryInvariant == Spec => []IInv
BY InitIInv, NextIInv, PTL DEF Spec

(* Type correctness of the registry. *)
THEOREM RegistryTypeOK == Spec => []TypeOK
BY RegistryInvariant, PTL DEF IInv

(* No sequence of allocations and frees, with whatever ids, leaks a slot,  *)
(* frees one twice or hands out an occupied one.                           *)
THEOREM RegistryFreeListExact == Spec => []FreeListExact
BY RegistryInvariant, PTL DEF IInv

(* Until its slot wraps, a slot's generation counts its allocations and    *)
(* the ids that were freed are behind it.                                  *)
THEOREM RegistryRetiredIds == Spec => []RetiredIdsBehind
BY RegistryInvariant, PTL DEF IInv

(* Until a generation wraps, an id whose room was freed resolves to        *)
(* nothing for ever.                                                       *)
THEOREM RegistryStaleIds == Spec => []StaleIdNeverResolves
<1>1. IInv => StaleIdNeverResolves
  <2> SUFFICES ASSUME IInv, NoWrap, NEW id \in retired
               PROVE  ~ Resolves(rooms, id)
    BY DEF StaleIdNeverResolves, Find
  <2> SUFFICES ASSUME Resolves(rooms, id) PROVE FALSE
    OBVIOUS
  <2>1. id.index \in Index /\ allocs[id.index] < GenMod
    BY DEF Resolves, NoWrap
  <2>2. id.generation = allocs[id.index]
    BY <2>1 DEF IInv, RetiredIdsBehind, Resolves
  <2> QED BY <2>1, <2>2 DEF IInv, RetiredIdsBehind, Resolves
<1> QED BY <1>1, RegistryInvariant, PTL
-----------------------------------------------------------------------------
(***************************************************************************)
(* The refinement: each export is a step of the directory, until a         *)
(* generation wraps.                                                       *)
(***************************************************************************)

(* The live ids are the ids that resolve. *)
LEMMA LiveIdsResolve ==
  ASSUME NEW V, NEW m \in SlotMapOf(V)
  PROVE  /\ LiveIds(m) \subseteq IssuedIds
         /\ \A id \in CallerIds : id \in LiveIds(m) <=> Resolves(m, id)
         /\ \A id \in LiveIds(m) : Resolves(m, id)
<1>1. m.slots \in [Index -> Slot(V)]
  BY DEF SlotMapOf
<1>2. ASSUME NEW id \in LiveIds(m) PROVE id \in IssuedIds /\ Resolves(m, id)
  <2>1. PICK i \in Index : /\ m.slots[i].val # Nothing
                           /\ id = [index |-> i, generation |-> m.slots[i].gen]
    BY DEF LiveIds
  <2>2. m.slots[i].gen \in Generation
    BY <1>1 DEF Slot
  <2> QED BY <2>1, <2>2 DEF IssuedIds, Resolves
<1>3. ASSUME NEW id \in CallerIds, Resolves(m, id) PROVE id \in LiveIds(m)
  <2>1. id = [index |-> id.index, generation |-> id.generation]
    BY DEF CallerIds
  <2> QED BY <1>3, <2>1 DEF LiveIds, Resolves
<1> QED BY <1>2, <1>3

(* As many rooms as slots are live exactly when the free stack is empty:   *)
(* SlotMap.alloc fails only when the registry is full.                     *)
LEMMA FullIffNoneFree ==
  ASSUME NEW V, NEW m \in SlotMapOf(V), WellFormed(m)
  PROVE  /\ IsFiniteSet(LiveIds(m)) /\ Cardinality(LiveIds(m)) \in Nat
         /\ Cardinality(LiveIds(m)) <= Capacity
         /\ Cardinality(LiveIds(m)) = Capacity <=> ~ CanAlloc(m)
<1> DEFINE L == LiveIds(m)
           f == [id \in L |-> id.index]
<1>1. IsFiniteSet(Index) /\ Cardinality(Index) = Capacity
  BY CapacityAssumption, FS_Interval DEF Index
<1>2. \A id \in L : id \in IssuedIds /\ Resolves(m, id)
  BY LiveIdsResolve
<1>3. f \in Injection(L, Index)
  <2>1. f \in [L -> Index]
    BY <1>2 DEF IssuedIds
  <2>2. ASSUME NEW a \in L, NEW b \in L, f[a] = f[b] PROVE a = b
    <3>1. a.index = b.index /\ a.generation = b.generation
      BY <1>2, <2>2 DEF Resolves
    <3> QED BY <1>2, <3>1 DEF IssuedIds
  <2> QED BY <2>1, <2>2 DEF Injection, IsInjective
<1>4. /\ IsFiniteSet(L) /\ Cardinality(L) <= Capacity
      /\ Cardinality(L) = Capacity <=> f \in Surjection(L, Index)
  <2> HIDE DEF L, f
  <2> QED BY <1>1, <1>3, FS_Injection
<1>5. f \in Surjection(L, Index) <=> \A i \in Index : m.slots[i].val # Nothing
  <2>1. ASSUME f \in Surjection(L, Index), NEW i \in Index PROVE m.slots[i].val # Nothing
    <3>1. PICK id \in L : f[id] = i
      BY <2>1 DEF Surjection
    <3> QED BY <1>2, <3>1 DEF Resolves
  <2>2. ASSUME \A i \in Index : m.slots[i].val # Nothing PROVE f \in Surjection(L, Index)
    <3>1. ASSUME NEW i \in Index PROVE \E id \in L : f[id] = i
      <4>1. [index |-> i, generation |-> m.slots[i].gen] \in L
        BY <2>2 DEF LiveIds
      <4> QED BY <4>1
    <3> QED BY <1>3, <3>1 DEF Injection, Surjection
  <2> QED BY <2>1, <2>2
<1>6. (\A i \in Index : m.slots[i].val # Nothing) <=> m.freeList = << >>
  <2>1. m.freeList \in Seq(Index)
    BY DEF SlotMapOf
  <2>2. ASSUME m.freeList # << >> PROVE \E i \in Index : m.slots[i].val = Nothing
    <3>1. 1 \in 1 .. Len(m.freeList) /\ m.freeList[1] \in Index
      BY <2>1, <2>2
    <3> QED BY <3>1 DEF WellFormed, FreeListExactFor
  <2>3. ASSUME m.freeList = << >>, NEW i \in Index PROVE m.slots[i].val # Nothing
    <3>1. Len(m.freeList) = 0
      BY <2>3
    <3> QED BY <3>1 DEF WellFormed, FreeListExactFor
  <2> QED BY <2>2, <2>3
<1>7. Cardinality(L) \in Nat
  BY <1>4, FS_CardinalityType
<1> QED BY <1>4, <1>5, <1>6, <1>7 DEF CanAlloc

(* The directory counts as the registry does. *)
LEMMA SameCardinality == \A S : Directory!Cardinality(S) = Cardinality(S)
BY DEF Directory!Cardinality, Cardinality

(* fanout_alloc_room hands out an id that was never used, and adds an      *)
(* empty room under it.                                                    *)
LEMMA AllocRoomRefines ==
  ASSUME IInv, AllocRoom, NoWrap'
  PROVE  AllocId(rooms) \in CallerIds /\ Directory!AllocRoom(AllocId(rooms))
<1> DEFINE x == Top(rooms)
           a == AllocId(rooms)
<1>1. /\ rooms \in SlotMapOf(Room) /\ WellFormed(rooms) /\ CanAlloc(rooms)
      /\ allocs \in [Index -> Nat] /\ retired \subseteq IssuedIds
      /\ rooms' = Alloc(rooms, {})
  BY DEF IInv, TypeOK, FreeListExact, WellFormed, AllocRoom
<1>2. x \in Index /\ rooms.slots[x].val = Nothing /\ rooms' \in SlotMapOf(Room)
  <2>1. {} \in Room
    BY DEF Room
  <2> QED BY <1>1, <2>1, NothingIsNoRoom, AllocWellFormed
<1>3. rooms.slots \in [Index -> Slot(Room)] /\ rooms.slots[x].gen \in Generation
  BY <1>1, <1>2 DEF SlotMapOf, Slot
<1>4. /\ a.index = x /\ a.generation = NextGen(rooms.slots[x].gen)
      /\ a.generation \in Generation /\ a \in CallerIds
  BY <1>2, <1>3, NextGenType, CapacityAssumption DEF AllocId, CallerIds, Index
<1>5. /\ rooms'.slots[x].gen = a.generation /\ rooms'.slots[x].val = {}
      /\ \A i \in Index : i # x => rooms'.slots[i] = rooms.slots[i]
  BY <1>1, <1>2, <1>3, <1>4 DEF Alloc
<1>6. {} # Nothing
  BY NothingIsNoRoom DEF Room
<1>7. Resolves(rooms', a) /\ ~ Resolves(rooms, a)
  BY <1>2, <1>4, <1>5, <1>6 DEF Resolves
<1>8. ASSUME NEW id \in CallerIds, id # a
      PROVE  Resolves(rooms', id) <=> Resolves(rooms, id)
  <2>1. CASE id.index = x
    <3>1. id.generation # a.generation
      BY <1>4, <1>8, <2>1 DEF CallerIds
    <3> QED BY <1>2, <1>5, <2>1, <3>1 DEF Resolves
  <2>2. CASE id.index # x
    BY <1>5, <2>2 DEF Resolves
  <2> QED BY <2>1, <2>2
<1>9. LiveIds(rooms) \subseteq CallerIds /\ LiveIds(rooms') \subseteq CallerIds
  BY <1>1, <1>2, LiveIdsResolve, CapacityAssumption DEF IssuedIds, CallerIds, Index
<1>10. /\ \A id \in CallerIds : id \in LiveIds(rooms) <=> Resolves(rooms, id)
       /\ \A id \in CallerIds : id \in LiveIds(rooms') <=> Resolves(rooms', id)
  BY <1>1, <1>2, LiveIdsResolve
<1> HIDE DEF a, x
<1>11. LiveIds(rooms') = LiveIds(rooms) \cup {a} /\ a \notin LiveIds(rooms)
  BY <1>4, <1>7, <1>8, <1>9, <1>10
<1>12. a \notin retired
  <2> SUFFICES ASSUME a \in retired PROVE FALSE
    OBVIOUS
  <2>1. allocs'[x] = allocs[x] + 1 /\ allocs[x] \in Nat
    BY <1>1, <1>2 DEF AllocRoom, x
  <2>2. allocs[x] + 1 < GenMod
    BY <1>2, <2>1 DEF NoWrap
  <2>3. rooms.slots[x].gen = allocs[x] /\ a.generation <= allocs[x]
    BY <1>2, <1>4, <2>1, <2>2, GenModAssumption DEF IInv, RetiredIdsBehind
  <2> QED BY <1>4, <2>1, <2>2, <2>3, GenModAssumption DEF NextGen
<1>13. Cardinality(LiveIds(rooms)) < Capacity
  BY <1>1, FullIffNoneFree, CapacityAssumption
<1>14. Find(rooms', a) = {}
  BY <1>4, <1>5, <1>7 DEF Find
<1>15. ASSUME NEW id \in LiveIds(rooms) PROVE Find(rooms', id) = Find(rooms, id)
  <2>1. Resolves(rooms, id) /\ Resolves(rooms', id)
    BY <1>8, <1>9, <1>10, <1>11
  <2>2. id.index # x
    BY <1>2, <2>1 DEF Resolves
  <2> QED BY <1>5, <2>1, <2>2 DEF Find, Resolves
<1>16. [i \in LiveIds(rooms') |-> Find(rooms', i)] =
         [i \in LiveIds(rooms) \cup {a} |->
            IF i = a THEN {} ELSE [id \in LiveIds(rooms) |-> Find(rooms, id)][i]]
  BY <1>11, <1>14, <1>15
<1>17. call' = Call("alloc", Done, Done) /\ ret' = Reply(a, {}) /\ retired' = retired
  BY DEF AllocRoom, a
<1>18. DOMAIN [id \in LiveIds(rooms) |-> Find(rooms, id)] = LiveIds(rooms)
  OBVIOUS
<1>19. Directory!Cardinality(DOMAIN [id \in LiveIds(rooms) |-> Find(rooms, id)]) < Capacity
  BY <1>13, <1>18, SameCardinality, Zenon
<1>20. LiveIds(rooms') \cup retired' = (LiveIds(rooms) \cup retired) \cup {a}
  BY <1>11, <1>17
<1>21. Directory!AllocRoom(a)
  BY <1>11, <1>12, <1>16, <1>17, <1>18, <1>19, <1>20
     DEF Directory!AllocRoom, Directory!Live, Directory!Call, Directory!Reply, Call, Reply
<1> QED BY <1>4, <1>21 DEF a

(* An allocation fails only when Capacity rooms are live. *)
LEMMA AllocRoomFullRefines ==
  ASSUME IInv, AllocRoomFull
  PROVE  Directory!AllocFull
<1>1. rooms \in SlotMapOf(Room) /\ WellFormed(rooms)
  BY DEF IInv, TypeOK, FreeListExact, WellFormed
<1>2. Cardinality(LiveIds(rooms)) = Capacity
  BY <1>1, FullIffNoneFree DEF AllocRoomFull
<1>3. DOMAIN [id \in LiveIds(rooms) |-> Find(rooms, id)] = LiveIds(rooms)
  OBVIOUS
<1>4. Directory!Cardinality(DOMAIN [id \in LiveIds(rooms) |-> Find(rooms, id)]) = Capacity
  BY <1>2, <1>3, SameCardinality, Zenon
<1> QED BY <1>4 DEF AllocRoomFull, Directory!AllocFull, Directory!Live, Directory!Call,
                    Directory!Reply, Call, Reply

(* fanout_free_room ends the room of a live id, whose id stays used, and   *)
(* does nothing for any other.                                             *)
LEMMA FreeRoomRefines ==
  ASSUME IInv, NEW id \in CallerIds, FreeRoom(id)
  PROVE  Directory!FreeRoom(id)
<1>1. /\ rooms \in SlotMapOf(Room) /\ WellFormed(rooms) /\ rooms' = Free(rooms, id)
      /\ retired \subseteq IssuedIds
  BY DEF IInv, TypeOK, FreeListExact, WellFormed, FreeRoom
<1>2. rooms' \in SlotMapOf(Room)
  BY <1>1, NothingIsNoRoom, FreeWellFormed
<1>3. LiveIds(rooms) \subseteq CallerIds /\ LiveIds(rooms') \subseteq CallerIds
  BY <1>1, <1>2, LiveIdsResolve, CapacityAssumption DEF IssuedIds, CallerIds, Index
<1>4. /\ \A i \in CallerIds : i \in LiveIds(rooms) <=> Resolves(rooms, i)
      /\ \A i \in CallerIds : i \in LiveIds(rooms') <=> Resolves(rooms', i)
  BY <1>1, <1>2, LiveIdsResolve
<1>5. ASSUME NEW i \in CallerIds
      PROVE  /\ Resolves(rooms', i) <=> Resolves(rooms, i) /\ i # id
             /\ i # id => Find(rooms', i) = Find(rooms, i)
  <2>1. CASE ~ Resolves(rooms, id)
    BY <1>1, <2>1 DEF Free
  <2>2. CASE Resolves(rooms, id)
    <3>1. rooms.slots \in [Index -> Slot(Room)] /\ id.index \in Index
      BY <1>1, <2>2 DEF SlotMapOf, Resolves
    <3>2. /\ rooms'.slots[id.index].val = Nothing
          /\ \A k \in Index : k # id.index => rooms'.slots[k] = rooms.slots[k]
      BY <1>1, <2>2, <3>1 DEF Free
    <3>3. CASE i.index = id.index
      <4>1. Resolves(rooms, i) => i = id
        <5>1. Resolves(rooms, i) => i.generation = id.generation
          BY <2>2, <3>3 DEF Resolves
        <5> QED BY <3>3, <5>1 DEF CallerIds
      <4> QED BY <3>2, <3>3, <4>1 DEF Resolves, Find
    <3>4. CASE i.index # id.index
      BY <3>2, <3>4 DEF Resolves, Find
    <3> QED BY <3>3, <3>4
  <2> QED BY <2>1, <2>2
<1>6. LiveIds(rooms') = LiveIds(rooms) \ {id}
  BY <1>3, <1>4, <1>5
<1>7. LiveIds(rooms') \cup retired' = LiveIds(rooms) \cup retired
  BY <1>4, <1>6 DEF FreeRoom
<1>8. [i \in LiveIds(rooms') |-> Find(rooms', i)] =
        [i \in LiveIds(rooms) \ {id} |-> [j \in LiveIds(rooms) |-> Find(rooms, j)][i]]
  BY <1>3, <1>5, <1>6
<1>9. DOMAIN [j \in LiveIds(rooms) |-> Find(rooms, j)] = LiveIds(rooms)
  OBVIOUS
<1> QED BY <1>7, <1>8, <1>9 DEF FreeRoom, Directory!FreeRoom, Directory!Live, Directory!Call,
                                Directory!Reply, Call, Reply

(* Storing the subscribers S under an id changes that room and no other,   *)
(* and nothing if the id is not live (fanout_sub, fanout_unsub).           *)
LEMMA StoreRefines ==
  ASSUME IInv, NEW id \in CallerIds, NEW S,
         Find(rooms, id) # Nothing => S \in Room,
         rooms' = IF Find(rooms, id) = Nothing THEN rooms ELSE Update(rooms, id, S)
  PROVE  [i \in LiveIds(rooms') |-> Find(rooms', i)] =
           [i \in LiveIds(rooms) |-> IF i = id THEN S ELSE Find(rooms, i)]
<1>1. rooms \in SlotMapOf(Room) /\ WellFormed(rooms)
  BY DEF IInv, TypeOK, FreeListExact, WellFormed
<1>2. /\ LiveIds(rooms) \subseteq CallerIds
      /\ \A i \in CallerIds : i \in LiveIds(rooms) <=> Resolves(rooms, i)
  BY <1>1, LiveIdsResolve, CapacityAssumption DEF IssuedIds, CallerIds, Index
<1>3. CASE Find(rooms, id) = Nothing
  <2>1. id \notin LiveIds(rooms)
    BY <1>2, <1>3 DEF Find, Resolves
  <2> QED BY <1>3, <2>1
<1>4. CASE Find(rooms, id) # Nothing
  <2>1. Resolves(rooms, id) /\ rooms' = Update(rooms, id, S) /\ S \in Room
    BY <1>4 DEF Find
  <2>2. rooms' \in SlotMapOf(Room)
    BY <1>1, <2>1, NothingIsNoRoom, UpdateWellFormed
  <2>3. /\ LiveIds(rooms') \subseteq CallerIds
        /\ \A i \in CallerIds : i \in LiveIds(rooms') <=> Resolves(rooms', i)
    BY <2>2, LiveIdsResolve, CapacityAssumption DEF IssuedIds, CallerIds, Index
  <2>4. rooms.slots \in [Index -> Slot(Room)] /\ id.index \in Index /\ S # Nothing
    BY <1>1, <2>1, NothingIsNoRoom DEF SlotMapOf, Resolves
  <2>5. /\ rooms'.slots[id.index] = [gen |-> id.generation, val |-> S]
        /\ \A k \in Index : k # id.index => rooms'.slots[k] = rooms.slots[k]
    BY <2>1, <2>4 DEF Update
  <2>6. ASSUME NEW i \in CallerIds
        PROVE  /\ Resolves(rooms', i) <=> Resolves(rooms, i)
               /\ i = id => Find(rooms', i) = S
               /\ i # id => Find(rooms', i) = Find(rooms, i)
    <3>1. CASE i.index = id.index
      <4>1. rooms.slots[i.index].gen = id.generation
            /\ rooms'.slots[i.index].gen = id.generation /\ rooms'.slots[i.index].val = S
        BY <2>1, <2>5, <3>1 DEF Resolves
      <4>2. Resolves(rooms', i) <=> i.generation = id.generation
        BY <2>4, <3>1, <4>1 DEF Resolves
      <4>3. Resolves(rooms, i) <=> i.generation = id.generation
        BY <2>1, <3>1, <4>1 DEF Resolves
      <4>4. i.generation = id.generation <=> i = id
        BY <3>1 DEF CallerIds
      <4> QED BY <4>1, <4>2, <4>3, <4>4 DEF Find
    <3>2. CASE i.index # id.index
      BY <2>5, <3>2 DEF Resolves, Find
    <3> QED BY <3>1, <3>2
  <2>7. LiveIds(rooms') = LiveIds(rooms)
    BY <1>2, <2>3, <2>6
  <2> QED BY <1>2, <2>6, <2>7
<1> QED BY <1>3, <1>4

(* fanout_sub and fanout_unsub are the directory's. *)
LEMMA SubRefines ==
  ASSUME IInv, NEW id \in CallerIds, NEW c \in Conn
  PROVE  /\ Sub(id, c) => Directory!Sub(id, c)
         /\ Unsub(id, c) => Directory!Unsub(id, c)
<1> DEFINE F == Find(rooms, id)
           R == [j \in LiveIds(rooms) |-> Find(rooms, j)]
<1>1. F # Nothing => F \cup {c} \in Room /\ F \ {c} \in Room
  BY FindType DEF IInv, Room
<1>2. DOMAIN R = LiveIds(rooms)
  OBVIOUS
<1>4. ASSUME NEW S, F # Nothing => S \in Room,
             rooms' = IF F = Nothing THEN rooms ELSE Update(rooms, id, S)
      PROVE  LiveIds(rooms') = LiveIds(rooms)
  <2>1. [i \in LiveIds(rooms') |-> Find(rooms', i)] =
          [i \in LiveIds(rooms) |-> IF i = id THEN S ELSE Find(rooms, i)]
    BY <1>4, StoreRefines
  <2>2. /\ DOMAIN [i \in LiveIds(rooms') |-> Find(rooms', i)] = LiveIds(rooms')
        /\ DOMAIN [i \in LiveIds(rooms) |-> IF i = id THEN S ELSE Find(rooms, i)] = LiveIds(rooms)
    OBVIOUS
  <2> QED BY <2>1, <2>2
<1>5. ASSUME Sub(id, c) PROVE Directory!Sub(id, c)
  <2>1. rooms' = IF F = Nothing THEN rooms ELSE Update(rooms, id, F \cup {c})
    BY <1>5 DEF Sub
  <2>2. [i \in LiveIds(rooms') |-> Find(rooms', i)] =
          [i \in LiveIds(rooms) |-> IF i = id THEN F \cup {c} ELSE Find(rooms, i)]
    BY <1>1, <2>1, StoreRefines
  <2>3. [i \in LiveIds(rooms') |-> Find(rooms', i)] =
          [i \in LiveIds(rooms) |-> IF i = id THEN R[i] \cup {c} ELSE R[i]]
    BY <2>2
  <2>4. LiveIds(rooms') = LiveIds(rooms)
    BY <1>1, <1>4, <2>1
  <2> QED BY <1>2, <1>5, <2>3, <2>4
          DEF Sub, Directory!Sub, Directory!Live, Directory!Call, Directory!Reply, Call, Reply
<1>6. ASSUME Unsub(id, c) PROVE Directory!Unsub(id, c)
  <2>1. rooms' = IF F = Nothing THEN rooms ELSE Update(rooms, id, F \ {c})
    BY <1>6 DEF Unsub
  <2>2. [i \in LiveIds(rooms') |-> Find(rooms', i)] =
          [i \in LiveIds(rooms) |-> IF i = id THEN F \ {c} ELSE Find(rooms, i)]
    BY <1>1, <2>1, StoreRefines
  <2>3. [i \in LiveIds(rooms') |-> Find(rooms', i)] =
          [i \in LiveIds(rooms) |-> IF i = id THEN R[i] \ {c} ELSE R[i]]
    BY <2>2
  <2>4. LiveIds(rooms') = LiveIds(rooms)
    BY <1>1, <1>4, <2>1
  <2> QED BY <1>2, <1>6, <2>3, <2>4
          DEF Unsub, Directory!Unsub, Directory!Live, Directory!Call, Directory!Reply, Call, Reply
<1> QED BY <1>5, <1>6

(* fanout_pub_targets names the subscribers of a live room and nobody for  *)
(* any other id.                                                           *)
LEMMA PubTargetsRefines ==
  ASSUME IInv, NEW id \in CallerIds, NEW c \in Conn, PubTargets(id, c)
  PROVE  Directory!PubTargets(id, c)
<1> DEFINE R == [j \in LiveIds(rooms) |-> Find(rooms, j)]
<1>1. id \in LiveIds(rooms) <=> Resolves(rooms, id)
  BY LiveIdsResolve DEF IInv, TypeOK
<1>2. Find(rooms, id) = Nothing <=> id \notin LiveIds(rooms)
  BY <1>1 DEF Find, Resolves
<1>3. (IF Find(rooms, id) = Nothing THEN {} ELSE Find(rooms, id) \ {c}) =
        (IF id \in DOMAIN R THEN R[id] ELSE {}) \ {c}
  BY <1>2
<1> QED BY <1>3 DEF PubTargets, Directory!PubTargets, Directory!Members, Directory!Live,
                    Directory!Call, Directory!Reply, Call, Reply

(* The slot map implements the directory of rooms: what every export       *)
(* returns and leaves is what the directory returns and leaves, for every  *)
(* capacity and every sequence of calls, until a generation wraps.         *)
THEOREM RegistryImplementsDirectory == Spec => ImplementsDirectory
<1>1. Init => Directory!Init
  <2> SUFFICES ASSUME Init PROVE Directory!Init
    OBVIOUS
  <2>1. LiveIds(rooms) = {}
    BY DEF Init, Empty, LiveIds
  <2>2. [id \in LiveIds(rooms) |-> Find(rooms, id)] = [i \in {} |-> {}]
    BY <2>1
  <2> QED BY <2>1, <2>2 DEF Init, Directory!Init, Directory!Call, Directory!Reply, Call, Reply
<1>2. IInv /\ [Next]_vars => [NoWrap' => [Directory!Next]_(Directory!vars)]_vars
  <2> SUFFICES ASSUME IInv, Next, NoWrap' PROVE Directory!Next
    OBVIOUS
  <2>1. CASE AllocRoom
    BY <2>1, AllocRoomRefines DEF Directory!Next
  <2>2. CASE AllocRoomFull
    BY <2>2, AllocRoomFullRefines DEF Directory!Next
  <2>3. ASSUME NEW id \in CallerIds, FreeRoom(id) PROVE Directory!Next
    BY <2>3, FreeRoomRefines DEF Directory!Next
  <2>4. ASSUME NEW id \in CallerIds, NEW c \in Conn, Sub(id, c) \/ Unsub(id, c) \/ PubTargets(id, c)
        PROVE  Directory!Next
    BY <2>4, SubRefines, PubTargetsRefines DEF Directory!Next
  <2> QED BY <2>1, <2>2, <2>3, <2>4 DEF Next
<1> QED BY <1>1, <1>2, RegistryInvariant, PTL DEF Spec, ImplementsDirectory
=============================================================================
