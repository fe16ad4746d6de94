------------------------------ MODULE SlotMap ------------------------------
(***************************************************************************)
(* The generational slot map of fanout-core (SlotMap.lean): a fixed array  *)
(* of slots, each carrying a generation and a value or Nothing, and a      *)
(* stack of the free indices.  These are pure operators on a slot-map      *)
(* value; RoomRegistry builds its actions from them.                       *)
(*                                                                         *)
(* GenMod is the modulus of the generation counter: 2^32 in the code.      *)
(***************************************************************************)
EXTENDS Integers, Sequences

CONSTANTS
  Capacity,  \* number of slots
  GenMod,    \* a generation is a number modulo GenMod
  Nothing    \* the value of an unoccupied slot

ASSUME CapacityAssumption == Capacity \in Nat
ASSUME GenModAssumption == GenMod \in Nat \ {0}

Index == 0 .. Capacity - 1
Generation == 0 .. GenMod - 1

(* What a caller may hand in: any index, in range or not, any generation.  *)
Id == [index : Nat, generation : Generation]

Slot(Value) == [gen : Generation, val : {Nothing} \cup Value]
SlotMapOf(Value) == [slots : [Index -> Slot(Value)], freeList : Seq(Index)]

(* Every slot unoccupied at generation 0; index 0 is on top of the stack.  *)
Empty ==
  [slots    |-> [i \in Index |-> [gen |-> 0, val |-> Nothing]],
   freeList |-> [k \in 1 .. Capacity |-> Capacity - k]]

(* Mutant of NextGen: the counter is wider than its slot. *)
NextGenUnbounded(g) == g + 1

(* UInt32 addition of one. *)
NextGen(g) == IF g + 1 = GenMod THEN 0 ELSE g + 1

(* The id names the current occupant of its slot. *)
Resolves(m, id) ==
  /\ id.index \in Index
  /\ m.slots[id.index].gen = id.generation
  /\ m.slots[id.index].val # Nothing

(* Mutant of Find: the generation is not compared. *)
FindAnyGeneration(m, id) ==
  IF id.index \in Index THEN m.slots[id.index].val ELSE Nothing

Find(m, id) == IF Resolves(m, id) THEN m.slots[id.index].val ELSE Nothing

LiveIds(m) ==
  {[index |-> i, generation |-> m.slots[i].gen] :
      i \in {j \in Index : m.slots[j].val # Nothing}}

(* alloc pops the top of the free stack.  CanAlloc is its success case.    *)
CanAlloc(m) == m.freeList # << >>
Top(m) == m.freeList[Len(m.freeList)]
AllocId(m) ==
  [index |-> Top(m), generation |-> NextGen(m.slots[Top(m)].gen)]
(* Mutant of Alloc: the slot keeps its old generation. *)
AllocKeepsGeneration(m, v) ==
  [slots    |-> [m.slots EXCEPT ![Top(m)] =
                    [gen |-> m.slots[Top(m)].gen, val |-> v]],
   freeList |-> SubSeq(m.freeList, 1, Len(m.freeList) - 1)]

Alloc(m, v) ==
  [slots    |-> [m.slots EXCEPT ![Top(m)] =
                    [gen |-> NextGen(m.slots[Top(m)].gen), val |-> v]],
   freeList |-> SubSeq(m.freeList, 1, Len(m.freeList) - 1)]

(* Mutants of Free: an unoccupied slot is freed again; the slot starts     *)
(* over at generation 0.                                                   *)
FreeTwice(m, id) ==
  IF id.index \in Index /\ m.slots[id.index].gen = id.generation
    THEN [slots    |-> [m.slots EXCEPT ![id.index] =
                           [gen |-> id.generation, val |-> Nothing]],
          freeList |-> Append(m.freeList, id.index)]
    ELSE m

FreeResetsGeneration(m, id) ==
  IF Resolves(m, id)
    THEN [slots    |-> [m.slots EXCEPT ![id.index] =
                           [gen |-> 0, val |-> Nothing]],
          freeList |-> Append(m.freeList, id.index)]
    ELSE m

(* free keeps the generation of the slot, clears the value and pushes the  *)
(* index; it does nothing for an id that does not resolve.                 *)
Free(m, id) ==
  IF Resolves(m, id)
    THEN [slots    |-> [m.slots EXCEPT ![id.index] =
                           [gen |-> id.generation, val |-> Nothing]],
          freeList |-> Append(m.freeList, id.index)]
    ELSE m

Update(m, id, v) ==
  IF Resolves(m, id)
    THEN [slots    |-> [m.slots EXCEPT ![id.index] =
                           [gen |-> id.generation, val |-> v]],
          freeList |-> m.freeList]
    ELSE m

(***************************************************************************)
(* Well-formedness: the stack holds every unoccupied index exactly once,   *)
(* and no occupied one.                                                    *)
(***************************************************************************)
FreeListDistinct(m) ==
  \A j, k \in 1 .. Len(m.freeList) :
     m.freeList[j] = m.freeList[k] => j = k

FreeListExactFor(m) ==
  \A i \in Index :
     m.slots[i].val = Nothing <=> \E k \in 1 .. Len(m.freeList) : m.freeList[k] = i
=============================================================================
