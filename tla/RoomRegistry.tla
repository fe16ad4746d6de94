---------------------------- MODULE RoomRegistry ----------------------------
(***************************************************************************)
(* The room half of the fanout-core FFI (Ffi.lean, FanoutCore.lean): a     *)
(* process-wide slot map of rooms, each a set of subscribed connections.   *)
(* The host calls one export at a time; every id it hands in is untrusted, *)
(* so the actions take any id, live, stale or out of range.                *)
(*                                                                         *)
(* A room's subscribers are an array without duplicates in the code and a  *)
(* set here.  A packed id is the pair it packs.                            *)
(***************************************************************************)
EXTENDS SlotMap, FiniteSets

CONSTANTS
  Conn,       \* connection ids
  Sentinel,   \* "capacity exceeded"
  Done,       \* result of an export that returns Unit
  MaxAllocs   \* bound: allocations of one slot

ASSUME MaxAllocsAssumption == MaxAllocs \in Nat
ASSUME NothingAssumption == \A S \in SUBSET Conn : S # Nothing

VARIABLES
  rooms,    \* stateRef.rooms
  call,     \* the last export called, with its arguments
  ret,      \* what it returned
  allocs,   \* history: how often each slot has been allocated
  retired   \* history: the ids that named a room which has been freed

vars == <<rooms, call, ret, allocs, retired>>

Room == SUBSET Conn

(* An export with its id and connection, Done for an argument it lacks.    *)
Call(op, id, c) == [op |-> op, id |-> id, conn |-> c]

(* An id (or Sentinel, or Done) and a set of targets. *)
Reply(id, targets) == [id |-> id, targets |-> targets]

(* The ids a caller can name: one index past the end stands for all the    *)
(* indices out of range.                                                   *)
CallerIds == [index : 0 .. Capacity, generation : Generation]

Init ==
  /\ rooms = Empty
  /\ call = Call("init", Done, Done)
  /\ ret = Reply(Done, {})
  /\ allocs = [i \in Index |-> 0]
  /\ retired = {}

(* fanout_alloc_room *)
AllocRoom ==
  /\ CanAlloc(rooms)
  /\ allocs[Top(rooms)] < MaxAllocs
  /\ rooms' = Alloc(rooms, {})
  /\ call' = Call("alloc", Done, Done)
  /\ ret' = Reply(AllocId(rooms), {})
  /\ allocs' = [allocs EXCEPT ![Top(rooms)] = @ + 1]
  /\ UNCHANGED retired

AllocRoomFull ==
  /\ ~ CanAlloc(rooms)
  /\ call' = Call("alloc", Done, Done)
  /\ ret' = Reply(Sentinel, {})
  /\ UNCHANGED <<rooms, allocs, retired>>

(* fanout_free_room *)
FreeRoom(id) ==
  /\ rooms' = Free(rooms, id)
  /\ call' = Call("free", id, Done)
  /\ ret' = Reply(Done, {})
  /\ retired' = IF Resolves(rooms, id) THEN retired \cup {id} ELSE retired
  /\ UNCHANGED allocs

(* fanout_sub, fanout_unsub: find, then update under the same id.          *)
Sub(id, c) ==
  /\ rooms' = IF Find(rooms, id) = Nothing THEN rooms
              ELSE Update(rooms, id, Find(rooms, id) \cup {c})
  /\ call' = Call("sub", id, c)
  /\ ret' = Reply(Done, {})
  /\ UNCHANGED <<allocs, retired>>

Unsub(id, c) ==
  /\ rooms' = IF Find(rooms, id) = Nothing THEN rooms
              ELSE Update(rooms, id, Find(rooms, id) \ {c})
  /\ call' = Call("unsub", id, c)
  /\ ret' = Reply(Done, {})
  /\ UNCHANGED <<allocs, retired>>

(* fanout_pub_targets: every subscriber but the publisher.                 *)
PubTargets(id, c) ==
  /\ call' = Call("pub", id, c)
  /\ ret' = Reply(Done, IF Find(rooms, id) = Nothing
                           THEN {} ELSE Find(rooms, id) \ {c})
  /\ UNCHANGED <<rooms, allocs, retired>>

Next ==
  \/ AllocRoom
  \/ AllocRoomFull
  \/ \E id \in CallerIds :
       \/ FreeRoom(id)
       \/ \E c \in Conn : Sub(id, c) \/ Unsub(id, c) \/ PubTargets(id, c)

Spec == Init /\ [][Next]_vars
-----------------------------------------------------------------------------
IssuedIds == [index : Index, generation : Generation]
Calls == [op : {"init", "alloc", "free", "sub", "unsub", "pub"},
          id : {Done} \cup CallerIds, conn : {Done} \cup Conn]

(* Type of the registry's state. *)
TypeOK ==
  /\ rooms \in SlotMapOf(Room)
  /\ allocs \in [Index -> Nat]
  /\ retired \subseteq IssuedIds
  /\ call \in Calls
  /\ ret \in [id : {Done, Sentinel} \cup IssuedIds, targets : Room]

(* The free stack holds exactly the unoccupied indices, each once: no      *)
(* sequence of alloc and free, with whatever ids, leaks a slot, frees one  *)
(* twice or hands out an occupied one (SlotMap.alloc, SlotMap.free).       *)
FreeListExact == FreeListDistinct(rooms) /\ FreeListExactFor(rooms)

(* No slot's generation has wrapped around. *)
NoWrap == \A i \in Index : allocs[i] < GenMod

(* An id whose room was freed never names a room again, however often its  *)
(* slot is recycled, until a generation wraps (SlotMap.find's promise that *)
(* a stale id yields none rather than aliasing the next occupant).         *)
StaleIdNeverResolves ==
  NoWrap => \A id \in retired : Find(rooms, id) = Nothing

(* Why it holds: until its slot wraps, a slot's generation counts its      *)
(* allocations, and a retired id carries an older generation than the      *)
(* slot, or the slot's own while the slot is free.  SlotMap.free must keep *)
(* the generation for this.                                                *)
RetiredIdsBehind ==
  /\ \A i \in Index : allocs[i] < GenMod => rooms.slots[i].gen = allocs[i]
  /\ \A id \in retired :
       allocs[id.index] < GenMod =>
         /\ id.generation <= allocs[id.index]
         /\ id.generation = allocs[id.index] =>
              rooms.slots[id.index].val = Nothing
-----------------------------------------------------------------------------
(* The abstract directory: a live room is a resolving id and its           *)
(* subscribers, the used ids are the live and the retired ones.            *)
Directory == INSTANCE RoomDirectory WITH
  RoomIds <- CallerIds,
  room <- [id \in LiveIds(rooms) |-> Find(rooms, id)],
  used <- LiveIds(rooms) \cup retired

(* The slot map implements the directory until a generation wraps: what    *)
(* every export returns, for the arguments it is given, is what the        *)
(* directory returns, and it leaves the same rooms.                        *)
ImplementsDirectory ==
  Directory!Init /\ [][NoWrap' => [Directory!Next]_(Directory!vars)]_vars
=============================================================================
