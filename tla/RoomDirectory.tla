--------------------------- MODULE RoomDirectory ---------------------------
(***************************************************************************)
(* What the room half of fanout-core promises its host: a directory of     *)
(* live rooms, each with its set of subscribers, named by ids that are     *)
(* never handed out twice.  An id that is not live names nothing: it       *)
(* receives no subscriber and its publishes reach nobody.  An allocation   *)
(* fails only when Capacity rooms are live.  RoomRegistry implements this. *)
(***************************************************************************)
EXTENDS Naturals, FiniteSets

CONSTANTS
  RoomIds,    \* every id a caller can name
  Conn,       \* connection ids
  Capacity,   \* most rooms live at once
  Sentinel,   \* returned when no room can be allocated
  Done        \* returned by operations without a result

VARIABLES
  room,   \* function from the live ids to the subscribers of each
  used,   \* the ids handed out so far
  call,   \* the last operation, with its arguments
  ret     \* what it returned

vars == <<room, used, call, ret>>

(* An operation with its id and connection, Done for one it lacks. *)
Call(op, id, c) == [op |-> op, id |-> id, conn |-> c]

(* An id (or Sentinel, or Done) and a set of targets. *)
Reply(id, targets) == [id |-> id, targets |-> targets]

Live == DOMAIN room

Init ==
  /\ room = [i \in {} |-> {}]
  /\ used = {}
  /\ call = Call("init", Done, Done)
  /\ ret = Reply(Done, {})

AllocRoom(id) ==
  /\ id \notin used
  /\ Cardinality(Live) < Capacity
  /\ room' = [i \in Live \cup {id} |-> IF i = id THEN {} ELSE room[i]]
  /\ used' = used \cup {id}
  /\ call' = Call("alloc", Done, Done)
  /\ ret' = Reply(id, {})

AllocFull ==
  /\ Cardinality(Live) = Capacity
  /\ call' = Call("alloc", Done, Done)
  /\ ret' = Reply(Sentinel, {})
  /\ UNCHANGED <<room, used>>

FreeRoom(id) ==
  /\ room' = [i \in Live \ {id} |-> room[i]]
  /\ call' = Call("free", id, Done)
  /\ ret' = Reply(Done, {})
  /\ UNCHANGED used

Members(id) == IF id \in Live THEN room[id] ELSE {}

Sub(id, c) ==
  /\ room' = [i \in Live |-> IF i = id THEN room[i] \cup {c} ELSE room[i]]
  /\ call' = Call("sub", id, c)
  /\ ret' = Reply(Done, {})
  /\ UNCHANGED used

Unsub(id, c) ==
  /\ room' = [i \in Live |-> IF i = id THEN room[i] \ {c} ELSE room[i]]
  /\ call' = Call("unsub", id, c)
  /\ ret' = Reply(Done, {})
  /\ UNCHANGED used

PubTargets(id, c) ==
  /\ call' = Call("pub", id, c)
  /\ ret' = Reply(Done, Members(id) \ {c})
  /\ UNCHANGED <<room, used>>

Next ==
  \/ AllocFull
  \/ \E id \in RoomIds :
       \/ AllocRoom(id)
       \/ FreeRoom(id)
       \/ \E c \in Conn : Sub(id, c) \/ Unsub(id, c) \/ PubTargets(id, c)

Spec == Init /\ [][Next]_vars
=============================================================================
