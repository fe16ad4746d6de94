--------------------------- MODULE DatagramSocket ---------------------------
(***************************************************************************)
(* The UDP sockets of the fanout server and of the load client (Net2.cpp,  *)
(* class UDPSocket) and the wire between them.                             *)
(*                                                                         *)
(* receiveFrom posts an operation to the reactor.  Dropping its future does*)
(* not cancel it: a datagram completes the oldest operation that is posted,*)
(* so one that nobody holds the future of swallows a datagram.             *)
(***************************************************************************)
EXTENDS Naturals, Sequences, FiniteSets

CONSTANTS
  PlayerCount,  \* the simulated players, one QUIC connection each
  TickPackets,  \* the packets a player's ticks take
  MaxFaults     \* most kinds of failure in a behaviour

ASSUME PlayerCountAssumption == PlayerCount \in Nat \ {0}
ASSUME TickPacketsAssumption == TickPackets \in Nat \ {0}
ASSUME MaxFaultsAssumption == MaxFaults \in Nat

Player == 1 .. PlayerCount

VARIABLES
  wire,       \* every datagram sent so far: each may arrive any number of
              \* times, in any order, or never
  faults      \* kinds of failure so far

ToServer == {"hello", "ticks"} \X Player
ToClient == {"reply", "close"} \X Player
Datagram == ToServer \cup ToClient

(* What a client's connection sends: its handshake, and the player's ticks.*)
TickPacket == {"ticks"} \X (1 .. TickPackets)
ClientPacket == {<<"hello", 1>>} \cup TickPacket

Socket == [posted : 0 .. 2,                        \* operations in the reactor
           recvF  : {"pending", "done", "error"},  \* the future the loop holds
           buf    : {<<>>} \cup Datagram]          \* recvBuf

Unposted == [posted |-> 0, recvF |-> "done", buf |-> <<>>]

(* recvF = socket->receiveFrom(...); what recvBuf held has been read. *)
ReceiveFrom(s) == [posted |-> s.posted + 1, recvF |-> "pending", buf |-> <<>>]

(* The reactor completes the oldest posted operation, with a datagram or   *)
(* an error.                                                               *)
Completed(s, d) ==
  [posted |-> s.posted - 1, buf |-> d,
   recvF |-> IF s.posted = 1 THEN "done" ELSE s.recvF]
FailedReceive(s) ==
  [posted |-> s.posted - 1, buf |-> s.buf,
   recvF |-> IF s.posted = 1 THEN "error" ELSE s.recvF]

(* A failure: of at most MaxFaults kinds, each as often as it likes.       *)
(* "heldBack" is picoquic's pacing or congestion window.                   *)
FaultKind == {"serverRecv", "v6", "refuse", "serverPrepare", "serverSend",
              "clientRecv", "timeout", "clientPrepare", "clientSend", "heldBack"}
Fault(kind) ==
  /\ kind \in faults \/ Cardinality(faults) < MaxFaults
  /\ faults' = faults \cup {kind}

(* Mutant of Woken: the list is not searched. *)
WokenAgain(due, p) == Append(due, p)

(* The connection is put in the wake list, behind those already due. *)
Woken(due, p) ==
  IF \E i \in DOMAIN due : due[i] = p THEN due ELSE Append(due, p)
=============================================================================
