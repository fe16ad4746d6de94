----------------------------- MODULE ServerLoop -----------------------------
(***************************************************************************)
(* The loop of fanoutServer (picoquic_fanout_server.actor.cpp) and the     *)
(* process around it (fanout_server_main.actor.cpp).  One actor: it waits  *)
(* for a datagram or for picoquic's timer, then sends what picoquic has.   *)
(* picoquic is external; it is modelled by the connections that are due,   *)
(* in the order of their wake times, and by what each has to send.         *)
(***************************************************************************)
EXTENDS DatagramSocket

VARIABLES
  serverPc,    \* "wait" in the choose, "drain" in the send loop, "exited"
  serverSock,  \* socket, recvF, recvBuf
  serverOpen,  \* picoquic: the connections the server has
  serverDue,   \* picoquic: the due connections, earliest first
  serverOut    \* picoquic: what each connection has to send

serverVars == <<serverPc, serverSock, serverOpen, serverDue, serverOut>>

ServerInit ==
  /\ serverPc = "wait"
  /\ serverSock = ReceiveFrom(Unposted)
  /\ serverOpen = {}
  /\ serverDue = <<>>
  /\ serverOut = [p \in Player |-> {}]

ServerSocketDeliver ==
  /\ serverPc # "exited" /\ serverSock.posted > 0
  /\ \E d \in wire \cap ToServer : serverSock' = Completed(serverSock, d)
  /\ UNCHANGED <<wire, faults, serverPc, serverOpen, serverDue, serverOut>>

ServerSocketFail ==
  /\ serverPc # "exited" /\ serverSock.posted > 0
  /\ Fault("serverRecv")
  /\ serverSock' = FailedReceive(serverSock)
  /\ UNCHANGED <<wire, serverPc, serverOpen, serverDue, serverOut>>

(* picoquic_incoming_packet: a first packet opens the connection, or is    *)
(* refused, and is answered; data of an unknown connection is ignored.     *)
IncomingPacket(kind, p) ==
  \/ /\ kind = "hello" \/ p \in serverOpen
     /\ serverOpen' = serverOpen \cup {p}
     /\ serverOut' = IF kind = "hello"
                       THEN [serverOut EXCEPT ![p] = @ \cup {"reply"}]
                       ELSE serverOut
     /\ serverDue' = Woken(serverDue, p)
     /\ UNCHANGED faults
  \/ /\ kind = "hello" /\ p \notin serverOpen /\ Fault("refuse")
     /\ serverOut' = [serverOut EXCEPT ![p] = @ \cup {"close"}]
     /\ serverDue' = Woken(serverDue, p)
     /\ UNCHANGED serverOpen
  \/ /\ kind # "hello" /\ p \notin serverOpen
     /\ UNCHANGED <<faults, serverOpen, serverOut, serverDue>>

(* when(wait(ready(recvF))): an error is logged, a v6 sender is dropped,   *)
(* any other datagram goes to picoquic; the receive is posted again.       *)
ServerRecv ==
  /\ serverPc = "wait" /\ serverSock.recvF # "pending"
  /\ \/ /\ serverSock.recvF = "error"
        /\ UNCHANGED <<faults, serverOpen, serverDue, serverOut>>
     \/ /\ serverSock.recvF = "done"
        /\ Fault("v6")   \* sender.ip.isV6()
        /\ UNCHANGED <<serverOpen, serverDue, serverOut>>
     \/ /\ serverSock.recvF = "done"
        /\ IncomingPacket(serverSock.buf[1], serverSock.buf[2])
  /\ serverSock' = ReceiveFrom(serverSock)
  /\ serverPc' = "drain"
  /\ UNCHANGED wire

(* Mutants of ServerTimer: the receive is posted again in every iteration; *)
(* only a datagram is followed by the send loop.                           *)
ServerTimerReposts ==
  /\ serverPc = "wait" /\ serverSock.recvF = "pending" /\ serverSock.posted < 2
  /\ serverSock' = ReceiveFrom(serverSock)
  /\ serverPc' = "drain"
  /\ UNCHANGED <<wire, faults, serverOpen, serverDue, serverOut>>

ServerTimerSkipsDrain ==
  /\ serverPc = "wait" /\ serverSock.recvF = "pending"
  /\ UNCHANGED <<wire, faults, serverVars>>

(* when(wait(delay(wakeDelayS))): choose prefers a receive that is ready.  *)
ServerTimer ==
  /\ serverPc = "wait" /\ serverSock.recvF = "pending"
  /\ serverPc' = "drain"
  /\ UNCHANGED <<wire, faults, serverSock, serverOpen, serverDue, serverOut>>

(* picoquic_prepare_next_packet asks the earliest due connection.  After a *)
(* packet it is due again, now the latest; with nothing to send it waits   *)
(* for its next timer and the loop breaks.  (The answers are handshake     *)
(* packets, which are neither paced nor held back by the window.)  sendTo  *)
(* is awaited unguarded: an error ends the actor, and runServerOrReport    *)
(* the process.                                                            *)
ServerBreak ==
  /\ \/ serverDue = <<>> /\ UNCHANGED serverDue
     \/ /\ serverDue # <<>> /\ serverOut[Head(serverDue)] = {}
        /\ serverDue' = Tail(serverDue)
  /\ serverPc' = "wait"
  /\ UNCHANGED <<wire, faults, serverOut>>

ServerSend ==
  LET p == Head(serverDue)
  IN  /\ serverDue # <<>>
      /\ \E kind \in serverOut[p] :
           /\ kind = "reply" => "close" \notin serverOut[p]   \* the refusal came first
           /\ serverOut' = [serverOut EXCEPT ![p] = @ \ {kind}]
           /\ \/ wire' = wire \cup {<<kind, p>>} /\ UNCHANGED <<faults, serverPc>>
              \/ Fault("serverSend") /\ serverPc' = "exited" /\ UNCHANGED wire
      /\ serverDue' = Append(Tail(serverDue), p)

ServerDrain ==
  /\ serverPc = "drain"
  /\ ServerBreak \/ ServerSend
  /\ UNCHANGED <<serverSock, serverOpen>>

(* An error of picoquic_prepare_next_packet also breaks the loop, and      *)
(* leaves the connection the earliest.                                     *)
ServerPrepareError ==
  /\ serverPc = "drain" /\ serverDue # <<>>
  /\ Fault("serverPrepare")
  /\ serverPc' = "wait"
  /\ UNCHANGED <<wire, serverSock, serverOpen, serverDue, serverOut>>

ServerStep == ServerRecv \/ ServerTimer \/ ServerDrain \/ ServerPrepareError
=============================================================================
