----------------------------- MODULE LoadClient -----------------------------
(***************************************************************************)
(* The load client (fanout_load_client.actor.cpp): runOnePlayer, a process *)
(* with one connection, and runManyPlayers, a process with one connection  *)
(* per player on one socket.  The two loops take the same steps in another *)
(* order, and differ in how they wait.                                     *)
(***************************************************************************)
EXTENDS DatagramSocket

VARIABLES
  role,        \* "worker" (runOnePlayer) or "multi" (runManyPlayers)
  crew,        \* players of this process
  clientPc,    \* "top", "wait", "recvOnly", "drain", "ended"
  clientSock,  \* socket, recvF, recvBuf
  state,       \* PlayerCtx.state
  cnx,         \* picoquic: "none", "init", "ready", "closed"
  clientDue,   \* picoquic: the due connections, earliest first
  clientOut,   \* picoquic: what each connection has to send
  expired      \* now() - startTime > deadlineSeconds

clientVars == <<role, crew, clientPc, clientSock, state, cnx, clientDue,
                clientOut, expired>>

(* The order in which the connections of the players in S are created. *)
InOrder(S) ==
  {q \in UNION {[1 .. n -> Player] : n \in 0 .. PlayerCount} :
     /\ {q[i] : i \in DOMAIN q} = S
     /\ \A i, j \in DOMAIN q : i < j => q[i] < q[j]}

(* A worker whose connection cannot be created throws; in runManyPlayers   *)
(* such a player is left Connecting.  Every other connection is due, in    *)
(* the order of creation, with a first packet to send.                     *)
ClientInit ==
  /\ \/ /\ role = "worker" /\ crew = {1}
        /\ cnx = [p \in Player |-> IF p \in crew THEN "init" ELSE "none"]
     \/ /\ role = "multi" /\ crew = Player
        /\ cnx \in [Player -> {"none", "init"}]
  /\ clientPc = "top"
  /\ clientSock = ReceiveFrom(Unposted)
  /\ state = [p \in Player |-> "Connecting"]
  /\ clientDue \in InOrder({p \in Player : cnx[p] = "init"})
  /\ clientOut = [p \in Player |-> IF cnx[p] = "init" THEN {<<"hello", 1>>} ELSE {}]
  /\ expired = FALSE

ClientSocketDeliver ==
  /\ clientPc # "ended" /\ clientSock.posted > 0
  /\ \E d \in wire \cap ToClient : clientSock' = Completed(clientSock, d)
  /\ UNCHANGED <<wire, faults, role, crew, clientPc, state, cnx, clientDue,
                 clientOut, expired>>

ClientSocketFail ==
  /\ clientPc # "ended" /\ clientSock.posted > 0
  /\ Fault("clientRecv")
  /\ clientSock' = FailedReceive(clientSock)
  /\ UNCHANGED <<wire, role, crew, clientPc, state, cnx, clientDue, clientOut, expired>>

(* Time: a connection's retransmission timer, and the deadline. *)
ClientWake ==
  /\ clientPc # "ended"
  /\ \E p \in crew :
       /\ cnx[p] \in {"init", "ready"}
       /\ \A i \in DOMAIN clientDue : clientDue[i] # p
       /\ clientDue' = Append(clientDue, p)
       /\ clientOut' = IF cnx[p] = "init"
                         THEN [clientOut EXCEPT ![p] = {<<"hello", 1>>}] ELSE clientOut
  /\ UNCHANGED <<wire, faults, role, crew, clientPc, clientSock, state, cnx, expired>>

Expire ==
  /\ clientPc # "ended" /\ ~ expired
  /\ expired' = TRUE
  /\ UNCHANGED <<wire, faults, role, crew, clientPc, clientSock, state, cnx,
                 clientDue, clientOut>>

(* loadClientStreamCallback, called from inside picoquic.  The first of    *)
(* almost_ready and ready makes sendAllTicks queue every tick, after which *)
(* the player is Done (picoquic does not send the first packet again); a   *)
(* close fails a player that is not.                                       *)
CallbackReady(p) ==
  IF state[p] = "Connecting"
    THEN /\ state' = [state EXCEPT ![p] = "Done"]
         /\ clientOut' = [clientOut EXCEPT ![p] = TickPacket]
    ELSE UNCHANGED <<state, clientOut>>

(* Mutant of CallbackClose: the events are not told apart. *)
CallbackCloseIsReady(p) == state' = [state EXCEPT ![p] = "Done"]

CallbackClose(p) ==
  state' = IF state[p] = "Done" THEN state ELSE [state EXCEPT ![p] = "Failed"]

(* picoquic_incoming_packet *)
ClientIncoming(kind, p) ==
  \/ /\ kind = "reply" /\ cnx[p] = "init"
     /\ cnx' = [cnx EXCEPT ![p] = "ready"]
     /\ CallbackReady(p)
     /\ clientDue' = Woken(clientDue, p)
  \/ /\ kind = "close" /\ cnx[p] \in {"init", "ready"}
     /\ cnx' = [cnx EXCEPT ![p] = "closed"]
     /\ CallbackClose(p)
     /\ clientOut' = [clientOut EXCEPT ![p] = {}]
     /\ clientDue' = Woken(clientDue, p)
  \/ /\ cnx[p] \notin {"init", "ready"} \/ (kind = "reply" /\ cnx[p] = "ready")
     /\ UNCHANGED <<cnx, state, clientOut, clientDue>>

(* runOnePlayer: top, wait, drain.  runManyPlayers: top, drain, and a wait *)
(* that has a timer only if no connection is due.                          *)
AfterTop == IF role = "worker" THEN "wait" ELSE "drain"

AfterWait == IF role = "worker" THEN "drain" ELSE "top"

AfterDrain(due) ==
  IF role = "worker" THEN "top" ELSE IF due = <<>> THEN "wait" ELSE "recvOnly"

(* Mutant of ClientTop: the deadline is not looked at. *)
ClientTopNoDeadline ==
  /\ clientPc = "top"
  /\ clientPc' = IF \A p \in crew : state[p] \in {"Done", "Failed"}
                   THEN "ended" ELSE AfterTop
  /\ UNCHANGED <<wire, faults, role, crew, clientSock, state, cnx, clientDue,
                 clientOut, expired>>

(* The loop ends when no player is left to wait for, or at the deadline;   *)
(* the connections are deleted with whatever they still had to send.       *)
ClientTop ==
  /\ clientPc = "top"
  /\ clientPc' = IF expired \/ \A p \in crew : state[p] \in {"Done", "Failed"}
                   THEN "ended" ELSE AfterTop
  /\ UNCHANGED <<wire, faults, role, crew, clientSock, state, cnx, clientDue,
                 clientOut, expired>>

ClientRecv ==
  /\ clientPc \in {"wait", "recvOnly"}
  /\ \/ /\ clientSock.recvF = "error"
        /\ UNCHANGED <<state, cnx, clientDue, clientOut>>
     \/ /\ clientSock.recvF = "done"
        /\ ClientIncoming(clientSock.buf[1], clientSock.buf[2])
  /\ clientSock' = ReceiveFrom(clientSock)
  /\ clientPc' = AfterWait
  /\ UNCHANGED <<wire, faults, role, crew, expired>>

ClientTimer ==
  /\ clientPc = "wait" /\ clientSock.recvF = "pending"
  /\ clientPc' = AfterWait
  /\ UNCHANGED <<wire, faults, role, crew, clientSock, state, cnx, clientDue,
                 clientOut, expired>>

(* Mutant of ClientSend: one packet per iteration. *)
ClientSendOnce ==
  LET p == Head(clientDue)
  IN  /\ clientDue # <<>>
      /\ \E packet \in clientOut[p] :
           /\ clientOut' = [clientOut EXCEPT ![p] = @ \ {packet}]
           /\ wire' = wire \cup {<<packet[1], p>>} /\ UNCHANGED faults
      /\ clientDue' = Append(Tail(clientDue), p)
      /\ clientPc' = AfterDrain(clientDue')
      /\ UNCHANGED <<cnx, state>>

(* As in the server, but a failed send is only logged. *)
ClientSend ==
  LET p == Head(clientDue)
  IN  /\ clientDue # <<>>
      /\ \E packet \in clientOut[p] :
           /\ \A other \in clientOut[p] : packet[2] <= other[2]   \* one stream
           /\ clientOut' = [clientOut EXCEPT ![p] = @ \ {packet}]
           /\ \/ wire' = wire \cup {<<packet[1], p>>} /\ UNCHANGED faults
              \/ Fault("clientSend") /\ UNCHANGED wire
      /\ clientDue' = Append(Tail(clientDue), p)
      /\ UNCHANGED <<clientPc, cnx, state>>

(* The loop breaks at sendLength == 0 or an error.  The earliest connection*)
(* has nothing to send, or it has ticks that pacing or the congestion      *)
(* window holds back until a later wake time, or its handshake or idle     *)
(* timer has run out.                                                      *)
ClientBreak ==
  /\ \/ /\ clientDue = <<>>
        /\ UNCHANGED <<faults, clientDue, cnx, state, clientOut>>
     \/ /\ clientDue # <<>> /\ clientOut[Head(clientDue)] = {}
        /\ clientDue' = Tail(clientDue)
        /\ UNCHANGED <<faults, cnx, state, clientOut>>
     \/ /\ clientDue # <<>> /\ cnx[Head(clientDue)] = "ready"
        /\ clientOut[Head(clientDue)] # {} /\ Fault("heldBack")
        /\ clientDue' = Tail(clientDue)
        /\ UNCHANGED <<cnx, state, clientOut>>
     \/ /\ clientDue # <<>> /\ Fault("clientPrepare")
        /\ UNCHANGED <<clientDue, cnx, state, clientOut>>
     \/ /\ clientDue # <<>> /\ cnx[Head(clientDue)] \in {"init", "ready"} /\ Fault("timeout")
        /\ cnx' = [cnx EXCEPT ![Head(clientDue)] = "closed"]
        /\ CallbackClose(Head(clientDue))
        /\ clientOut' = [clientOut EXCEPT ![Head(clientDue)] = {}]
        /\ clientDue' = Tail(clientDue)
  /\ clientPc' = AfterDrain(clientDue')
  /\ UNCHANGED wire

ClientDrain ==
  /\ clientPc = "drain"
  /\ ClientSend \/ ClientBreak
  /\ UNCHANGED <<role, crew, clientSock, expired>>

ClientStep == ClientTop \/ ClientRecv \/ ClientTimer \/ ClientDrain
=============================================================================
