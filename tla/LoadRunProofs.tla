--------------------------- MODULE LoadRunProofs ---------------------------
(***************************************************************************)
(* The two loops and the wire between them, for every number of players,   *)
(* of packets their ticks take and of kinds of failure.                    *)
(*                                                                         *)
(* Sockets: a receive is posted when none is pending, a completion takes   *)
(* the posted one, and every other step leaves the sockets alone.          *)
(* Acceptance: a "reply" is made only for a connection the server has, and *)
(* Done follows from a reply only, on whatever way it came.                *)
(* Ticks: a worker that is Done with something to send is in its send loop *)
(* and its connection is due, so the loop breaks before all is sent only if*)
(* picoquic holds packets back or fails to prepare one.                    *)
(* Wake-ups: whoever has something to send is due in either process, or is *)
(* a client's ready connection that waits for its pacing timer.            *)
(* The worker's iterations: a variant bounds each of them.                 *)
(***************************************************************************)
EXTENDS LoadRun, SequenceTheorems, FiniteSetTheorems, TLAPS

(* A socket whose reactor holds an operation exactly while it is awaited,  *)
(* and whose buffer has a datagram of In when the receive is done.         *)
OneOutstanding(s, In) ==
  /\ s \in Socket
  /\ s.posted = IF s.recvF = "pending" THEN 1 ELSE 0
  /\ s.recvF = "done" => s.buf \in In

SocketsSound == OneOutstanding(serverSock, ToServer) /\ OneOutstanding(clientSock, ToClient)

(* A wake list names each connection at most once. *)
WakeList(due) ==
  /\ due \in Seq(Player)
  /\ \A i, j \in DOMAIN due : due[i] = due[j] => i = j

IsDue(p, due) == \E i \in DOMAIN due : due[i] = p
-----------------------------------------------------------------------------
(* A receive may be posted once the last one has completed (receiveFrom). *)
LEMMA ReceiveFromSound ==
  ASSUME NEW s, NEW In, OneOutstanding(s, In), s.recvF # "pending"
  PROVE  OneOutstanding(ReceiveFrom(s), In)
BY DEF OneOutstanding, ReceiveFrom, Socket

(* The first receive of a loop finds a new socket. *)
LEMMA FirstReceiveSound ==
  ASSUME NEW In
  PROVE  OneOutstanding(ReceiveFrom(Unposted), In)
BY DEF OneOutstanding, ReceiveFrom, Unposted, Socket

(* A datagram completes the receive that is awaited. *)
LEMMA CompletedSound ==
  ASSUME NEW s, NEW In, In \subseteq Datagram, OneOutstanding(s, In),
         s.posted > 0, NEW d \in In
  PROVE  /\ OneOutstanding(Completed(s, d), In)
         /\ Completed(s, d).buf = d
BY DEF OneOutstanding, Completed, Socket

(* So does an error. *)
LEMMA FailedReceiveSound ==
  ASSUME NEW s, NEW In, OneOutstanding(s, In), s.posted > 0
  PROVE  /\ OneOutstanding(FailedReceive(s), In)
         /\ FailedReceive(s).recvF = "error"
BY DEF OneOutstanding, FailedReceive, Socket

(* Putting a connection in the wake list. *)
LEMMA AppendWakeList ==
  ASSUME NEW due, WakeList(due), NEW p \in Player, ~ IsDue(p, due)
  PROVE  /\ WakeList(Append(due, p))
         /\ \A x : IsDue(x, Append(due, p)) <=> x = p \/ IsDue(x, due)
<1>1. /\ Append(due, p) \in Seq(Player)
      /\ DOMAIN Append(due, p) = 1 .. Len(due) + 1
      /\ DOMAIN due = 1 .. Len(due) /\ Len(due) \in Nat
      /\ \A i \in 1 .. Len(due) : Append(due, p)[i] = due[i]
      /\ Append(due, p)[Len(due) + 1] = p
  BY AppendProperties, LenProperties DEF WakeList
<1>2. \A i \in 1 .. Len(due) + 1 : i = Len(due) + 1 \/ i \in 1 .. Len(due)
  BY <1>1
<1> QED BY <1>1, <1>2 DEF WakeList, IsDue

(* Woken searches the list first (picoquic_insert_cnx_by_wake_time). *)
LEMMA WokenWakeList ==
  ASSUME NEW due, WakeList(due), NEW p \in Player
  PROVE  /\ WakeList(Woken(due, p))
         /\ \A x : IsDue(x, Woken(due, p)) <=> x = p \/ IsDue(x, due)
<1>1. CASE IsDue(p, due)
  BY <1>1 DEF Woken, IsDue
<1>2. CASE ~ IsDue(p, due)
  BY <1>2, AppendWakeList DEF Woken, IsDue
<1> QED BY <1>1, <1>2

(* The earliest connection leaves the list. *)
LEMMA TailWakeList ==
  ASSUME NEW due, WakeList(due), due # <<>>
  PROVE  /\ Head(due) \in Player /\ IsDue(Head(due), due)
         /\ WakeList(Tail(due))
         /\ \A x : IsDue(x, Tail(due)) <=> IsDue(x, due) /\ x # Head(due)
<1>1. /\ Tail(due) \in Seq(Player) /\ Head(due) \in Player /\ Head(due) = due[1]
      /\ Len(due) \in Nat \ {0} /\ DOMAIN due = 1 .. Len(due)
      /\ DOMAIN Tail(due) = 1 .. Len(due) - 1
      /\ \A i \in 1 .. Len(due) - 1 : Tail(due)[i] = due[i + 1]
  BY HeadTailProperties, LenProperties, EmptySeq DEF WakeList
<1>2. \A i \in 1 .. Len(due) - 1 : i + 1 \in 1 .. Len(due) /\ i + 1 # 1
  BY <1>1
<1>3. \A i \in 1 .. Len(due) : i = 1 \/ (i - 1 \in 1 .. Len(due) - 1 /\ (i - 1) + 1 = i)
  BY <1>1
<1>4. 1 \in DOMAIN due
  BY <1>1
<1>5. WakeList(Tail(due))
  <2> SUFFICES ASSUME NEW i \in 1 .. Len(due) - 1, NEW j \in 1 .. Len(due) - 1,
                      due[i + 1] = due[j + 1]
               PROVE  i = j
    BY <1>1 DEF WakeList
  <2>1. i + 1 = j + 1
    BY <1>1, <1>2 DEF WakeList
  <2> QED BY <2>1
<1>6. ASSUME NEW x, IsDue(x, Tail(due)) PROVE IsDue(x, due) /\ x # Head(due)
  <2>1. PICK i \in 1 .. Len(due) - 1 : due[i + 1] = x
    BY <1>1, <1>6 DEF IsDue
  <2> QED BY <1>1, <1>2, <1>4, <2>1 DEF IsDue, WakeList
<1>7. ASSUME NEW x, IsDue(x, due), x # Head(due) PROVE IsDue(x, Tail(due))
  <2>1. PICK i \in 1 .. Len(due) : due[i] = x
    BY <1>1, <1>7 DEF IsDue
  <2>2. i # 1
    BY <1>1, <1>7, <2>1
  <2>3. i - 1 \in DOMAIN Tail(due) /\ Tail(due)[i - 1] = x
    BY <1>1, <1>3, <2>1, <2>2
  <2> QED BY <2>3 DEF IsDue
<1> QED BY <1>1, <1>4, <1>5, <1>6, <1>7 DEF IsDue

(* After a packet the earliest connection becomes the latest. *)
LEMMA RotateWakeList ==
  ASSUME NEW due, WakeList(due), due # <<>>
  PROVE  /\ Head(due) \in Player /\ IsDue(Head(due), due)
         /\ WakeList(Append(Tail(due), Head(due)))
         /\ \A x : IsDue(x, Append(Tail(due), Head(due))) <=> IsDue(x, due)
<1>1. /\ Head(due) \in Player /\ WakeList(Tail(due)) /\ ~ IsDue(Head(due), Tail(due))
  BY TailWakeList
<1> QED BY <1>1, TailWakeList, AppendWakeList

(* The order of creation is a wake list of exactly the connections made. *)
LEMMA InOrderWakeList ==
  ASSUME NEW S, NEW q \in InOrder(S)
  PROVE  WakeList(q) /\ \A x : IsDue(x, q) <=> x \in S
<1>1. PICK n \in 0 .. PlayerCount : q \in [1 .. n -> Player]
  BY DEF InOrder
<1>2. q \in Seq(Player)
  BY <1>1, PlayerCountAssumption
<1>3. ASSUME NEW i \in DOMAIN q, NEW j \in DOMAIN q, i < j PROVE q[i] # q[j]
  BY <1>1, <1>3, PlayerCountAssumption DEF InOrder, Player
<1>4. \A i, j \in DOMAIN q : q[i] = q[j] => i = j
  <2> SUFFICES ASSUME NEW i \in DOMAIN q, NEW j \in DOMAIN q, i # j PROVE q[i] # q[j]
    OBVIOUS
  <2>1. i < j \/ j < i
    BY <1>1
  <2> QED BY <2>1, <1>3
<1>5. S = {q[i] : i \in DOMAIN q}
  BY DEF InOrder
<1> QED BY <1>2, <1>4, <1>5 DEF WakeList, IsDue
-----------------------------------------------------------------------------
(* What the server may have queued, sent or delivered as a reply, and a    *)
(* player that is Done, are of connections the server has.                 *)
Accepted ==
  /\ \A p \in Player : <<"reply", p>> \in wire => p \in serverOpen
  /\ \A p \in Player : "reply" \in serverOut[p] => p \in serverOpen
  /\ clientSock.recvF = "done" /\ clientSock.buf[1] = "reply" =>
       clientSock.buf[2] \in serverOpen
  /\ \A p \in Player : state[p] = "Done" => p \in serverOpen

(* picoquic kept a client's packets to itself at least once. *)
Withheld == faults \cap {"heldBack", "clientPrepare"} # {}

(* A worker has one connection, and while that is Done with something to   *)
(* send, it is due and the send loop has not ended.                        *)
Ticks ==
  /\ role = "worker" => crew = {1} /\ \A p \in Player : p # 1 => cnx[p] = "none"
  /\ \A p \in Player : IsDue(p, clientDue) => cnx[p] # "none"
  /\ \A p \in Player : state[p] = "Done" => cnx[p] \in {"ready", "closed"}
  /\ role = "worker" /\ ~ Withheld /\ state[1] = "Done" /\ clientOut[1] # {} =>
       clientPc = "drain" /\ IsDue(1, clientDue)

(* The type of everything but the sockets. *)
Typed ==
  /\ wire \subseteq Datagram /\ faults \subseteq FaultKind
  /\ serverPc \in {"wait", "drain", "exited"}
  /\ clientPc \in {"top", "wait", "recvOnly", "drain", "ended"}
  /\ serverOpen \subseteq Player /\ crew \subseteq Player
  /\ WakeList(serverDue) /\ WakeList(clientDue)
  /\ serverOut \in [Player -> SUBSET {"reply", "close"}]
  /\ clientOut \in [Player -> SUBSET ClientPacket]
  /\ state \in [Player -> {"Connecting", "Done", "Failed"}]
  /\ cnx \in [Player -> {"none", "init", "ready", "closed"}]

IInv == Typed /\ SocketsSound /\ Accepted /\ Ticks

(* A datagram is a kind and a player. *)
LEMMA DatagramParts ==
  ASSUME NEW K, NEW d \in K \X Player
  PROVE  d[1] \in K /\ d[2] \in Player /\ d = <<d[1], d[2]>>
OBVIOUS

(* The loops start with IInv. *)
LEMMA InitIInv == Init => IInv
<1> SUFFICES ASSUME Init PROVE IInv
  OBVIOUS
<1> USE DEF Init, ServerInit, ClientInit
<1>1. SocketsSound
  BY FirstReceiveSound DEF SocketsSound
<1>2. cnx \in [Player -> {"none", "init"}] /\ crew \subseteq Player
  BY PlayerCountAssumption DEF Player
<1>3. WakeList(clientDue) /\ \A p : IsDue(p, clientDue) => p \in Player /\ cnx[p] = "init"
  BY InOrderWakeList
<1>4. WakeList(serverDue)
  BY DEF WakeList
<1>5. Typed
  <2>1. clientOut \in [Player -> SUBSET ClientPacket]
    BY DEF ClientPacket
  <2> QED BY <1>2, <1>3, <1>4, <2>1 DEF Typed
<1>6. Accepted
  BY DEF Accepted, ReceiveFrom
<1>7. Ticks
  BY <1>3, PlayerCountAssumption DEF Ticks, Player
<1> QED BY <1>1, <1>5, <1>6, <1>7 DEF IInv

(* Nothing the server does can undo Ticks, which is about the client. *)
LEMMA TicksOfClient ==
  ASSUME Ticks, UNCHANGED clientVars, faults \subseteq faults'
  PROVE  Ticks'
BY DEF Ticks, Withheld, clientVars, IsDue

(* Receive, hand to picoquic, post the next receive (fanoutServer). *)
LEMMA ServerRecvIInv ==
  ASSUME IInv, ServerRecv, UNCHANGED clientVars
  PROVE  IInv'
<1> USE DEF IInv
<1>1. /\ serverSock.recvF # "pending" /\ serverSock' = ReceiveFrom(serverSock)
      /\ serverPc' = "drain" /\ wire' = wire
  BY DEF ServerRecv
<1>2. SocketsSound'
  BY <1>1, ReceiveFromSound DEF SocketsSound, clientVars
<1>3. CASE UNCHANGED <<serverOpen, serverDue, serverOut>> /\ (UNCHANGED faults \/ Fault("v6"))
  <2>1. Typed'
    BY <1>1, <1>3 DEF Typed, clientVars, Fault, FaultKind, WakeList
  <2>2. Accepted'
    BY <1>1, <1>3 DEF Accepted, clientVars
  <2>3. Ticks'
    BY <1>3, TicksOfClient DEF Fault
  <2> QED BY <1>2, <2>1, <2>2, <2>3
<1>4. CASE serverSock.recvF = "done" /\ IncomingPacket(serverSock.buf[1], serverSock.buf[2])
  <2>1. serverSock.buf \in {"hello", "ticks"} \X Player
    BY <1>4 DEF SocketsSound, OneOutstanding, ToServer
  <2> DEFINE kind == serverSock.buf[1]
             p == serverSock.buf[2]
  <2>2. kind \in {"hello", "ticks"} /\ p \in Player
    BY <2>1, DatagramParts
  <2>3. IncomingPacket(kind, p)
    BY <1>4
  <2> HIDE DEF kind, p
  <2>4. /\ faults' = faults \/ faults' = faults \cup {"refuse"}
        /\ serverOpen \subseteq serverOpen' /\ serverOpen' \subseteq serverOpen \cup {p}
        /\ serverDue' = serverDue \/ serverDue' = Woken(serverDue, p)
        /\ \/ serverOut' = serverOut
           \/ serverOut' = [serverOut EXCEPT ![p] = @ \cup {"reply"}] /\ p \in serverOpen'
           \/ serverOut' = [serverOut EXCEPT ![p] = @ \cup {"close"}]
    BY <2>3 DEF IncomingPacket, Fault
  <2>5. WakeList(serverDue')
    BY <2>2, <2>4, WokenWakeList DEF Typed
  <2>6. Typed'
    <3>1. serverOut' \in [Player -> SUBSET {"reply", "close"}]
      BY <2>2, <2>4 DEF Typed
    <3>2. serverOpen' \subseteq Player /\ faults' \subseteq FaultKind
      BY <2>2, <2>4 DEF Typed, FaultKind
    <3> QED BY <1>1, <2>5, <3>1, <3>2 DEF Typed, clientVars, WakeList
  <2>7. Accepted'
    BY <1>1, <2>2, <2>4 DEF Accepted, Typed, clientVars
  <2>8. Ticks'
    BY <2>4, TicksOfClient
  <2> QED BY <1>2, <2>6, <2>7, <2>8
<1> QED BY <1>3, <1>4 DEF ServerRecv

(* The send loop of the server: a packet, a break, or the end of it. *)
LEMMA ServerDrainIInv ==
  ASSUME IInv, ServerDrain, UNCHANGED clientVars
  PROVE  IInv'
<1> USE DEF IInv
<1>1. serverSock' = serverSock /\ serverOpen' = serverOpen
  BY DEF ServerDrain
<1>2. SocketsSound'
  BY <1>1 DEF SocketsSound, clientVars
<1>3. CASE ServerBreak
  <2>1. /\ wire' = wire /\ serverOut' = serverOut /\ serverPc' = "wait"
        /\ faults' = faults
        /\ serverDue' = serverDue \/ (serverDue # <<>> /\ serverDue' = Tail(serverDue))
    BY <1>3 DEF ServerBreak
  <2>2. WakeList(serverDue')
    BY <2>1, TailWakeList DEF Typed
  <2>3. Typed'
    BY <1>1, <2>1, <2>2 DEF Typed, clientVars, WakeList
  <2>4. Accepted'
    BY <1>1, <2>1 DEF Accepted, clientVars
  <2>5. Ticks'
    BY <2>1, TicksOfClient
  <2> QED BY <1>2, <2>3, <2>4, <2>5
<1>4. CASE ServerSend
  <2> DEFINE p == Head(serverDue)
  <2>1. PICK kind \in serverOut[p] :
          /\ serverOut' = [serverOut EXCEPT ![p] = @ \ {kind}]
          /\ \/ wire' = wire \cup {<<kind, p>>} /\ faults' = faults /\ serverPc' = serverPc
             \/ wire' = wire /\ faults' = faults \cup {"serverSend"} /\ serverPc' = "exited"
    BY <1>4 DEF ServerSend, Fault
  <2>2. p \in Player /\ WakeList(serverDue')
    BY <1>4, RotateWakeList DEF ServerSend, Typed
  <2> HIDE DEF p
  <2>3. kind \in {"reply", "close"}
    BY <2>1, <2>2 DEF Typed
  <2>4. <<kind, p>> \in Datagram
    BY <2>2, <2>3 DEF Datagram, ToClient
  <2>5. Typed'
    BY <1>1, <2>1, <2>2, <2>3, <2>4 DEF Typed, clientVars, FaultKind, WakeList
  <2>6. Accepted'
    <3>1. ASSUME NEW x \in Player, <<"reply", x>> \in wire' PROVE x \in serverOpen
      <4>1. CASE <<"reply", x>> \in wire
        BY <3>1, <4>1 DEF Accepted
      <4>2. CASE <<"reply", x>> = <<kind, p>>
        <5>1. kind = "reply" /\ x = p
          BY <4>2
        <5> QED BY <5>1, <2>1, <2>2 DEF Accepted
      <4> QED BY <3>1, <4>1, <4>2, <2>1
    <3>2. ASSUME NEW x \in Player, "reply" \in serverOut'[x] PROVE x \in serverOpen
      BY <3>2, <2>1, <2>2 DEF Accepted, Typed
    <3> QED BY <1>1, <3>1, <3>2 DEF Accepted, clientVars
  <2>7. Ticks'
    BY <2>1, TicksOfClient
  <2> QED BY <1>2, <2>5, <2>6, <2>7
<1> QED BY <1>3, <1>4 DEF ServerDrain

(* Every step of the server. *)
LEMMA ServerIInv ==
  ASSUME IInv, Server, UNCHANGED clientVars
  PROVE  IInv'
<1>1. CASE ServerTimer
  <2>1. UNCHANGED <<wire, faults, serverSock, serverOpen, serverDue, serverOut>> /\ serverPc' = "drain"
    BY <1>1 DEF ServerTimer
  <2>2. Ticks'
    BY <2>1, TicksOfClient DEF IInv
  <2> QED BY <2>1, <2>2 DEF IInv, Typed, SocketsSound, Accepted, clientVars, WakeList
<1>2. CASE ServerSocketDeliver \/ ServerSocketFail
  <2>1. /\ UNCHANGED <<wire, serverPc, serverOpen, serverDue, serverOut>>
        /\ faults' = faults \/ faults' = faults \cup {"serverRecv"}
    BY <1>2 DEF ServerSocketDeliver, ServerSocketFail, Fault
  <2>2. OneOutstanding(serverSock', ToServer)
    <3>1. ToServer \subseteq Datagram
      BY DEF Datagram
    <3> QED BY <1>2, <3>1, CompletedSound, FailedReceiveSound
            DEF ServerSocketDeliver, ServerSocketFail, IInv, SocketsSound
  <2>3. Ticks'
    BY <2>1, TicksOfClient DEF IInv
  <2> QED BY <2>1, <2>2, <2>3
          DEF IInv, Typed, SocketsSound, Accepted, clientVars, WakeList, FaultKind
<1>3. CASE ServerPrepareError
  <2>1. /\ UNCHANGED <<wire, serverSock, serverOpen, serverDue, serverOut>> /\ serverPc' = "wait"
        /\ faults' = faults \cup {"serverPrepare"}
    BY <1>3 DEF ServerPrepareError, Fault
  <2>2. Ticks'
    BY <2>1, TicksOfClient DEF IInv
  <2> QED BY <2>1, <2>2 DEF IInv, Typed, SocketsSound, Accepted, clientVars, WakeList, FaultKind
<1> QED BY <1>1, <1>2, <1>3, ServerRecvIInv, ServerDrainIInv DEF Server, ServerStep
-----------------------------------------------------------------------------
(* The client's steps leave the server alone, so Accepted needs only that  *)
(* the wire gets no reply and that nobody becomes Done without one.        *)
LEMMA AcceptedOfServer ==
  ASSUME Accepted, UNCHANGED serverVars,
         \A p \in Player : <<"reply", p>> \in wire' => <<"reply", p>> \in wire,
         clientSock' = clientSock \/ clientSock'.recvF # "done",
         \A p \in Player : state'[p] = "Done" => state[p] = "Done" \/ p \in serverOpen
  PROVE  Accepted'
BY DEF Accepted, serverVars

(* A player's state, its connection and what it has to send, after         *)
(* picoquic_incoming_packet in the client: a reply makes a connection      *)
(* ready, a close ends it, anything else changes nothing.                  *)
LEMMA ClientIncomingCases ==
  ASSUME Typed, NEW kind, NEW p \in Player, ClientIncoming(kind, p)
  PROVE  \/ /\ kind = "reply" /\ cnx[p] = "init"
            /\ cnx' = [cnx EXCEPT ![p] = "ready"]
            /\ clientDue' = Woken(clientDue, p)
            /\ \/ /\ state' = [state EXCEPT ![p] = "Done"]
                  /\ clientOut' = [clientOut EXCEPT ![p] = TickPacket]
               \/ state' = state /\ clientOut' = clientOut
         \/ /\ cnx[p] \in {"init", "ready"}
            /\ cnx' = [cnx EXCEPT ![p] = "closed"]
            /\ clientDue' = Woken(clientDue, p)
            /\ clientOut' = [clientOut EXCEPT ![p] = {}]
            /\ \/ state[p] = "Done" /\ state' = state
               \/ state' = [state EXCEPT ![p] = "Failed"]
         \/ UNCHANGED <<cnx, state, clientOut, clientDue>>
BY DEF ClientIncoming, CallbackReady, CallbackClose

(* Receive, hand to picoquic, post the next receive (both clients). *)
LEMMA ClientRecvIInv ==
  ASSUME IInv, ClientRecv, UNCHANGED serverVars
  PROVE  IInv'
<1> USE DEF IInv
<1>1. /\ clientPc \in {"wait", "recvOnly"} /\ clientSock.recvF # "pending"
      /\ clientSock' = ReceiveFrom(clientSock)
      /\ clientPc' = AfterWait /\ UNCHANGED <<wire, faults, role, crew, expired>>
  BY DEF ClientRecv
<1>2. SocketsSound'
  BY <1>1, ReceiveFromSound DEF SocketsSound, serverVars
<1>3. clientPc' \in {"top", "drain"} /\ (role = "worker" => clientPc' = "drain")
  BY <1>1 DEF AfterWait
<1>4. clientSock'.recvF = "pending"
  BY <1>1 DEF ReceiveFrom
<1>5. CASE UNCHANGED <<cnx, state, clientOut, clientDue>>
  <2>1. Typed'
    BY <1>1, <1>3, <1>5 DEF Typed, serverVars, WakeList
  <2>2. Accepted'
    BY <1>1, <1>4, <1>5, AcceptedOfServer
  <2>3. Ticks'
    BY <1>1, <1>5 DEF Ticks, Withheld
  <2> QED BY <1>2, <2>1, <2>2, <2>3
<1>6. CASE clientSock.recvF = "done" /\ ClientIncoming(clientSock.buf[1], clientSock.buf[2])
  <2>1. clientSock.buf \in {"reply", "close"} \X Player
    BY <1>6 DEF SocketsSound, OneOutstanding, ToClient
  <2> DEFINE kind == clientSock.buf[1]
             p == clientSock.buf[2]
  <2>2. kind \in {"reply", "close"} /\ p \in Player
    BY <2>1, DatagramParts
  <2>3. ClientIncoming(kind, p)
    BY <1>6
  <2>4. kind = "reply" => p \in serverOpen
    BY <1>6 DEF Accepted
  <2> HIDE DEF kind, p
  <2>5. CASE /\ kind = "reply" /\ cnx[p] = "init"
             /\ cnx' = [cnx EXCEPT ![p] = "ready"]
             /\ clientDue' = Woken(clientDue, p)
             /\ \/ /\ state' = [state EXCEPT ![p] = "Done"]
                   /\ clientOut' = [clientOut EXCEPT ![p] = TickPacket]
                \/ state' = state /\ clientOut' = clientOut
    <3>1. WakeList(clientDue') /\ \A x : IsDue(x, clientDue') <=> x = p \/ IsDue(x, clientDue)
      BY <2>2, <2>5, WokenWakeList DEF Typed
    <3>2. /\ state' \in [Player -> {"Connecting", "Done", "Failed"}]
          /\ clientOut' \in [Player -> SUBSET ClientPacket]
      BY <2>2, <2>5 DEF Typed, ClientPacket
    <3>3. cnx' \in [Player -> {"none", "init", "ready", "closed"}]
      BY <2>2, <2>5 DEF Typed
    <3>4. Typed'
      BY <1>1, <1>3, <3>1, <3>2, <3>3 DEF Typed, serverVars, WakeList
    <3>5. Accepted'
      <4>1. \A x \in Player : state'[x] = "Done" => state[x] = "Done" \/ x \in serverOpen
        BY <2>2, <2>4, <2>5 DEF Typed
      <4> QED BY <1>1, <1>4, <4>1, AcceptedOfServer
    <3>6. Ticks'
      <4>1. \A x \in Player : cnx'[x] = IF x = p THEN "ready" ELSE cnx[x]
        BY <2>2, <2>5 DEF Typed
      <4>2. \A x \in Player : x # p => state'[x] = state[x] /\ clientOut'[x] = clientOut[x]
        BY <2>2, <2>5 DEF Typed
      <4>3. (role = "worker" => p = 1) /\ 1 \in Player
        BY <2>2, <2>5, PlayerCountAssumption DEF Ticks, Player
      <4> QED BY <1>1, <1>3, <2>2, <3>1, <4>1, <4>2, <4>3 DEF Ticks
    <3> QED BY <1>2, <3>4, <3>5, <3>6
  <2>6. CASE /\ cnx[p] \in {"init", "ready"}
             /\ cnx' = [cnx EXCEPT ![p] = "closed"]
             /\ clientDue' = Woken(clientDue, p)
             /\ clientOut' = [clientOut EXCEPT ![p] = {}]
             /\ \/ state[p] = "Done" /\ state' = state
                \/ state' = [state EXCEPT ![p] = "Failed"]
    <3>1. WakeList(clientDue') /\ \A x : IsDue(x, clientDue') <=> x = p \/ IsDue(x, clientDue)
      BY <2>2, <2>6, WokenWakeList DEF Typed
    <3>2. /\ state' \in [Player -> {"Connecting", "Done", "Failed"}]
          /\ clientOut' \in [Player -> SUBSET ClientPacket]
      BY <2>2, <2>6 DEF Typed
    <3>3. cnx' \in [Player -> {"none", "init", "ready", "closed"}]
      BY <2>2, <2>6 DEF Typed
    <3>4. Typed'
      BY <1>1, <1>3, <3>1, <3>2, <3>3 DEF Typed, serverVars, WakeList
    <3>5. Accepted'
      <4>1. \A x \in Player : state'[x] = "Done" => state[x] = "Done" \/ x \in serverOpen
        BY <2>2, <2>6 DEF Typed
      <4> QED BY <1>1, <1>4, <4>1, AcceptedOfServer
    <3>6. Ticks'
      <4>1. \A x \in Player : cnx'[x] = IF x = p THEN "closed" ELSE cnx[x]
        BY <2>2, <2>6 DEF Typed
      <4>2. \A x \in Player : x # p => state'[x] = state[x] /\ clientOut'[x] = clientOut[x]
        BY <2>2, <2>6 DEF Typed
      <4>3. (role = "worker" => p = 1) /\ 1 \in Player
        BY <2>2, <2>6, PlayerCountAssumption DEF Ticks, Player
      <4> QED BY <1>1, <1>3, <2>2, <3>1, <4>1, <4>2, <4>3 DEF Ticks
    <3> QED BY <1>2, <3>4, <3>5, <3>6
  <2> QED BY <1>5, <2>2, <2>3, <2>5, <2>6, ClientIncomingCases
<1> QED BY <1>5, <1>6 DEF ClientRecv

(* A packet of the send loop of the client. *)
LEMMA ClientSendIInv ==
  ASSUME IInv, ClientDrain, ClientSend, UNCHANGED serverVars
  PROVE  IInv'
<1> USE DEF IInv
<1> DEFINE p == Head(clientDue)
<1>1. /\ clientPc = "drain" /\ UNCHANGED <<clientPc, cnx, state>>
      /\ UNCHANGED <<role, crew, clientSock, expired>>
  BY DEF ClientDrain, ClientSend
<1>2. PICK packet \in clientOut[p] :
        /\ clientOut' = [clientOut EXCEPT ![p] = @ \ {packet}]
        /\ \/ wire' = wire \cup {<<packet[1], p>>} /\ faults' = faults
           \/ wire' = wire /\ faults' = faults \cup {"clientSend"}
  BY DEF ClientSend, Fault
<1>3. /\ p \in Player /\ WakeList(clientDue')
      /\ \A x : IsDue(x, clientDue') <=> IsDue(x, clientDue)
  BY RotateWakeList DEF ClientSend, Typed
<1> HIDE DEF p
<1> DEFINE kind == packet[1]
<1>4. kind \in {"hello", "ticks"}
  <2>1. packet \in ClientPacket
    BY <1>2, <1>3 DEF Typed
  <2> QED BY <2>1 DEF ClientPacket, TickPacket
<1> HIDE DEF kind
<1>5. <<kind, p>> \in Datagram /\ \A x : <<kind, p>> # <<"reply", x>>
  BY <1>3, <1>4 DEF Datagram, ToServer
<1>a. wire' = wire \cup {<<kind, p>>} \/ wire' = wire
  BY <1>2 DEF kind
<1>b. faults' = faults \/ faults' = faults \cup {"clientSend"}
  BY <1>2
<1>6. Typed'
  <2>1. clientOut' \in [Player -> SUBSET ClientPacket]
    BY <1>2, <1>3 DEF Typed
  <2> QED BY <1>1, <1>3, <1>5, <1>a, <1>b, <2>1 DEF Typed, serverVars, WakeList, FaultKind
<1>7. SocketsSound'
  BY <1>1 DEF SocketsSound, serverVars
<1>8. Accepted'
  BY <1>1, <1>5, <1>a, AcceptedOfServer
<1>9. Ticks'
  <2>1. 1 \in Player /\ (clientOut'[1] # {} => clientOut[1] # {})
    BY <1>2, <1>3, PlayerCountAssumption DEF Typed, Player
  <2>2. Withheld => Withheld'
    BY <1>b DEF Withheld
  <2> QED BY <1>1, <1>3, <2>1, <2>2 DEF Ticks
<1> QED BY <1>6, <1>7, <1>8, <1>9

(* The send loop ends: there is nothing due, or nothing to send, or packets*)
(* held back, or an error, or the connection's timer has run out.  A       *)
(* worker's one connection is the head of the list, so without the third   *)
(* and the fourth it has nothing left to send.                             *)
LEMMA ClientBreakIInv ==
  ASSUME IInv, ClientDrain, ClientBreak, UNCHANGED serverVars
  PROVE  IInv'
<1> USE DEF IInv
<1> DEFINE p == Head(clientDue)
<1>1. /\ clientPc = "drain" /\ clientPc' \in {"top", "wait", "recvOnly"} /\ wire' = wire
      /\ UNCHANGED <<role, crew, clientSock, expired>>
  BY DEF ClientDrain, ClientBreak, AfterDrain
<1>2. SocketsSound'
  BY <1>1 DEF SocketsSound, serverVars
<1>3. clientDue # <<>> => p \in Player /\ cnx[p] # "none" /\ (role = "worker" => p = 1)
  BY TailWakeList DEF Typed, Ticks
<1>4. CASE /\ UNCHANGED <<cnx, state, clientOut>>
           /\ \/ clientDue = <<>> /\ UNCHANGED <<faults, clientDue>>
              \/ clientDue # <<>> /\ clientOut[p] = {} /\ clientDue' = Tail(clientDue)
                   /\ UNCHANGED faults
              \/ clientDue # <<>> /\ Fault("heldBack") /\ clientDue' = Tail(clientDue)
              \/ clientDue # <<>> /\ Fault("clientPrepare") /\ clientDue' = clientDue
  <2>1. WakeList(clientDue') /\ \A x : IsDue(x, clientDue') => IsDue(x, clientDue)
    BY <1>4, TailWakeList DEF Typed
  <2>2. Typed'
    BY <1>1, <1>4, <2>1 DEF Typed, serverVars, WakeList, Fault, FaultKind
  <2>3. Accepted'
    BY <1>1, <1>4, AcceptedOfServer
  <2>4. Ticks'
    <3>1. /\ \A x \in Player : IsDue(x, clientDue') => cnx'[x] # "none"
          /\ \A x \in Player : state'[x] = "Done" => cnx'[x] \in {"ready", "closed"}
          /\ role' = "worker" => crew' = {1} /\ \A x \in Player : x # 1 => cnx'[x] = "none"
      BY <1>1, <1>4, <2>1 DEF Ticks
    <3>2. ASSUME role = "worker", ~ Withheld', state[1] = "Done"
          PROVE  clientOut[1] = {}
      <4>1. clientDue = <<>> => ~ IsDue(1, clientDue)
        BY DEF IsDue
      <4>2. ~ Withheld /\ (clientDue = <<>> \/ clientOut[p] = {})
        BY <1>4, <3>2 DEF Withheld, Fault
      <4> QED BY <1>3, <3>2, <4>1, <4>2 DEF Ticks
    <3> QED BY <1>1, <1>4, <3>1, <3>2 DEF Ticks
  <2> QED BY <1>2, <2>2, <2>3, <2>4
<1>5. CASE /\ clientDue # <<>> /\ cnx[p] \in {"init", "ready"} /\ Fault("timeout")
           /\ cnx' = [cnx EXCEPT ![p] = "closed"]
           /\ CallbackClose(p)
           /\ clientOut' = [clientOut EXCEPT ![p] = {}]
           /\ clientDue' = Tail(clientDue)
  <2>1. WakeList(clientDue') /\ \A x : IsDue(x, clientDue') => IsDue(x, clientDue)
    BY <1>5, TailWakeList DEF Typed
  <2> HIDE DEF p
  <2>2. /\ state' \in [Player -> {"Connecting", "Done", "Failed"}]
        /\ \A x \in Player : state'[x] = "Done" => state[x] = "Done"
    BY <1>3, <1>5 DEF CallbackClose, Typed
  <2>3. /\ clientOut' \in [Player -> SUBSET ClientPacket]
        /\ clientOut'[p] = {}
    BY <1>3, <1>5 DEF Typed
  <2>4. /\ cnx' \in [Player -> {"none", "init", "ready", "closed"}]
        /\ \A x \in Player : cnx'[x] = IF x = p THEN "closed" ELSE cnx[x]
    BY <1>3, <1>5 DEF Typed
  <2>5. Typed'
    <3>1. faults' \subseteq FaultKind
      BY <1>5 DEF Fault, FaultKind, Typed
    <3> QED BY <1>1, <2>1, <2>2, <2>3, <2>4, <3>1 DEF Typed, serverVars, WakeList
  <2>6. Accepted'
    BY <1>1, <2>2, AcceptedOfServer
  <2>7. Ticks'
    <3>1. 1 \in Player
      BY PlayerCountAssumption DEF Player
    <3>2. role = "worker" => clientOut'[1] = {}
      BY <1>3, <1>5, <2>3
    <3>3. role' = role /\ crew' = crew
      BY <1>1
    <3> QED BY <1>3, <1>5, <2>1, <2>2, <2>4, <3>1, <3>2, <3>3 DEF Ticks
  <2> QED BY <1>2, <2>5, <2>6, <2>7
<1> QED BY <1>4, <1>5 DEF ClientBreak

(* Every step of the client. *)
LEMMA ClientIInv ==
  ASSUME IInv, Client, UNCHANGED serverVars
  PROVE  IInv'
<1> USE DEF IInv
<1>1. CASE ClientTop
  <2>1. /\ clientPc = "top" /\ clientPc' \in {"ended", "wait", "drain"}
        /\ UNCHANGED <<wire, faults, role, crew, clientSock, state, cnx, clientDue, clientOut>>
    BY <1>1 DEF ClientTop, AfterTop
  <2>2. Accepted'
    BY <2>1, AcceptedOfServer
  <2> QED BY <2>1, <2>2 DEF Typed, SocketsSound, Ticks, Withheld, serverVars, WakeList
<1>2. CASE ClientTimer
  <2>1. /\ clientPc = "wait" /\ clientPc' \in {"top", "drain"}
        /\ UNCHANGED <<wire, faults, role, crew, clientSock, state, cnx, clientDue, clientOut>>
    BY <1>2 DEF ClientTimer, AfterWait
  <2>2. Accepted'
    BY <2>1, AcceptedOfServer
  <2> QED BY <2>1, <2>2 DEF Typed, SocketsSound, Ticks, Withheld, serverVars, WakeList
<1>3. CASE Expire
  <2>1. UNCHANGED <<wire, faults, role, crew, clientPc, clientSock, state, cnx, clientDue, clientOut>>
    BY <1>3 DEF Expire
  <2>2. Accepted'
    BY <2>1, AcceptedOfServer
  <2> QED BY <2>1, <2>2 DEF Typed, SocketsSound, Ticks, Withheld, serverVars, WakeList
<1>4. CASE ClientSocketDeliver
  <2>1. PICK d \in wire \cap ToClient : clientSock' = Completed(clientSock, d)
    BY <1>4 DEF ClientSocketDeliver
  <2>2. /\ UNCHANGED <<wire, faults, role, crew, clientPc, state, cnx, clientDue, clientOut>>
        /\ clientSock.posted > 0
    BY <1>4 DEF ClientSocketDeliver
  <2>3. ToClient \subseteq Datagram
    BY DEF Datagram
  <2>4. OneOutstanding(clientSock', ToClient) /\ clientSock'.buf = d
    BY <2>1, <2>2, <2>3, CompletedSound DEF SocketsSound
  <2>5. SocketsSound'
    BY <2>4 DEF SocketsSound, serverVars
  <2>6. Accepted'
    <3>1. d[2] \in Player /\ d = <<d[1], d[2]>>
      BY <2>1, DatagramParts DEF ToClient
    <3>2. d[1] = "reply" => d[2] \in serverOpen
      BY <3>1, <2>1 DEF Accepted
    <3> QED BY <2>2, <2>4, <3>2 DEF Accepted, serverVars
  <2> QED BY <2>2, <2>5, <2>6 DEF Typed, Ticks, Withheld, serverVars, WakeList
<1>5. CASE ClientSocketFail
  <2>1. /\ UNCHANGED <<wire, role, crew, clientPc, state, cnx, clientDue, clientOut>>
        /\ faults' = faults \cup {"clientRecv"}
    BY <1>5 DEF ClientSocketFail, Fault
  <2>2. OneOutstanding(clientSock', ToClient) /\ clientSock'.recvF = "error"
    BY <1>5, FailedReceiveSound DEF ClientSocketFail, SocketsSound
  <2>3. SocketsSound'
    BY <2>2 DEF SocketsSound, serverVars
  <2>4. Accepted'
    BY <2>1, <2>2, AcceptedOfServer
  <2>5. Ticks'
    BY <2>1 DEF Ticks, Withheld
  <2> QED BY <2>1, <2>3, <2>4, <2>5 DEF Typed, serverVars, WakeList, FaultKind
<1>6. CASE ClientWake
  <2>1. PICK p \in crew :
          /\ cnx[p] \in {"init", "ready"} /\ ~ IsDue(p, clientDue)
          /\ clientDue' = Append(clientDue, p)
          /\ clientOut' = IF cnx[p] = "init"
                            THEN [clientOut EXCEPT ![p] = {<<"hello", 1>>}] ELSE clientOut
    BY <1>6 DEF ClientWake, IsDue
  <2>2. UNCHANGED <<wire, faults, role, crew, clientPc, clientSock, state, cnx>>
    BY <1>6 DEF ClientWake
  <2>3. p \in Player
    BY <2>1 DEF Typed
  <2>4. WakeList(clientDue') /\ \A x : IsDue(x, clientDue') <=> x = p \/ IsDue(x, clientDue)
    BY <2>1, <2>3, AppendWakeList DEF Typed
  <2>5. /\ clientOut' \in [Player -> SUBSET ClientPacket]
        /\ \A x \in Player : cnx[x] # "init" => clientOut'[x] = clientOut[x]
    BY <2>1, <2>3 DEF Typed, ClientPacket
  <2>6. Typed' /\ SocketsSound'
    BY <2>2, <2>4, <2>5 DEF Typed, SocketsSound, serverVars, WakeList
  <2>7. Accepted'
    BY <2>2, AcceptedOfServer
  <2>8. Ticks'
    <3>1. 1 \in Player
      BY PlayerCountAssumption DEF Player
    <3> QED BY <2>1, <2>2, <2>4, <2>5, <3>1 DEF Ticks, Withheld
  <2> QED BY <2>6, <2>7, <2>8
<1>7. CASE ClientDrain
  <2>1. ClientSend \/ ClientBreak
    BY <1>7 DEF ClientDrain
  <2> QED BY <1>7, <2>1, ClientSendIInv, ClientBreakIInv
<1> QED BY <1>1, <1>2, <1>3, <1>4, <1>5, <1>6, <1>7, ClientRecvIInv DEF Client, ClientStep
-----------------------------------------------------------------------------
(* IInv holds in every state of the two processes, whatever the wire loses,*)
(* repeats or reorders and whatever fails.                                 *)
THEOREM LoadRunInvariant == Spec => []IInv
<1>1. IInv /\ [Next]_vars => IInv'
  <2> SUFFICES ASSUME IInv, [Next]_vars PROVE IInv'
    OBVIOUS
  <2>1. CASE Server /\ UNCHANGED clientVars
    BY <2>1, ServerIInv
  <2>2. CASE Client /\ UNCHANGED serverVars
    BY <2>2, ClientIInv
  <2>3. CASE UNCHANGED vars
    BY <2>3 DEF IInv, Typed, SocketsSound, Accepted, Ticks, vars, serverVars, clientVars,
                WakeList, IsDue, Withheld
  <2> QED BY <2>1, <2>2, <2>3 DEF Next
<1> QED BY <1>1, InitIInv, PTL DEF Spec

(* The state of both processes keeps its type, and no connection is twice  *)
(* in a wake list, however often it is woken.                              *)
THEOREM LoadRunTypeOK == Spec => []TypeOK
<1>1. IInv => TypeOK
  BY DEF IInv, Typed, TypeOK, SocketsSound, OneOutstanding, WakeList
<1> QED BY <1>1, LoadRunInvariant, PTL

(* Exactly one receive is outstanding in either process, or one has        *)
(* completed and is about to be handled, whatever the order of datagrams,  *)
(* timers, sends and failures: NoReceiveAbandoned of the loops of          *)
(* fanoutServer, runOnePlayer and runManyPlayers.                          *)
THEOREM OneReceiveOutstanding == Spec => []NoReceiveAbandoned
<1>1. IInv => NoReceiveAbandoned
  BY DEF IInv, SocketsSound, NoReceiveAbandoned, OneOutstanding
<1> QED BY <1>1, LoadRunInvariant, PTL

(* A player counts as Done only if the server accepted its connection.     *)
THEOREM DoneOnlyIfAccepted == Spec => []DoneWasAccepted
<1>1. IInv => DoneWasAccepted
  BY DEF IInv, Typed, Accepted, DoneWasAccepted
<1> QED BY <1>1, LoadRunInvariant, PTL

(* A worker that returns with a Done player has handed every tick to the   *)
(* socket, in however many packets, unless picoquic held packets back or   *)
(* failed to prepare one.                                                  *)
THEOREM WorkerSendsBeforeItReturns == Spec => []WorkerSentItsTicks
<1>1. IInv => WorkerSentItsTicks
  BY DEF IInv, Ticks, WorkerSentItsTicks, Withheld
<1> QED BY <1>1, LoadRunInvariant, PTL

-----------------------------------------------------------------------------
(* No wake-up is lost in either loop: a connection with something to send  *)
(* is in the wake list, so picoquic's next wake time, from which the loop  *)
(* takes its timer, is its own or an earlier one.  This is what            *)
(* RequestAnswered rests on: a break at another connection, an error or a  *)
(* packet that was refused leaves nothing to send that nobody is woken for.*)
(* A client's connection is out of the list only while its packets are held*)
(* back, and then it is ready and ClientWake puts it in again.             *)
Scheduled ==
  \A p \in Player :
    /\ serverOut[p] # {} => IsDue(p, serverDue)
    /\ clientOut[p] # {} => IsDue(p, clientDue) \/ cnx[p] = "ready"

(* runManyPlayers alone ever waits for a datagram without a timer, and only*)
(* when a connection is due; runOnePlayer always has one.                  *)
AlwaysTimed == clientPc = "recvOnly" => role # "worker" /\ clientDue # <<>>

(* Every step of the server leaves what it has to send scheduled. *)
LEMMA ServerScheduled ==
  ASSUME IInv, Scheduled, Server, NEW p \in Player, serverOut'[p] # {}
  PROVE  IsDue(p, serverDue')
<1>1. CASE ServerTimer \/ ServerSocketDeliver \/ ServerSocketFail \/ ServerPrepareError
  <2>1. serverOut' = serverOut /\ serverDue' = serverDue
    BY <1>1 DEF ServerTimer, ServerSocketDeliver, ServerSocketFail, ServerPrepareError
  <2> QED BY <2>1 DEF Scheduled
<1>2. CASE ServerRecv
  <2>1. CASE UNCHANGED <<serverOut, serverDue>>
    BY <2>1 DEF Scheduled
  <2>2. CASE serverSock.recvF = "done" /\ IncomingPacket(serverSock.buf[1], serverSock.buf[2])
    <3>1. serverSock.buf \in {"hello", "ticks"} \X Player
      BY <2>2 DEF IInv, SocketsSound, OneOutstanding, ToServer
    <3> DEFINE kind == serverSock.buf[1]
               q == serverSock.buf[2]
    <3>2. q \in Player
      BY <3>1, DatagramParts
    <3>3. IncomingPacket(kind, q)
      BY <2>2
    <3> HIDE DEF kind, q
    <3>4. \/ UNCHANGED <<serverOut, serverDue>>
          \/ serverDue' = Woken(serverDue, q) /\ (p # q => serverOut'[p] = serverOut[p])
      BY <3>2, <3>3 DEF IncomingPacket, IInv, Typed
    <3>5. \A x : IsDue(x, Woken(serverDue, q)) <=> x = q \/ IsDue(x, serverDue)
      BY <3>2, WokenWakeList DEF IInv, Typed
    <3> QED BY <3>4, <3>5 DEF Scheduled
  <2> QED BY <1>2, <2>1, <2>2 DEF ServerRecv
<1>3. CASE ServerDrain
  <2>1. CASE ServerBreak
    <3>1. /\ serverOut' = serverOut
          /\ \/ serverDue' = serverDue
             \/ serverDue # <<>> /\ serverOut[Head(serverDue)] = {} /\ serverDue' = Tail(serverDue)
      BY <2>1 DEF ServerBreak
    <3>2. IsDue(p, serverDue)
      BY <3>1 DEF Scheduled
    <3>3. ASSUME serverDue # <<>>, p # Head(serverDue) PROVE IsDue(p, Tail(serverDue))
      BY <3>2, <3>3, TailWakeList DEF IInv, Typed
    <3> QED BY <3>1, <3>2, <3>3
  <2>2. CASE ServerSend
    <3>1. /\ serverDue # <<>> /\ serverDue' = Append(Tail(serverDue), Head(serverDue))
          /\ \E kind : serverOut' = [serverOut EXCEPT ![Head(serverDue)] = @ \ {kind}]
      BY <2>2 DEF ServerSend
    <3>2. serverOut[p] # {}
      BY <3>1 DEF IInv, Typed
    <3> QED BY <3>1, <3>2, RotateWakeList DEF Scheduled, IInv, Typed
  <2> QED BY <1>3, <2>1, <2>2 DEF ServerDrain
<1> QED BY <1>1, <1>2, <1>3 DEF Server, ServerStep

(* So does every step of the client. *)
LEMMA ClientScheduled ==
  ASSUME IInv, Scheduled, Client, NEW p \in Player, clientOut'[p] # {}
  PROVE  IsDue(p, clientDue') \/ cnx'[p] = "ready"
<1>1. CASE UNCHANGED <<clientOut, clientDue, cnx>>
  BY <1>1 DEF Scheduled
<1>2. CASE ClientWake
  <2>1. PICK q \in crew :
          /\ ~ IsDue(q, clientDue) /\ clientDue' = Append(clientDue, q)
          /\ clientOut' = IF cnx[q] = "init"
                            THEN [clientOut EXCEPT ![q] = {<<"hello", 1>>}] ELSE clientOut
    BY <1>2 DEF ClientWake, IsDue
  <2>2. q \in Player /\ cnx' = cnx
    BY <1>2, <2>1 DEF IInv, Typed, ClientWake
  <2>3. \A x : IsDue(x, clientDue') <=> x = q \/ IsDue(x, clientDue)
    BY <2>1, <2>2, AppendWakeList DEF IInv, Typed
  <2>4. p # q => clientOut'[p] = clientOut[p]
    BY <2>1, <2>2 DEF IInv, Typed
  <2> QED BY <2>2, <2>3, <2>4 DEF Scheduled
<1>3. CASE clientSock.recvF = "done" /\ ClientIncoming(clientSock.buf[1], clientSock.buf[2])
  <2>1. clientSock.buf \in {"reply", "close"} \X Player
    BY <1>3 DEF IInv, SocketsSound, OneOutstanding, ToClient
  <2> DEFINE kind == clientSock.buf[1]
             q == clientSock.buf[2]
  <2>2. q \in Player
    BY <2>1, DatagramParts
  <2>3. ClientIncoming(kind, q)
    BY <1>3
  <2> HIDE DEF kind, q
  <2>4. \/ UNCHANGED <<clientOut, clientDue, cnx>>
        \/ /\ clientDue' = Woken(clientDue, q)
           /\ p # q => clientOut'[p] = clientOut[p] /\ cnx'[p] = cnx[p]
    BY <2>2, <2>3 DEF ClientIncoming, CallbackReady, IInv, Typed
  <2>5. \A x : IsDue(x, Woken(clientDue, q)) <=> x = q \/ IsDue(x, clientDue)
    BY <2>2, WokenWakeList DEF IInv, Typed
  <2> QED BY <2>4, <2>5 DEF Scheduled
<1>4. CASE ClientSend
  <2>1. /\ clientDue # <<>> /\ clientDue' = Append(Tail(clientDue), Head(clientDue))
        /\ \E packet : clientOut' = [clientOut EXCEPT ![Head(clientDue)] = @ \ {packet}]
        /\ cnx' = cnx
    BY <1>4 DEF ClientSend
  <2>2. clientOut[p] # {}
    BY <2>1 DEF IInv, Typed
  <2> QED BY <2>1, <2>2, RotateWakeList DEF Scheduled, IInv, Typed
<1>5. CASE ClientBreak
  <2> DEFINE q == Head(clientDue)
  <2>1. CASE clientDue # <<>> /\ clientDue' = Tail(clientDue)
    <3>1. /\ q \in Player
          /\ \A x : IsDue(x, clientDue') <=> IsDue(x, clientDue) /\ x # q
      BY <2>1, TailWakeList DEF IInv, Typed
    <3>2. \/ UNCHANGED <<cnx, clientOut>> /\ clientOut[q] = {}
          \/ UNCHANGED <<cnx, clientOut>> /\ cnx[q] = "ready"
          \/ UNCHANGED <<cnx, clientOut, clientDue>>
          \/ /\ cnx' = [cnx EXCEPT ![q] = "closed"]
             /\ clientOut' = [clientOut EXCEPT ![q] = {}]
      BY <1>5, <2>1 DEF ClientBreak
    <3> HIDE DEF q
    <3>3. CASE UNCHANGED <<cnx, clientOut>> /\ (clientOut[q] = {} \/ cnx[q] = "ready")
      BY <3>1, <3>3 DEF Scheduled
    <3>4. CASE /\ cnx' = [cnx EXCEPT ![q] = "closed"]
               /\ clientOut' = [clientOut EXCEPT ![q] = {}]
      <4>1. p # q /\ cnx'[p] = cnx[p] /\ clientOut'[p] = clientOut[p]
        BY <3>1, <3>4 DEF IInv, Typed
      <4> QED BY <3>1, <4>1 DEF Scheduled
    <3> QED BY <1>1, <3>2, <3>3, <3>4
  <2>2. UNCHANGED <<clientOut, clientDue, cnx>> \/ (clientDue # <<>> /\ clientDue' = Tail(clientDue))
    BY <1>5 DEF ClientBreak
  <2> QED BY <1>1, <2>1, <2>2
<1>6. UNCHANGED <<clientOut, clientDue, cnx>> \/ ClientWake
      \/ (clientSock.recvF = "done" /\ ClientIncoming(clientSock.buf[1], clientSock.buf[2]))
      \/ ClientSend \/ ClientBreak
  BY DEF Client, ClientStep, ClientTop, ClientTimer, ClientRecv, ClientDrain,
         ClientSocketDeliver, ClientSocketFail, Expire
<1> QED BY <1>1, <1>2, <1>3, <1>4, <1>5, <1>6

(* Scheduled holds at the start: a connection is made due with its first   *)
(* packet.                                                                 *)
LEMMA InitScheduled == Init => Scheduled
<1> SUFFICES ASSUME Init, NEW p \in Player, clientOut[p] # {} PROVE IsDue(p, clientDue)
  BY DEF Init, ServerInit, Scheduled
<1>1. cnx[p] = "init"
  BY DEF Init, ClientInit
<1> QED BY <1>1, InOrderWakeList DEF Init, ClientInit

(* What either side has to send is never left without a wake-up, for every *)
(* number of connections, whatever is lost, repeated, refused or fails.    *)
THEOREM NoWakeupLost == Spec => []Scheduled
<1>1. IInv /\ Scheduled /\ [Next]_vars => Scheduled'
  <2> SUFFICES ASSUME IInv, Scheduled, [Next]_vars PROVE Scheduled'
    OBVIOUS
  <2>1. CASE Server /\ UNCHANGED clientVars
    <3>1. clientOut' = clientOut /\ clientDue' = clientDue /\ cnx' = cnx
      BY <2>1 DEF clientVars
    <3> QED BY <2>1, <3>1, ServerScheduled DEF Scheduled
  <2>2. CASE Client /\ UNCHANGED serverVars
    <3>1. serverOut' = serverOut /\ serverDue' = serverDue
      BY <2>2 DEF serverVars
    <3> QED BY <2>2, <3>1, ClientScheduled DEF Scheduled
  <2>3. CASE UNCHANGED vars
    BY <2>3 DEF Scheduled, vars, serverVars, clientVars
  <2> QED BY <2>1, <2>2, <2>3 DEF Next
<1> QED BY <1>1, InitScheduled, LoadRunInvariant, PTL DEF Spec
-----------------------------------------------------------------------------
(* An untimed wait is one of runManyPlayers, and has something due for as  *)
(* long as it lasts.                                                       *)
LEMMA NextTimed == IInv /\ AlwaysTimed /\ [Next]_vars => AlwaysTimed'
<1> SUFFICES ASSUME IInv, AlwaysTimed, [Next]_vars, clientPc' = "recvOnly"
             PROVE  role' # "worker" /\ clientDue' # <<>>
  BY DEF AlwaysTimed
<1>1. CASE UNCHANGED <<role, clientPc, clientDue>>
  BY <1>1 DEF AlwaysTimed
<1>2. CASE ClientDrain /\ ClientBreak
  <2>1. clientPc' = AfterDrain(clientDue') /\ role' = role
    BY <1>2 DEF ClientBreak, ClientDrain
  <2> QED BY <2>1 DEF AfterDrain
<1>3. CASE ClientWake
  <2>1. PICK p \in crew : clientDue' = Append(clientDue, p)
    BY <1>3 DEF ClientWake
  <2>2. clientDue \in Seq(Player) /\ p \in Player
    BY <2>1 DEF IInv, Typed, WakeList
  <2>3. clientDue' # <<>>
    BY <2>1, <2>2, AppendProperties
  <2>4. role' = role /\ clientPc' = clientPc
    BY <1>3 DEF ClientWake
  <2> QED BY <2>3, <2>4 DEF AlwaysTimed
<1>4. CASE ClientTop \/ ClientTimer \/ ClientRecv
  BY <1>4 DEF ClientTop, ClientTimer, ClientRecv, AfterTop, AfterWait
<1>5. CASE ClientDrain /\ ClientSend
  BY <1>5 DEF ClientDrain, ClientSend
<1>6. CASE ClientSocketDeliver \/ ClientSocketFail \/ Expire
  BY <1>1, <1>6 DEF ClientSocketDeliver, ClientSocketFail, Expire
<1>7. CASE UNCHANGED clientVars
  BY <1>1, <1>7 DEF clientVars
<1> QED BY <1>2, <1>3, <1>4, <1>5, <1>6, <1>7
        DEF Next, Client, ClientStep, ClientDrain, vars

(* Packets player 1 may still send in this send loop; before it is due,    *)
(* more than it can have.                                                  *)
ToSend ==
  IF IsDue(1, clientDue) THEN Cardinality(clientOut[1]) ELSE TickPackets + 2

(* Steps of a worker until it looks at its deadline and returns. *)
StepsToReturn ==
  IF clientPc = "ended" THEN 0
  ELSE IF clientPc = "top" THEN 1
  ELSE IF clientPc = "drain" THEN 2 + ToSend
  ELSE TickPackets + 5

(* runOnePlayer looks at deadlineSeconds in every iteration, and an        *)
(* iteration is at most TickPackets + 5 steps long: each step of the actor *)
(* is one closer to the return, unless it is a look at a deadline that has *)
(* not passed; no datagram, timer, failure, retransmission or packet held  *)
(* back puts it off.                                                       *)
DeadlineIsLookedAt ==
  [][role = "worker" =>
       \/ clientPc = "top" /\ ~ expired /\ clientPc' = "wait"
       \/ /\ StepsToReturn' <= StepsToReturn
          /\ ClientStep => StepsToReturn' < StepsToReturn]_vars

(* What a connection has to send is finite. *)
LEMMA PacketsFinite ==
  ASSUME NEW S, S \subseteq ClientPacket
  PROVE  IsFiniteSet(S) /\ Cardinality(S) \in 0 .. TickPackets + 1
<1> DEFINE I == 0 .. TickPackets
           F == [i \in I |-> IF i = 0 THEN <<"hello", 1>> ELSE <<"ticks", i>>]
<1>1. IsFiniteSet(I) /\ Cardinality(I) = TickPackets + 1
  BY FS_Interval, TickPacketsAssumption
<1>2. F \in Surjection(I, ClientPacket)
  <2>1. \A i \in I : F[i] \in ClientPacket
    BY TickPacketsAssumption DEF ClientPacket, TickPacket
  <2>2. ASSUME NEW x \in ClientPacket PROVE \E i \in I : F[i] = x
    <3>1. CASE x = <<"hello", 1>>
      BY <3>1, TickPacketsAssumption
    <3>2. CASE x \in TickPacket
      <4>1. PICK i \in 1 .. TickPackets : x = <<"ticks", i>>
        BY <3>2 DEF TickPacket
      <4> QED BY <4>1, TickPacketsAssumption
    <3> QED BY <3>1, <3>2 DEF ClientPacket
  <2> QED BY <2>1, <2>2 DEF Surjection
<1>3. IsFiniteSet(ClientPacket) /\ Cardinality(ClientPacket) <= TickPackets + 1
  BY <1>1, <1>2, FS_Surjection
<1> QED BY <1>3, FS_Subset, FS_CardinalityType, TickPacketsAssumption

(* The bounds of the variant's part for the send loop. *)
LEMMA ToSendBounds ==
  ASSUME IInv, IInv'
  PROVE  ToSend \in 0 .. TickPackets + 2 /\ ToSend' \in 0 .. TickPackets + 2
<1>1. clientOut[1] \subseteq ClientPacket /\ clientOut'[1] \subseteq ClientPacket
  BY PlayerCountAssumption DEF IInv, Typed, Player
<1>2. /\ Cardinality(clientOut[1]) \in 0 .. TickPackets + 1
      /\ Cardinality(clientOut'[1]) \in 0 .. TickPackets + 1
  BY <1>1, PacketsFinite
<1> QED BY <1>2, TickPacketsAssumption DEF ToSend

(* A worker that is due is due first. *)
LEMMA WorkerIsHead ==
  ASSUME IInv, role = "worker", clientDue # <<>>
  PROVE  Head(clientDue) = 1 /\ IsDue(1, clientDue)
<1>1. Head(clientDue) \in Player /\ IsDue(Head(clientDue), clientDue)
  BY TailWakeList DEF IInv, Typed
<1> QED BY <1>1 DEF IInv, Ticks

(* The steps of a worker's actor. *)
LEMMA WorkerStepCloser ==
  ASSUME IInv, IInv', AlwaysTimed, role = "worker", ClientStep,
         ~ (clientPc = "top" /\ ~ expired /\ clientPc' = "wait")
  PROVE  StepsToReturn' < StepsToReturn
<1>1. ToSend \in 0 .. TickPackets + 2 /\ ToSend' \in 0 .. TickPackets + 2
  BY ToSendBounds
<1>2. CASE ClientTop
  BY <1>2 DEF ClientTop, AfterTop, StepsToReturn
<1>3. CASE ClientTimer \/ ClientRecv
  <2>1. clientPc = "wait" /\ clientPc' = "drain"
    BY <1>3 DEF ClientTimer, ClientRecv, AfterWait, AlwaysTimed
  <2> QED BY <1>1, <2>1, TickPacketsAssumption DEF StepsToReturn, ToSend
<1>4. CASE ClientDrain /\ ClientBreak
  <2>1. clientPc = "drain" /\ clientPc' = "top"
    BY <1>4 DEF ClientDrain, ClientBreak, AfterDrain
  <2> QED BY <1>1, <2>1, TickPacketsAssumption DEF StepsToReturn
<1>5. CASE ClientDrain /\ ClientSend
  <2>1. clientDue # <<>> /\ clientDue' = Append(Tail(clientDue), Head(clientDue))
    BY <1>5 DEF ClientSend
  <2>2. IsDue(1, clientDue) /\ IsDue(1, clientDue') /\ Head(clientDue) = 1
    BY <2>1, WorkerIsHead, RotateWakeList DEF IInv, Typed
  <2>3. PICK packet \in clientOut[1] : clientOut' = [clientOut EXCEPT ![1] = @ \ {packet}]
    BY <1>5, <2>2 DEF ClientSend
  <2>4. clientOut'[1] = clientOut[1] \ {packet} /\ clientOut[1] \subseteq ClientPacket
    BY <2>3, PlayerCountAssumption DEF IInv, Typed, Player
  <2>5. Cardinality(clientOut'[1]) = Cardinality(clientOut[1]) - 1
    BY <2>3, <2>4, PacketsFinite, FS_RemoveElement
  <2>6. ToSend' = ToSend - 1
    BY <2>2, <2>5 DEF ToSend
  <2>7. clientPc = "drain" /\ clientPc' = "drain"
    BY <1>5 DEF ClientDrain, ClientSend
  <2> QED BY <1>1, <2>6, <2>7, TickPacketsAssumption DEF StepsToReturn
<1> QED BY <1>2, <1>3, <1>4, <1>5 DEF ClientStep, ClientDrain

(* The socket, the timers and the clock put a worker's return off by       *)
(* nothing.                                                                *)
LEMMA WorkerNotPutOff ==
  ASSUME IInv, IInv', role = "worker",
         ClientSocketDeliver \/ ClientSocketFail \/ ClientWake \/ Expire
  PROVE  StepsToReturn' <= StepsToReturn
<1>1. clientPc' = clientPc
  BY DEF ClientSocketDeliver, ClientSocketFail, ClientWake, Expire
<1>2. ToSend \in 0 .. TickPackets + 2 /\ ToSend' \in 0 .. TickPackets + 2
  BY ToSendBounds
<1>3. ToSend' <= ToSend
  <2>1. CASE UNCHANGED <<clientDue, clientOut>>
    <3>1. ToSend' = ToSend
      BY <2>1 DEF ToSend, IsDue
    <3> QED BY <1>2, <3>1
  <2>2. CASE ClientWake
    <3>1. crew = {1}
      BY DEF IInv, Ticks
    <3>2. ~ IsDue(1, clientDue)
      BY <2>2, <3>1 DEF ClientWake, IsDue
    <3>3. ToSend = TickPackets + 2
      BY <3>2 DEF ToSend
    <3> QED BY <1>2, <3>3, TickPacketsAssumption
  <2> QED BY <2>1, <2>2 DEF ClientSocketDeliver, ClientSocketFail, Expire
<1> QED BY <1>1, <1>2, <1>3, TickPacketsAssumption DEF StepsToReturn, ToSend

(* The variant of runOnePlayer: the argument for WorkerReturns but for its *)
(* fairness.  runManyPlayers has none, as the run of Returns shows.        *)
THEOREM WorkerRunsDown == Spec => DeadlineIsLookedAt /\ []AlwaysTimed
<1>1. IInv /\ IInv' /\ AlwaysTimed /\ [Next]_vars =>
        [role = "worker" =>
           \/ clientPc = "top" /\ ~ expired /\ clientPc' = "wait"
           \/ /\ StepsToReturn' <= StepsToReturn
              /\ ClientStep => StepsToReturn' < StepsToReturn]_vars
  <2> SUFFICES ASSUME IInv, IInv', AlwaysTimed, Next, role = "worker",
                      ~ (clientPc = "top" /\ ~ expired /\ clientPc' = "wait")
               PROVE  /\ StepsToReturn' <= StepsToReturn
                      /\ ClientStep => StepsToReturn' < StepsToReturn
    OBVIOUS
  <2>1. StepsToReturn \in Nat /\ StepsToReturn' \in Nat
    <3>1. ToSend \in Nat /\ ToSend' \in Nat
      BY ToSendBounds, TickPacketsAssumption
    <3> QED BY <3>1, TickPacketsAssumption DEF StepsToReturn, ToSend
  <2>2. CASE ClientStep
    BY <2>1, <2>2, WorkerStepCloser
  <2>3. CASE UNCHANGED clientVars /\ ~ ClientStep
    <3>1. StepsToReturn' = StepsToReturn
      BY <2>3 DEF clientVars, StepsToReturn, ToSend, IsDue
    <3> QED BY <2>1, <2>3, <3>1
  <2>4. CASE (ClientSocketDeliver \/ ClientSocketFail \/ ClientWake \/ Expire) /\ ~ ClientStep
    BY <2>4, WorkerNotPutOff
  <2> QED BY <2>2, <2>3, <2>4 DEF Next, Client
<1>2. Init => AlwaysTimed
  BY DEF Init, ClientInit, AlwaysTimed
<1> QED BY <1>1, <1>2, NextTimed, LoadRunInvariant, PTL DEF Spec, DeadlineIsLookedAt
=============================================================================
