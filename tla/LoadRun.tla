------------------------------ MODULE LoadRun ------------------------------
(* A load client process against a fanout server over a lossy wire. *)
EXTENDS ServerLoop, LoadClient

vars == <<wire, faults, serverVars, clientVars>>

Init == wire = {} /\ faults = {} /\ ServerInit /\ ClientInit

Server == ServerStep \/ ServerSocketDeliver \/ ServerSocketFail
Client == \/ ClientStep \/ ClientSocketDeliver \/ ClientSocketFail
          \/ ClientWake \/ Expire

Next ==
  \/ Server /\ UNCHANGED clientVars
  \/ Client /\ UNCHANGED serverVars

(* The actors run when they can, and time passes; preparing a packet does  *)
(* not fail for ever.  Nothing is promised of the wire or of any other     *)
(* failure.                                                                *)
Fairness ==
  /\ WF_serverVars(ServerStep)
  /\ SF_serverVars(ServerDrain)
  /\ WF_clientVars(ClientStep)
  /\ WF_clientVars(Expire)

Spec == Init /\ [][Next]_vars /\ Fairness
-----------------------------------------------------------------------------
(* Type of the two processes' state; no connection is twice in a wake list.*)
TypeOK ==
  /\ wire \subseteq Datagram /\ faults \subseteq FaultKind
  /\ serverPc \in {"wait", "drain", "exited"}
  /\ clientPc \in {"top", "wait", "recvOnly", "drain", "ended"}
  /\ serverSock \in Socket /\ clientSock \in Socket
  /\ serverOpen \subseteq Player /\ crew \subseteq Player
  /\ \A due \in {serverDue, clientDue} :
       /\ due \in Seq(Player)
       /\ \A i, j \in DOMAIN due : due[i] = due[j] => i = j
  /\ serverOut \in [Player -> SUBSET {"reply", "close"}]
  /\ clientOut \in [Player -> SUBSET ClientPacket]
  /\ state \in [Player -> {"Connecting", "Done", "Failed"}]
  /\ cnx \in [Player -> {"none", "init", "ready", "closed"}]

(* "Exactly one receiveFrom() stays outstanding at a time" (fanoutServer,  *)
(* and the same in both loops of the load client): whichever of the timer, *)
(* the receive and the send loop comes first, and whatever fails, the      *)
(* reactor holds the one operation the loop waits for and none that could  *)
(* swallow a datagram nobody reads.                                        *)
NoReceiveAbandoned ==
  \A s \in {serverSock, clientSock} :
    s.posted = IF s.recvF = "pending" THEN 1 ELSE 0

(* A player is counted as Done (loadClientStreamCallback) only if the      *)
(* server accepted its connection: no close, refusal, timeout, lost or     *)
(* repeated datagram is taken for a success.                               *)
DoneWasAccepted == \A p \in crew : state[p] = "Done" => p \in serverOpen

(* A worker whose player is Done when runOnePlayer returns has handed all  *)
(* its ticks to the socket, however many packets they take: the callback   *)
(* makes the player Done inside the receive, and the send loop runs before *)
(* the next look at the state.  That loop is left with ticks unsent only if*)
(* picoquic holds them back (pacing, congestion window) or fails to prepare*)
(* a packet; runOnePlayer does not come back for those.                    *)
WorkerSentItsTicks ==
  role = "worker" /\ clientPc = "ended" =>
    \A p \in crew :
      state[p] = "Done" /\ clientOut[p] # {} =>
        faults \cap {"heldBack", "clientPrepare"} # {}

(* What picoquic has for a connection does get sent, although the send     *)
(* loop breaks at the first connection with nothing to say and at any      *)
(* error: the timer brings the loop back (fanoutServer), and receive errors*)
(* may come for ever.                                                      *)
RequestAnswered ==
  \A p \in Player : (serverOut[p] # {}) ~> (serverOut[p] = {} \/ serverPc = "exited")

(* runOnePlayer returns, answered or not: its wait always has a timer, and *)
(* it looks at deadlineSeconds in every iteration.                         *)
WorkerReturns == role = "worker" ~> clientPc = "ended"

(* "--multi ... <deadlineSeconds>" (fanout_load_client_main): a load client*)
(* of either kind returns, at the latest after its deadline.               *)
Returns == <>(clientPc = "ended")

(* "this recv loop must never die from a transient socket error"           *)
(* (fanoutServer): no failure of the socket ends the server.               *)
ServerSurvives == serverPc # "exited"
=============================================================================
