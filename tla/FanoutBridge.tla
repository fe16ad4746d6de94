---------------------------- MODULE FanoutBridge ----------------------------
(***************************************************************************)
(* The stream callback of picoquic_fanout_server.actor.cpp: the parser     *)
(* state of every stream, the topic table, the delivery table, and the     *)
(* calls it makes on fanout-core (rooms, zone entities) and sketch-core    *)
(* (per-room history).  picoquic calls back from one thread, so a callback *)
(* is one step; what interleaves are the events of many streams of many    *)
(* connections, whose cnx pointers (the connection ids) are used again     *)
(* after a close.                                                          *)
(*                                                                         *)
(* Bytes arrive as tokens: a header line, a payload or a sketch frame.  A  *)
(* callback that carries several is the same as several callbacks, and one *)
(* that completes none only creates the stream's state (Fragment).  The    *)
(* host never frees a room, so a room is named by its topic.  A stream id  *)
(* is fresh again once its stream is gone: a recycled id stands for the    *)
(* client's next id.                                                       *)
(***************************************************************************)
EXTENDS FiniteSets, Sequences, SequencesExt

CONSTANTS
  Conn, Stream, Topic,
  Frame,        \* decodable CSP1 packets: records with a field key
  Undecodable,  \* a frame StrokePacket.decode rejects
  NoTopic,      \* StreamState.roomId = 0, which names no room
  Absent,       \* no StreamState / no delivery entry
  MaxRooms,     \* capacity of fanout-core's slot map of rooms
  Verbs,        \* the header lines clients send, a subset of AllVerbs
  OneVerb,      \* clients send one kind of header per stream
  OneReceiver   \* clients receive on at most one stream of a connection

(* NoSpace is a line without a space, Bogus an unknown verb or a ZPB whose *)
(* fields do not parse: the code treats these two the same.                *)
AllVerbs == {"SUB", "PUB", "SKB", "ZPB", "NoSpace", "Bogus"}

ASSUME VerbsAssumption == Verbs \subseteq AllVerbs
ASSUME ClientsAssumption == OneVerb \in BOOLEAN /\ OneReceiver \in BOOLEAN

VARIABLES
  open,      \* the connections picoquic has, by cnx pointer
  streams,   \* BridgeState.streams
  delivery,  \* BridgeState.delivery: the stream, the connection is the key
  rooms,     \* the keys of BridgeState.topicToRoom
  subs,      \* fanout-core: the subscribers of each topic's room
  placed,    \* fanout-core: connections with an entity in the zone world
  history,   \* sketch-core: accepted packets of each room
  sent,      \* what the last callback wrote: to whom, on which stream
  got,       \* history: sketch frames written to each stream
  own        \* history: sketch frames accepted from each stream

vars == <<open, streams, delivery, rooms, subs, placed, history, sent,
          got, own>>

StreamState ==
  [headerParsed : BOOLEAN, isPub : BOOLEAN, isSketch : BOOLEAN,
   isZonePub : BOOLEAN, topic : Topic \cup {NoTopic},
   room : Topic \cup {NoTopic}]

Fresh == [headerParsed |-> FALSE, isPub |-> FALSE, isSketch |-> FALSE,
          isZonePub |-> FALSE, topic |-> NoTopic, room |-> NoTopic]

ASSUME RoomsAssumption == MaxRooms \in Nat
ASSUME SentinelsAssumption ==
  NoTopic \notin Topic /\ Absent \notin Stream /\ Absent \notin StreamState

Message == [to : Conn, on : Stream, kind : {"topic", "zone"},
            topic : Topic \cup {NoTopic}]

Init ==
  /\ open = {}
  /\ streams = [c \in Conn |-> [s \in Stream |-> Absent]]
  /\ delivery = [c \in Conn |-> Absent]
  /\ rooms = {}
  /\ subs = [t \in Topic |-> {}]
  /\ placed = {}
  /\ history = [t \in Topic \cup {NoTopic} |-> << >>]
  /\ sent = {}
  /\ got = [c \in Conn |-> [s \in Stream |-> << >>]]
  /\ own = [c \in Conn |-> [s \in Stream |-> {}]]
-----------------------------------------------------------------------------
(* state->streams[cnx][streamId] creates a fresh StreamState on first use. *)
State(c, s) == IF streams[c][s] = Absent THEN Fresh ELSE streams[c][s]
SetState(c, s, st) == streams' = [streams EXCEPT ![c][s] = st]

LiveStreams(c) == {s \in Stream : streams[c][s] # Absent}

(* The verbs that set the delivery stream of the connection. *)
Receiving == {"SUB", "SKB", "ZPB"}

Headed(st, v) ==
  CASE v = "PUB" -> st.isPub
    [] v = "SKB" -> st.isSketch
    [] v = "ZPB" -> st.isZonePub
    [] OTHER -> FALSE

(* A header line the parser is ready for and this client would send. *)
MaySend(c, s, v) ==
  /\ c \in open /\ v \in Verbs
  /\ ~ State(c, s).headerParsed
  /\ OneVerb => State(c, s) = Fresh \/ Headed(State(c, s), v)
  /\ OneReceiver /\ v \in Receiving =>
       \A r \in LiveStreams(c) \ {s} :
          streams[c][r] = Fresh \/ Headed(streams[c][r], "PUB")

(* Mutant of RoomsAfter: the sentinel is entered in the table like a room. *)
RoomsUnbounded(t) == rooms \cup {t}

(* getOrCreateRoom finds or allocates a room, or gets the sentinel.        *)
HasRoom(t) == t \in rooms \/ Cardinality(rooms) < MaxRooms
RoomsAfter(t) == IF HasRoom(t) THEN rooms \cup {t} ELSE rooms

(* fanout_pub_targets: the subscribers but the publisher.                  *)
Targets(t, c) == IF t \in Topic THEN subs[t] \ {c} ELSE {}

(* A target without a delivery entry is skipped. *)
Reachable(targets) == {d \in targets : delivery[d] # Absent}
Deliver(targets, kind, t) ==
  {[to |-> d, on |-> delivery[d], kind |-> kind, topic |-> t] :
      d \in Reachable(targets)}

(* pumpStream, headers.  The flags of an earlier header on the stream stay *)
(* except that SUB clears isPub.                                           *)
HandleSub(c, s, t) ==
  /\ MaySend(c, s, "SUB")
  /\ SetState(c, s, [State(c, s) EXCEPT !.topic = t, !.headerParsed = TRUE,
                                        !.isPub = FALSE])
  /\ rooms' = RoomsAfter(t)
  /\ IF HasRoom(t)
       THEN /\ delivery' = [delivery EXCEPT ![c] = s]
            /\ subs' = [subs EXCEPT ![t] = @ \cup {c}]
       ELSE UNCHANGED <<delivery, subs>>
  /\ sent' = {}
  /\ UNCHANGED <<open, placed, history, got, own>>

PubHeader(c, s, t) ==
  /\ MaySend(c, s, "PUB")
  /\ SetState(c, s, [State(c, s) EXCEPT !.topic = t, !.headerParsed = TRUE,
                                        !.isPub = TRUE])
  /\ sent' = {}
  /\ UNCHANGED <<open, delivery, rooms, subs, placed, history, got, own>>

(* Mutant of Replay: the last packet is missed. *)
ReplayButLast(t) ==
  IF history[t] = << >> THEN << >> ELSE Front(history[t])

(* sketchCoreHistory: the accepted packets of the room, in order. *)
Replay(t) == history[t]

(* SKB subscribes and replays the room's history on the stream. *)
HandleSketchSub(c, s, t) ==
  /\ MaySend(c, s, "SKB")
  /\ SetState(c, s, [State(c, s) EXCEPT !.topic = t, !.headerParsed = TRUE,
                       !.isSketch = TRUE,
                       !.room = IF HasRoom(t) THEN t ELSE @])
  /\ rooms' = RoomsAfter(t)
  /\ IF HasRoom(t)
       THEN /\ delivery' = [delivery EXCEPT ![c] = s]
            /\ subs' = [subs EXCEPT ![t] = @ \cup {c}]
            /\ got' = [got EXCEPT ![c][s] = @ \o Replay(t)]
            /\ sent' = {[to |-> c, on |-> s, kind |-> "topic", topic |-> t] :
                           f \in Range(Replay(t))}
       ELSE UNCHANGED <<delivery, subs, got>> /\ sent' = {}
  /\ UNCHANGED <<open, placed, history, own>>

(* The text after ZPB is kept as the topic, which a stream that is still   *)
(* isPub then publishes to.                                                *)
HandleZoneSub(c, s, t) ==
  /\ MaySend(c, s, "ZPB")
  /\ SetState(c, s, [State(c, s) EXCEPT !.topic = t, !.headerParsed = TRUE,
                                        !.isZonePub = TRUE])
  /\ delivery' = [delivery EXCEPT ![c] = s]
  /\ sent' = {}
  /\ UNCHANGED <<open, rooms, subs, placed, history, got, own>>

(* An unknown verb, or ZPB fields that do not parse: the topic and         *)
(* headerParsed are already set when the parser returns.                   *)
BogusHeader(c, s, t) ==
  /\ MaySend(c, s, "Bogus")
  /\ SetState(c, s, [State(c, s) EXCEPT !.topic = t, !.headerParsed = TRUE])
  /\ sent' = {}
  /\ UNCHANGED <<open, delivery, rooms, subs, placed, history, got, own>>

(* A line without a space is dropped and nothing else changes. *)
NoSpaceHeader(c, s) ==
  /\ MaySend(c, s, "NoSpace")
  /\ SetState(c, s, State(c, s))
  /\ sent' = {}
  /\ UNCHANGED <<open, delivery, rooms, subs, placed, history, got, own>>

(* Bytes that complete no token, or that follow a SUB header. *)
Fragment(c, s) ==
  /\ c \in open
  /\ SetState(c, s, State(c, s))
  /\ sent' = {}
  /\ UNCHANGED <<open, delivery, rooms, subs, placed, history, got, own>>

(* pumpStream, payloads: isSketch goes first, then isPub, then isZonePub.  *)
SketchMode(st) == st.headerParsed /\ st.isSketch
PubMode(st) == st.headerParsed /\ ~ st.isSketch /\ st.isPub
ZoneMode(st) == st.headerParsed /\ ~ st.isSketch /\ ~ st.isPub /\ st.isZonePub

(* RoomHistory.apply: decodable, and its key not seen in this room.        *)
Accepts(room, f) ==
  f # Undecodable /\ \A g \in Range(history[room]) : g.key # f.key

HandleSketchFrame(c, s, f) ==
  LET room == streams[c][s].room
      targets == Targets(room, c) IN
  /\ SketchMode(State(c, s))
  /\ IF Accepts(room, f)
       THEN /\ history' = [history EXCEPT ![room] = Append(@, f)]
            /\ sent' = Deliver(targets, "topic", room)
            /\ got' = [d \in Conn |-> [r \in Stream |->
                         IF d \in targets /\ delivery[d] = r
                           THEN Append(got[d][r], f) ELSE got[d][r]]]
            /\ own' = [own EXCEPT ![c][s] = @ \cup {f}]
       ELSE sent' = {} /\ UNCHANGED <<history, got, own>>
  /\ UNCHANGED <<open, streams, delivery, rooms, subs, placed>>

HandlePub(c, s) ==
  LET t == streams[c][s].topic IN
  /\ PubMode(State(c, s))
  /\ SetState(c, s, [streams[c][s] EXCEPT !.headerParsed = FALSE])
  /\ rooms' = RoomsAfter(t)
  /\ sent' = IF HasRoom(t) THEN Deliver(Targets(t, c), "topic", t) ELSE {}
  /\ UNCHANGED <<open, delivery, subs, placed, history, got, own>>

(* The move may be refused (the zone is full), it takes the sender out if  *)
(* nobody owns its place, and a split that fails takes others out; that,   *)
(* and which entities are in range, is fanout-core's choice.               *)
HandleZonePub(c, s) ==
  /\ ZoneMode(State(c, s))
  /\ SetState(c, s, [streams[c][s] EXCEPT !.headerParsed = FALSE])
  /\ placed' \in SUBSET (placed \cup {c})
  /\ \E targets \in SUBSET (placed' \ {c}) :
       sent' = Deliver(targets, "zone", NoTopic)
  /\ UNCHANGED <<open, delivery, rooms, subs, history, got, own>>
-----------------------------------------------------------------------------
(* Mutants of the three parts of cleanupStream: the delivery entry stays;  *)
(* the entity stays when no header is pending; the entity always stays; a  *)
(* publishing stream unsubscribes its topic.                               *)
DropsNoDelivery(c, S) == FALSE
DropsEntityIfParsed(c, S) ==
  \E s \in S : streams[c][s].isZonePub /\ streams[c][s].headerParsed
DropsNoEntity(c, S) == FALSE
DropsPublishedTopics(c, S) ==
  {streams[c][s].topic : s \in {r \in S : ~ streams[c][r].isZonePub
                                       /\ streams[c][r].headerParsed}}

(* cleanupStream for each stream of S, after which their states are gone.  *)
DropsDelivery(c, S) == delivery[c] \in S
DropsEntity(c, S) == \E s \in S : streams[c][s].isZonePub
DropsTopics(c, S) ==
  {streams[c][s].topic : s \in
     {r \in S : /\ ~ streams[c][r].isZonePub
                /\ streams[c][r].headerParsed
                /\ ~ streams[c][r].isPub}}

CleanupStreams(c, S) ==
  /\ delivery' = IF DropsDelivery(c, S)
                   THEN [delivery EXCEPT ![c] = Absent] ELSE delivery
  /\ placed' = IF DropsEntity(c, S) THEN placed \ {c} ELSE placed
  /\ subs' = [t \in Topic |-> IF t \in DropsTopics(c, S) \cap rooms
                                THEN subs[t] \ {c} ELSE subs[t]]
  /\ streams' = [streams EXCEPT ![c] = [s \in Stream |->
                                          IF s \in S THEN Absent ELSE @[s]]]
  /\ got' = [got EXCEPT ![c] = [s \in Stream |->
                                  IF s \in S THEN << >> ELSE @[s]]]
  /\ own' = [own EXCEPT ![c] = [s \in Stream |-> IF s \in S THEN {} ELSE @[s]]]
  /\ sent' = {}
  /\ UNCHANGED <<rooms, history>>

(* stream_fin, and stream_reset of a stream that has state. *)
StreamEnd(c, s) ==
  /\ s \in LiveStreams(c)
  /\ CleanupStreams(c, {s})
  /\ UNCHANGED open

(* close or application_close: cleanupStream over all of the streams.      *)
Close(c) ==
  /\ c \in open
  /\ CleanupStreams(c, LiveStreams(c))
  /\ open' = open \ {c}

(* picoquic allocates a cnx, perhaps where a closed one was. *)
Connect(c) ==
  /\ c \notin open
  /\ open' = open \cup {c}
  /\ sent' = {}
  /\ UNCHANGED <<streams, delivery, rooms, subs, placed, history, got, own>>
-----------------------------------------------------------------------------
Next ==
  \/ \E c \in Conn : Connect(c) \/ Close(c)
  \/ \E c \in Conn, s \in Stream, t \in Topic :
       \/ HandleSub(c, s, t)
       \/ PubHeader(c, s, t)
       \/ HandleSketchSub(c, s, t)
       \/ HandleZoneSub(c, s, t)
       \/ BogusHeader(c, s, t)
  \/ \E c \in Conn, s \in Stream, f \in Frame \cup {Undecodable} :
       HandleSketchFrame(c, s, f)
  \/ \E c \in Conn, s \in Stream :
       \/ NoSpaceHeader(c, s)
       \/ Fragment(c, s)
       \/ HandlePub(c, s)
       \/ HandleZonePub(c, s)
       \/ StreamEnd(c, s)

Spec == Init /\ [][Next]_vars
-----------------------------------------------------------------------------
(* Type of the bridge's state. *)
TypeOK ==
  /\ open \subseteq Conn
  /\ \A c \in Conn, s \in Stream :
       streams[c][s] = Absent \/ streams[c][s] \in StreamState
  /\ \A c \in Conn : delivery[c] \in {Absent} \cup Stream
  /\ rooms \subseteq Topic /\ Cardinality(rooms) <= MaxRooms
  /\ subs \in [Topic -> SUBSET Conn]
  /\ placed \subseteq Conn
  /\ \A t \in Topic \cup {NoTopic} : Range(history[t]) \subseteq Frame
  /\ sent \subseteq Message

(* Whatever clients send, an entry of the delivery table names a stream    *)
(* that still has state on a connection that is still open: a publish      *)
(* never writes to a cnx that picoquic has freed (handlePub's "subscriber's *)
(* connection/stream is gone; skip it" relies on it).                      *)
DeliveryNamesLiveStream ==
  \A c \in Conn : delivery[c] # Absent =>
     c \in open /\ delivery[c] \in LiveStreams(c)

(* Whatever clients send, an entity in the zone world belongs to a         *)
(* connection with a zone-publishing stream: cleanupStream removes the     *)
(* entity before the last such stream is forgotten, so the next owner of   *)
(* the cnx pointer does not inherit it.                                    *)
EntityHasZoneStream ==
  \A c \in placed : \E s \in LiveStreams(c) : streams[c][s].isZonePub

(* The stream's header subscribed it to topic t. *)
SubscribedOn(c, s, t) ==
  /\ streams[c][s] # Absent
  /\ streams[c][s].headerParsed /\ streams[c][s].topic = t
  /\ ~ streams[c][s].isPub /\ ~ streams[c][s].isZonePub

(* With one kind of header per stream and one receiving stream per         *)
(* connection, a room's subscribers are exactly the connections with an    *)
(* open stream subscribed to its topic, and each is served on that stream: *)
(* no fin, reset or close, in any order with the rest, leaves a ghost      *)
(* subscriber or drops a live one (handleSub, handleSketchSub,             *)
(* cleanupStream).                                                         *)
SubscriptionsExact ==
  /\ \A t \in rooms : subs[t] = {c \in Conn : \E s \in Stream : SubscribedOn(c, s, t)}
  /\ \A c \in Conn, s \in Stream, t \in rooms :
       SubscribedOn(c, s, t) => delivery[c] = s

(* "A subscriber receives each PUB payload verbatim, pushed back on the    *)
(* same bidirectional stream it sent its SUB on" (the file's protocol      *)
(* comment): whatever a publish writes goes to a stream whose own header   *)
(* asked for it.                                                           *)
DeliveredOnOwnStream ==
  \A m \in sent :
     IF m.kind = "zone" THEN streams[m.to][m.on].isZonePub
                        ELSE SubscribedOn(m.to, m.on, m.topic)

(* a comes before b in the sequence. *)
Before(seq, a, b) == \E i, j \in DOMAIN seq : i < j /\ seq[i] = a /\ seq[j] = b

(* "a late joiner converges to the same graph as everyone who was present  *)
(* from the start" (handleSketchSub): what a sketch stream was written,    *)
(* replayed or relayed, is the room's accepted history without the frames  *)
(* that came from the stream itself, in the history's order and each once. *)
SketchConverges ==
  \A c \in Conn, s \in Stream, t \in rooms :
     SubscribedOn(c, s, t) /\ streams[c][s].isSketch =>
       /\ Range(got[c][s]) = Range(history[t]) \ own[c][s]
       /\ \A i, j \in DOMAIN got[c][s] : i < j =>
            /\ Before(history[t], got[c][s][i], got[c][s][j])
            /\ got[c][s][i] # got[c][s][j]
=============================================================================
