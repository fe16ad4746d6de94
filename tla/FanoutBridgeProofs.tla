------------------------- MODULE FanoutBridgeProofs -------------------------
(***************************************************************************)
(* The stream callback for every number of connections, streams, topics    *)
(* and rooms.  First what holds whatever clients send: the delivery table  *)
(* and the zone entities never outlive their streams.  Then, for clients   *)
(* that keep to one header per stream and one receiving stream per         *)
(* connection, that subscriptions are exact and that every write goes to   *)
(* the stream that asked for it.                                           *)
(***************************************************************************)
EXTENDS FanoutBridge, FiniteSetTheorems, TLAPS

Streams == [Conn -> [Stream -> {Absent} \cup StreamState]]

Typed ==
  /\ open \subseteq Conn /\ streams \in Streams
  /\ delivery \in [Conn -> {Absent} \cup Stream]
  /\ rooms \subseteq Topic /\ IsFiniteSet(rooms) /\ Cardinality(rooms) <= MaxRooms
  /\ subs \in [Topic -> SUBSET Conn]
  /\ placed \subseteq Conn
  /\ history \in [Topic \cup {NoTopic} -> Seq(Frame)]
  /\ sent \subseteq Message

(* A parsed header left its text in the stream's state. *)
HeadersHaveText ==
  \A c \in Conn, s \in Stream :
    streams[c][s] # Absent /\ streams[c][s].headerParsed => streams[c][s].topic \in Topic

IInv == Typed /\ HeadersHaveText /\ DeliveryNamesLiveStream /\ EntityHasZoneStream
-----------------------------------------------------------------------------
(* The state a callback works on is a stream state; a mode is only reached *)
(* by a stream that had state before.                                      *)
LEMMA StateTyped ==
  ASSUME Typed, NEW c \in Conn, NEW s \in Stream
  PROVE  /\ State(c, s) \in StreamState
         /\ State(c, s).headerParsed => streams[c][s] # Absent
         /\ streams[c][s] # Absent => State(c, s) = streams[c][s]
<1>1. Fresh \in StreamState /\ ~ Fresh.headerParsed
  BY DEF Fresh, StreamState
<1>2. streams[c][s] \in {Absent} \cup StreamState
  BY DEF Typed, Streams
<1> QED BY <1>1, <1>2 DEF State

(* Writing one stream's state leaves the other streams alone. *)
LEMMA SetStateIs ==
  ASSUME streams \in Streams, NEW c \in Conn, NEW s \in Stream, NEW st \in StreamState,
         SetState(c, s, st)
  PROVE  /\ streams' \in Streams
         /\ streams'[c][s] = st /\ st # Absent
         /\ \A d \in Conn, r \in Stream : d # c \/ r # s => streams'[d][r] = streams[d][r]
BY SentinelsAssumption DEF SetState, Streams

(* getOrCreateRoom enters a topic only while the slot map has room. *)
LEMMA RoomsTyped ==
  ASSUME Typed, NEW t \in Topic
  PROVE  /\ RoomsAfter(t) \subseteq Topic /\ IsFiniteSet(RoomsAfter(t))
         /\ Cardinality(RoomsAfter(t)) <= MaxRooms
         /\ HasRoom(t) => RoomsAfter(t) = rooms \cup {t}
         /\ ~ HasRoom(t) => RoomsAfter(t) = rooms
<1>1. Cardinality(rooms) \in Nat /\ IsFiniteSet(rooms) /\ rooms \subseteq Topic
  BY FS_CardinalityType DEF Typed
<1>2. IsFiniteSet(rooms \cup {t}) /\
      Cardinality(rooms \cup {t}) = IF t \in rooms THEN Cardinality(rooms) ELSE Cardinality(rooms) + 1
  BY <1>1, FS_AddElement
<1> QED BY <1>1, <1>2, RoomsAssumption DEF RoomsAfter, HasRoom, Typed

(* A publish writes to streams. *)
LEMMA DeliverTyped ==
  ASSUME Typed, NEW targets \in SUBSET Conn, NEW kind \in {"topic", "zone"},
         NEW t \in Topic \cup {NoTopic}
  PROVE  Deliver(targets, kind, t) \subseteq Message
<1>1. \A d \in Reachable(targets) : d \in Conn /\ delivery[d] \in Stream
  BY DEF Reachable, Typed
<1> QED BY <1>1 DEF Deliver, Message

(* A callback that writes the state of one stream keeps the tables in step *)
(* with the streams: a zone stream stays one, a delivery entry is set to   *)
(* the stream at hand, an entity is placed for a zone stream.              *)
LEMMA CallbackKeeps ==
  ASSUME IInv, NEW c \in Conn, NEW s \in Stream, NEW st \in StreamState,
         SetState(c, s, st),
         st.headerParsed => st.topic \in Topic,
         State(c, s).isZonePub => st.isZonePub,
         open' = open,
         delivery' = delivery \/ (delivery' = [delivery EXCEPT ![c] = s] /\ c \in open),
         placed' \subseteq placed \cup {c}, placed' \subseteq placed \/ st.isZonePub
  PROVE  /\ open' \subseteq Conn /\ streams' \in Streams /\ placed' \subseteq Conn
         /\ delivery' \in [Conn -> {Absent} \cup Stream]
         /\ HeadersHaveText' /\ DeliveryNamesLiveStream' /\ EntityHasZoneStream'
<1>1. Typed /\ streams \in Streams
  BY DEF IInv, Typed
<1>2. /\ streams' \in Streams
      /\ streams'[c][s] = st /\ st # Absent
      /\ \A d \in Conn, r \in Stream : d # c \/ r # s => streams'[d][r] = streams[d][r]
  BY <1>1, SetStateIs
<1>3. open' \subseteq Conn /\ placed' \subseteq Conn
  BY <1>1 DEF Typed
<1>4. delivery' \in [Conn -> {Absent} \cup Stream]
  BY <1>1 DEF Typed
<1>5. HeadersHaveText'
  BY <1>2 DEF IInv, HeadersHaveText
<1>6. DeliveryNamesLiveStream'
  <2> SUFFICES ASSUME NEW d \in Conn, delivery'[d] # Absent
               PROVE  d \in open' /\ delivery'[d] \in Stream /\ streams'[d][delivery'[d]] # Absent
    BY DEF DeliveryNamesLiveStream, LiveStreams
  <2>1. CASE d = c /\ delivery' = [delivery EXCEPT ![c] = s] /\ c \in open
    BY <2>1, <1>1, <1>2 DEF Typed
  <2>2. CASE delivery'[d] = delivery[d]
    <3>1. d \in open /\ delivery[d] \in Stream /\ streams[d][delivery[d]] # Absent
      BY <2>2 DEF IInv, DeliveryNamesLiveStream, LiveStreams
    <3> QED BY <3>1, <2>2, <1>2
  <2> QED BY <2>1, <2>2, <1>1 DEF Typed
<1>7. \A d \in Conn, r \in Stream :
        streams[d][r] # Absent /\ streams[d][r].isZonePub =>
          streams'[d][r] # Absent /\ streams'[d][r].isZonePub
  <2> SUFFICES ASSUME NEW d \in Conn, NEW r \in Stream,
                      streams[d][r] # Absent, streams[d][r].isZonePub
               PROVE  streams'[d][r] # Absent /\ streams'[d][r].isZonePub
    OBVIOUS
  <2>1. CASE d = c /\ r = s
    BY <2>1, <1>1, <1>2, StateTyped
  <2>2. CASE d # c \/ r # s
    BY <2>2, <1>2
  <2> QED BY <2>1, <2>2
<1>8. EntityHasZoneStream'
  <2> SUFFICES ASSUME NEW d \in placed'
               PROVE  \E r \in Stream : streams'[d][r] # Absent /\ streams'[d][r].isZonePub
    BY DEF EntityHasZoneStream, LiveStreams
  <2>1. CASE d \in placed
    <3>1. d \in Conn /\ \E r \in Stream : streams[d][r] # Absent /\ streams[d][r].isZonePub
      BY <2>1, <1>1 DEF IInv, EntityHasZoneStream, LiveStreams, Typed
    <3> QED BY <3>1, <1>7
  <2>2. CASE d = c /\ st.isZonePub
    BY <2>2, <1>2
  <2> QED BY <2>1, <2>2
<1> QED BY <1>2, <1>3, <1>4, <1>5, <1>6, <1>8
-----------------------------------------------------------------------------
(* The header lines.  What each writes in the state of its stream: *)
SubHeader(st, t) == [st EXCEPT !.topic = t, !.headerParsed = TRUE, !.isPub = FALSE]
PubbedHeader(st, t) == [st EXCEPT !.topic = t, !.headerParsed = TRUE, !.isPub = TRUE]
SketchHeader(st, t) ==
  [st EXCEPT !.topic = t, !.headerParsed = TRUE, !.isSketch = TRUE,
             !.room = IF HasRoom(t) THEN t ELSE @]
ZoneHeader(st, t) == [st EXCEPT !.topic = t, !.headerParsed = TRUE, !.isZonePub = TRUE]
OddHeader(st, t) == [st EXCEPT !.topic = t, !.headerParsed = TRUE]
PayloadTaken(st) == [st EXCEPT !.headerParsed = FALSE]

(* Each writes a stream state whose parsed header has a text and that does *)
(* not stop being a zone stream.                                           *)
LEMMA HeaderStates ==
  ASSUME NEW st \in StreamState, NEW t \in Topic,
         NEW v \in {SubHeader(st, t), PubbedHeader(st, t), SketchHeader(st, t),
                    ZoneHeader(st, t), OddHeader(st, t)}
  PROVE  /\ v \in StreamState /\ v.topic = t /\ v.headerParsed
         /\ st.isZonePub => v.isZonePub
         /\ v # ZoneHeader(st, t) => (v.isZonePub <=> st.isZonePub)
<1>1. CASE v = SubHeader(st, t)
  BY <1>1 DEF StreamState, SubHeader
<1>2. CASE v = PubbedHeader(st, t)
  BY <1>2 DEF StreamState, PubbedHeader
<1>3. CASE v = SketchHeader(st, t)
  BY <1>3 DEF StreamState, SketchHeader
<1>4. CASE v = ZoneHeader(st, t)
  BY <1>4 DEF StreamState, ZoneHeader
<1>5. CASE v = OddHeader(st, t)
  BY <1>5 DEF StreamState, OddHeader
<1> QED BY <1>1, <1>2, <1>3, <1>4, <1>5

(* A payload only ends the header it belongs to. *)
LEMMA PayloadState ==
  ASSUME NEW st \in StreamState
  PROVE  /\ PayloadTaken(st) \in StreamState /\ ~ PayloadTaken(st).headerParsed
         /\ PayloadTaken(st).isZonePub <=> st.isZonePub
         /\ PayloadTaken(st).isPub <=> st.isPub
BY DEF StreamState, PayloadTaken

(* SUB sets the delivery entry to a stream that now has state. *)
LEMMA HandleSubIInv ==
  ASSUME IInv, NEW c \in Conn, NEW s \in Stream, NEW t \in Topic, HandleSub(c, s, t)
  PROVE  IInv'
<1> DEFINE st == SubHeader(State(c, s), t)
<1>1. Typed /\ State(c, s) \in StreamState
  BY StateTyped DEF IInv
<1>2. st \in StreamState /\ st.topic = t /\ (State(c, s).isZonePub => st.isZonePub)
  BY <1>1, HeaderStates
<1>3. /\ SetState(c, s, st) /\ open' = open /\ c \in open /\ placed' = placed
      /\ rooms' = RoomsAfter(t) /\ history' = history /\ sent' = {}
      /\ \/ delivery' = [delivery EXCEPT ![c] = s] /\ subs' = [subs EXCEPT ![t] = @ \cup {c}]
         \/ delivery' = delivery /\ subs' = subs
  BY DEF HandleSub, MaySend, SubHeader
<1> HIDE DEF st
<1>4. /\ open' \subseteq Conn /\ streams' \in Streams /\ placed' \subseteq Conn
      /\ delivery' \in [Conn -> {Absent} \cup Stream]
      /\ HeadersHaveText' /\ DeliveryNamesLiveStream' /\ EntityHasZoneStream'
  BY <1>2, <1>3, CallbackKeeps
<1>5. subs' \in [Topic -> SUBSET Conn]
  BY <1>1, <1>3 DEF Typed
<1>6. Typed'
  BY <1>1, <1>3, <1>4, <1>5, RoomsTyped DEF Typed
<1> QED BY <1>4, <1>6 DEF IInv

(* SKB does the same, and its replay goes to that stream. *)
LEMMA HandleSketchSubIInv ==
  ASSUME IInv, NEW c \in Conn, NEW s \in Stream, NEW t \in Topic, HandleSketchSub(c, s, t)
  PROVE  IInv'
<1> DEFINE st == SketchHeader(State(c, s), t)
<1>1. Typed /\ State(c, s) \in StreamState
  BY StateTyped DEF IInv
<1>2. st \in StreamState /\ st.topic = t /\ (State(c, s).isZonePub => st.isZonePub)
  BY <1>1, HeaderStates
<1>3. /\ SetState(c, s, st) /\ open' = open /\ c \in open /\ placed' = placed
      /\ rooms' = RoomsAfter(t) /\ history' = history
      /\ sent' \subseteq {[to |-> c, on |-> s, kind |-> "topic", topic |-> t]}
      /\ \/ delivery' = [delivery EXCEPT ![c] = s] /\ subs' = [subs EXCEPT ![t] = @ \cup {c}]
         \/ delivery' = delivery /\ subs' = subs
  BY DEF HandleSketchSub, MaySend, SketchHeader
<1> HIDE DEF st
<1>4. /\ open' \subseteq Conn /\ streams' \in Streams /\ placed' \subseteq Conn
      /\ delivery' \in [Conn -> {Absent} \cup Stream]
      /\ HeadersHaveText' /\ DeliveryNamesLiveStream' /\ EntityHasZoneStream'
  BY <1>2, <1>3, CallbackKeeps
<1>5. subs' \in [Topic -> SUBSET Conn]
  BY <1>1, <1>3 DEF Typed
<1>6. sent' \subseteq Message
  BY <1>3 DEF Message
<1>7. Typed'
  BY <1>1, <1>3, <1>4, <1>5, <1>6, RoomsTyped DEF Typed
<1> QED BY <1>4, <1>7 DEF IInv

(* The headers that neither subscribe nor make a room. *)
LEMMA PlainHeaderIInv ==
  ASSUME IInv, NEW c \in Conn, NEW s \in Stream, NEW t \in Topic,
         PubHeader(c, s, t) \/ HandleZoneSub(c, s, t) \/ BogusHeader(c, s, t)
  PROVE  IInv'
<1>1. Typed /\ State(c, s) \in StreamState
  BY StateTyped DEF IInv
<1>2. PICK st \in {PubbedHeader(State(c, s), t), ZoneHeader(State(c, s), t),
                   OddHeader(State(c, s), t)} : SetState(c, s, st)
  BY DEF PubHeader, HandleZoneSub, BogusHeader, PubbedHeader, ZoneHeader, OddHeader
<1>3. st \in StreamState /\ st.topic = t /\ (State(c, s).isZonePub => st.isZonePub)
  <2>1. CASE st = PubbedHeader(State(c, s), t)
    BY <1>1, <2>1, HeaderStates
  <2>2. CASE st = ZoneHeader(State(c, s), t)
    BY <1>1, <2>2, HeaderStates
  <2>3. CASE st = OddHeader(State(c, s), t)
    BY <1>1, <2>3, HeaderStates
  <2> QED BY <1>2, <2>1, <2>2, <2>3
<1>4. /\ open' = open /\ c \in open /\ placed' = placed
      /\ rooms' = rooms /\ history' = history /\ sent' = {} /\ subs' = subs
      /\ delivery' = delivery \/ delivery' = [delivery EXCEPT ![c] = s]
  BY DEF PubHeader, HandleZoneSub, BogusHeader, MaySend
<1>5. /\ open' \subseteq Conn /\ streams' \in Streams /\ placed' \subseteq Conn
      /\ delivery' \in [Conn -> {Absent} \cup Stream]
      /\ HeadersHaveText' /\ DeliveryNamesLiveStream' /\ EntityHasZoneStream'
  BY <1>2, <1>3, <1>4, CallbackKeeps
<1>6. Typed'
  BY <1>1, <1>4, <1>5 DEF Typed
<1> QED BY <1>5, <1>6 DEF IInv

(* Bytes that complete nothing, or a line that is dropped. *)
LEMMA NoProgressIInv ==
  ASSUME IInv, NEW c \in Conn, NEW s \in Stream, NoSpaceHeader(c, s) \/ Fragment(c, s)
  PROVE  IInv'
<1> DEFINE st == State(c, s)
<1>1. Typed /\ st \in StreamState
  BY StateTyped DEF IInv
<1>2. st.headerParsed => st.topic \in Topic
  BY <1>1, StateTyped DEF IInv, HeadersHaveText
<1>3. /\ SetState(c, s, st) /\ open' = open /\ c \in open /\ placed' = placed
      /\ rooms' = rooms /\ history' = history /\ sent' = {} /\ subs' = subs
      /\ delivery' = delivery
  BY DEF NoSpaceHeader, Fragment, MaySend
<1> HIDE DEF st
<1>4. /\ open' \subseteq Conn /\ streams' \in Streams /\ placed' \subseteq Conn
      /\ delivery' \in [Conn -> {Absent} \cup Stream]
      /\ HeadersHaveText' /\ DeliveryNamesLiveStream' /\ EntityHasZoneStream'
  <2>1. State(c, s).isZonePub => st.isZonePub
    BY DEF st
  <2> QED BY <1>1, <1>2, <1>3, <2>1, CallbackKeeps
<1>5. Typed'
  BY <1>1, <1>3, <1>4 DEF Typed
<1> QED BY <1>4, <1>5 DEF IInv
-----------------------------------------------------------------------------
(* The payloads. *)
LEMMA HandleSketchFrameIInv ==
  ASSUME IInv, NEW c \in Conn, NEW s \in Stream, NEW f \in Frame \cup {Undecodable},
         HandleSketchFrame(c, s, f)
  PROVE  IInv'
<1> DEFINE room == streams[c][s].room
<1>1. Typed
  BY DEF IInv
<1>2. streams[c][s] \in StreamState
  BY <1>1, StateTyped DEF HandleSketchFrame, SketchMode, Typed, Streams
<1>3. room \in Topic \cup {NoTopic}
  BY <1>2 DEF StreamState
<1>4. UNCHANGED <<open, streams, delivery, rooms, subs, placed>>
  BY DEF HandleSketchFrame
<1>5. \/ history' = [history EXCEPT ![room] = Append(@, f)] /\ f \in Frame
      \/ history' = history
  BY DEF HandleSketchFrame, Accepts
<1>6. sent' = Deliver(Targets(room, c), "topic", room) \/ sent' = {}
  BY DEF HandleSketchFrame
<1>7. Targets(room, c) \in SUBSET Conn
  BY <1>1 DEF Targets, Typed
<1> HIDE DEF room
<1>8. history' \in [Topic \cup {NoTopic} -> Seq(Frame)]
  <2>1. history \in [Topic \cup {NoTopic} -> Seq(Frame)]
    BY <1>1 DEF Typed
  <2>2. f \in Frame => Append(history[room], f) \in Seq(Frame)
    BY <1>3, <2>1
  <2> QED BY <1>3, <1>5, <2>1, <2>2
<1>9. sent' \subseteq Message
  BY <1>1, <1>3, <1>6, <1>7, DeliverTyped
<1>10. Typed'
  BY <1>1, <1>4, <1>8, <1>9 DEF Typed
<1>11. HeadersHaveText' /\ DeliveryNamesLiveStream' /\ EntityHasZoneStream'
  BY <1>4 DEF IInv, HeadersHaveText, DeliveryNamesLiveStream, EntityHasZoneStream, LiveStreams
<1> QED BY <1>10, <1>11 DEF IInv

(* A PUB payload may make a room and leaves the stream in place. *)
LEMMA HandlePubIInv ==
  ASSUME IInv, NEW c \in Conn, NEW s \in Stream, HandlePub(c, s)
  PROVE  IInv'
<1> DEFINE t == streams[c][s].topic
           st == PayloadTaken(streams[c][s])
<1>1. Typed
  BY DEF IInv
<1>2. streams[c][s] \in StreamState /\ streams[c][s].headerParsed /\ State(c, s) = streams[c][s]
  BY <1>1, StateTyped DEF HandlePub, PubMode, Typed, Streams
<1>3. t \in Topic
  BY <1>2, SentinelsAssumption DEF IInv, HeadersHaveText
<1>4. st \in StreamState /\ ~ st.headerParsed /\ (State(c, s).isZonePub => st.isZonePub)
  BY <1>2, PayloadState
<1>5. /\ SetState(c, s, st) /\ rooms' = RoomsAfter(t)
      /\ sent' = Deliver(Targets(t, c), "topic", t) \/ sent' = {}
      /\ UNCHANGED <<open, delivery, subs, placed, history>>
  BY DEF HandlePub, PayloadTaken
<1>6. Targets(t, c) \in SUBSET Conn
  BY <1>1 DEF Targets, Typed
<1> HIDE DEF t, st
<1>7. /\ open' \subseteq Conn /\ streams' \in Streams /\ placed' \subseteq Conn
      /\ delivery' \in [Conn -> {Absent} \cup Stream]
      /\ HeadersHaveText' /\ DeliveryNamesLiveStream' /\ EntityHasZoneStream'
  BY <1>4, <1>5, CallbackKeeps
<1>8. sent' \subseteq Message
  BY <1>1, <1>3, <1>5, <1>6, DeliverTyped
<1>9. Typed'
  BY <1>1, <1>3, <1>5, <1>7, <1>8, RoomsTyped DEF Typed
<1> QED BY <1>7, <1>9 DEF IInv

(* A ZPB payload may place the entity of a zone stream. *)
LEMMA HandleZonePubIInv ==
  ASSUME IInv, NEW c \in Conn, NEW s \in Stream, HandleZonePub(c, s)
  PROVE  IInv'
<1> DEFINE st == PayloadTaken(streams[c][s])
<1>1. Typed
  BY DEF IInv
<1>2. /\ streams[c][s] \in StreamState /\ State(c, s) = streams[c][s]
      /\ streams[c][s].isZonePub
  BY <1>1, StateTyped DEF HandleZonePub, ZoneMode, Typed, Streams
<1>3. st \in StreamState /\ ~ st.headerParsed /\ st.isZonePub
  BY <1>2, PayloadState
<1>4. /\ SetState(c, s, st)
      /\ placed' \subseteq placed \cup {c}
      /\ UNCHANGED <<open, delivery, rooms, subs, history>>
  BY DEF HandleZonePub, PayloadTaken
<1>5. PICK targets \in SUBSET (placed' \ {c}) : sent' = Deliver(targets, "zone", NoTopic)
  BY DEF HandleZonePub
<1> HIDE DEF st
<1>6. /\ open' \subseteq Conn /\ streams' \in Streams /\ placed' \subseteq Conn
      /\ delivery' \in [Conn -> {Absent} \cup Stream]
      /\ HeadersHaveText' /\ DeliveryNamesLiveStream' /\ EntityHasZoneStream'
  BY <1>3, <1>4, CallbackKeeps
<1>7. sent' \subseteq Message
  BY <1>1, <1>5, <1>6, DeliverTyped
<1>8. Typed'
  BY <1>1, <1>4, <1>6, <1>7 DEF Typed
<1> QED BY <1>6, <1>8 DEF IInv
-----------------------------------------------------------------------------
(* What cleanupStream leaves of the streams of a connection. *)
LEMMA CleanupIs ==
  ASSUME streams \in Streams, NEW c \in Conn, NEW S \in SUBSET Stream, CleanupStreams(c, S)
  PROVE  /\ streams' \in Streams
         /\ \A r \in S : streams'[c][r] = Absent
         /\ \A d \in Conn, r \in Stream :
              d # c \/ r \notin S => streams'[d][r] = streams[d][r]
BY DEF CleanupStreams, Streams

(* Forgetting some streams of a connection, all of them with state, takes  *)
(* along its delivery entry and its entity when they need one of them.     *)
LEMMA CleanupKeeps ==
  ASSUME IInv, NEW c \in Conn, NEW S \in SUBSET LiveStreams(c), CleanupStreams(c, S),
         open' = open \/ (open' = open \ {c} /\ S = LiveStreams(c))
  PROVE  IInv'
<1>1. Typed /\ streams \in Streams /\ S \in SUBSET Stream
  BY DEF IInv, Typed, LiveStreams
<1>2. /\ streams' \in Streams
      /\ \A r \in S : streams'[c][r] = Absent
      /\ \A d \in Conn, r \in Stream :
           d # c \/ r \notin S => streams'[d][r] = streams[d][r]
  BY <1>1, CleanupIs
<1>3. /\ delivery' = IF delivery[c] \in S THEN [delivery EXCEPT ![c] = Absent] ELSE delivery
      /\ placed' = IF \E s \in S : streams[c][s].isZonePub THEN placed \ {c} ELSE placed
      /\ subs' = [t \in Topic |-> IF t \in DropsTopics(c, S) \cap rooms
                                    THEN subs[t] \ {c} ELSE subs[t]]
      /\ sent' = {} /\ rooms' = rooms /\ history' = history
  BY DEF CleanupStreams, DropsDelivery, DropsEntity
<1>4. delivery' \in [Conn -> {Absent} \cup Stream]
  BY <1>1, <1>3 DEF Typed
<1>5. subs' \in [Topic -> SUBSET Conn]
  BY <1>1, <1>3 DEF Typed
<1>6. Typed'
  BY <1>1, <1>2, <1>3, <1>4, <1>5 DEF Typed
<1>7. HeadersHaveText'
  BY <1>2 DEF IInv, HeadersHaveText
<1>8. DeliveryNamesLiveStream'
  <2> SUFFICES ASSUME NEW d \in Conn, delivery'[d] # Absent
               PROVE  d \in open' /\ delivery'[d] \in Stream /\ streams'[d][delivery'[d]] # Absent
    BY DEF DeliveryNamesLiveStream, LiveStreams
  <2>1. delivery'[d] = delivery[d] /\ (d = c => delivery[d] \notin S)
    BY <1>1, <1>3 DEF Typed
  <2>2. d \in open /\ delivery[d] \in LiveStreams(d)
    BY <2>1 DEF IInv, DeliveryNamesLiveStream
  <2>3. delivery[d] \in Stream /\ streams[d][delivery[d]] # Absent
    BY <2>2 DEF LiveStreams
  <2>4. d \in open'
    BY <2>1, <2>2
  <2> QED BY <2>1, <2>3, <2>4, <1>2
<1>9. EntityHasZoneStream'
  <2> SUFFICES ASSUME NEW d \in placed'
               PROVE  \E r \in Stream : streams'[d][r] # Absent /\ streams'[d][r].isZonePub
    BY DEF EntityHasZoneStream, LiveStreams
  <2>1. d \in placed /\ d \in Conn /\ (d = c => \A s \in S : ~ streams[c][s].isZonePub)
    BY <1>1, <1>3 DEF Typed
  <2>2. PICK r \in Stream : streams[d][r] # Absent /\ streams[d][r].isZonePub
    BY <2>1 DEF IInv, EntityHasZoneStream, LiveStreams
  <2>3. streams'[d][r] = streams[d][r]
    BY <1>2, <2>1, <2>2
  <2> QED BY <2>2, <2>3
<1> QED BY <1>6, <1>7, <1>8, <1>9 DEF IInv
-----------------------------------------------------------------------------
(* No connection, no stream, no room. *)
LEMMA InitIInv == Init => IInv
<1> SUFFICES ASSUME Init PROVE IInv
  OBVIOUS
<1>1. IsFiniteSet(rooms) /\ Cardinality(rooms) <= MaxRooms
  BY FS_EmptySet, RoomsAssumption DEF Init
<1>2. << >> \in Seq(Frame)
  OBVIOUS
<1>3. Typed
  BY <1>1, <1>2 DEF Init, Typed, Streams
<1>4. HeadersHaveText /\ DeliveryNamesLiveStream /\ EntityHasZoneStream
  BY DEF Init, HeadersHaveText, DeliveryNamesLiveStream, EntityHasZoneStream
<1> QED BY <1>3, <1>4 DEF IInv

(* Every callback keeps the invariant, whatever clients send. *)
LEMMA NextIInv == IInv /\ [Next]_vars => IInv'
<1> SUFFICES ASSUME IInv, [Next]_vars PROVE IInv'
  OBVIOUS
<1>1. ASSUME NEW c \in Conn, Connect(c) PROVE IInv'
  BY <1>1 DEF Connect, IInv, Typed, HeadersHaveText, DeliveryNamesLiveStream,
              EntityHasZoneStream, LiveStreams
<1>2. ASSUME NEW c \in Conn, Close(c) PROVE IInv'
  BY <1>2, CleanupKeeps DEF Close
<1>3. ASSUME NEW c \in Conn, NEW s \in Stream, StreamEnd(c, s) PROVE IInv'
  <2>1. {s} \in SUBSET LiveStreams(c) /\ CleanupStreams(c, {s}) /\ open' = open
    BY <1>3 DEF StreamEnd
  <2> QED BY <2>1, CleanupKeeps
<1>4. CASE UNCHANGED vars
  BY <1>4 DEF vars, IInv, Typed, HeadersHaveText, DeliveryNamesLiveStream,
              EntityHasZoneStream, LiveStreams
<1> QED BY <1>1, <1>2, <1>3, <1>4, HandleSubIInv, HandleSketchSubIInv, PlainHeaderIInv,
           NoProgressIInv, HandleSketchFrameIInv, HandlePubIInv, HandleZonePubIInv
        DEF Next

(* The invariant of the bridge under any client. *)
THEOREM BridgeInvariant == Spec => []IInv
BY InitIInv, NextIInv, PTL DEF Spec

(* Type correctness: above all, topicToRoom never outgrows the slot map of *)
(* rooms, and no header makes a room without a name (getOrCreateRoom).     *)
THEOREM BridgeTypeOK == Spec => []TypeOK
<1>1. IInv => TypeOK
  <2> SUFFICES ASSUME IInv PROVE TypeOK
    OBVIOUS
  <2>1. \A t \in Topic \cup {NoTopic} : Range(history[t]) \subseteq Frame
    BY DEF IInv, Typed, Range
  <2>2. \A c \in Conn, s \in Stream : streams[c][s] = Absent \/ streams[c][s] \in StreamState
    BY DEF IInv, Typed, Streams
  <2> QED BY <2>1, <2>2 DEF IInv, Typed, TypeOK
<1> QED BY <1>1, BridgeInvariant, PTL

(* Whatever clients send, and however connections close and cnx pointers   *)
(* are used again, the delivery table names live streams of open           *)
(* connections only (cleanupStream).                                       *)
THEOREM DeliveryIsLive == Spec => []DeliveryNamesLiveStream
<1>1. IInv => DeliveryNamesLiveStream
  BY DEF IInv
<1> QED BY <1>1, BridgeInvariant, PTL

(* Whatever clients send, no entity outlives the last zone stream of its   *)
(* connection (cleanupStream calls fanout_entity_remove in time).          *)
THEOREM EntityIsBacked == Spec => []EntityHasZoneStream
<1>1. IInv => EntityHasZoneStream
  BY DEF IInv
<1> QED BY <1>1, BridgeInvariant, PTL
-----------------------------------------------------------------------------
(* From here on clients keep to the protocol: one kind of header per       *)
(* stream, one receiving stream per connection, and no line that is not a  *)
(* header (a line without a space does no harm).                           *)
WellBehaved == OneVerb /\ OneReceiver /\ "Bogus" \notin Verbs

Subscribed(st, t) ==
  st # Absent /\ st.headerParsed /\ st.topic = t /\ ~ st.isPub /\ ~ st.isZonePub
Zoned(st) == st # Absent /\ st.isZonePub
Subscribers(str, t) == {c \in Conn : \E s \in Stream : Subscribed(str[c][s], t)}

(* The four tables fit together.  A topic without a room has no subscriber *)
(* in fanout-core, and none in the streams either unless the slot map is   *)
(* full: such a topic never gets a room any more.                          *)
Exact(str, del, rms, sbs) ==
  /\ \A t \in rms : sbs[t] = Subscribers(str, t)
  /\ \A t \in Topic \ rms :
       sbs[t] = {} /\ (Cardinality(rms) < MaxRooms => Subscribers(str, t) = {})
  /\ \A c \in Conn, s \in Stream :
       /\ \A t \in rms : Subscribed(str[c][s], t) => del[c] = s
       /\ Zoned(str[c][s]) => del[c] = s /\ ~ str[c][s].isPub
       /\ str[c][s] # Absent /\ str[c][s].isSketch => str[c][s].headerParsed

(* What was written went to streams that asked for it. *)
Asked(str, snt) ==
  \A m \in snt : IF m.kind = "zone" THEN str[m.to][m.on].isZonePub
                 ELSE Subscribed(str[m.to][m.on], m.topic)

ClientInv == IInv /\ Exact(streams, delivery, rooms, subs) /\ Asked(streams, sent)

(* getOrCreateRoom for a publish: a new room starts without subscribers.   *)
LEMMA ExactRooms ==
  ASSUME Typed, NEW str, NEW del, NEW sbs, NEW t \in Topic, Exact(str, del, rooms, sbs)
  PROVE  Exact(str, del, RoomsAfter(t), sbs)
<1>1. Cardinality(rooms) \in Nat /\ IsFiniteSet(rooms)
  BY FS_CardinalityType DEF Typed
<1>2. CASE RoomsAfter(t) = rooms
  BY <1>2
<1>3. CASE RoomsAfter(t) # rooms
  <2>1. RoomsAfter(t) = rooms \cup {t} /\ t \notin rooms /\ Cardinality(rooms) < MaxRooms
    BY <1>3 DEF RoomsAfter, HasRoom
  <2>2. Cardinality(rooms \cup {t}) = Cardinality(rooms) + 1
    BY <1>1, <2>1, FS_AddElement
  <2>3. sbs[t] = {} /\ Subscribers(str, t) = {}
    BY <2>1 DEF Exact
  <2>4. \A u \in rooms \cup {t} : sbs[u] = Subscribers(str, u)
    BY <2>3 DEF Exact
  <2>5. \A u \in Topic \ (rooms \cup {t}) : sbs[u] = {} /\ Subscribers(str, u) = {}
    BY <2>1 DEF Exact
  <2>6. \A c \in Conn, s \in Stream : ~ Subscribed(str[c][s], t)
    BY <2>3 DEF Subscribers
  <2>7. \A c \in Conn, s \in Stream :
          \A u \in rooms \cup {t} : Subscribed(str[c][s], u) => del[c] = s
    BY <2>6 DEF Exact
  <2> QED BY <2>1, <2>4, <2>5, <2>7 DEF Exact
<1> QED BY <1>2, <1>3

(* A callback after which the stream asks for what it asked before. *)
LEMMA QuietCallback ==
  ASSUME Typed, Exact(streams, delivery, rooms, subs), NEW c \in Conn, NEW s \in Stream,
         NEW st \in StreamState, SetState(c, s, st),
         \A t : Subscribed(st, t) <=> Subscribed(streams[c][s], t),
         Zoned(st) <=> Zoned(streams[c][s]),
         Zoned(st) => ~ st.isPub,
         st.isSketch => st.headerParsed
  PROVE  Exact(streams', delivery, rooms, subs)
<1>1. /\ streams'[c][s] = st /\ st # Absent
      /\ \A d \in Conn, r \in Stream : d # c \/ r # s => streams'[d][r] = streams[d][r]
  BY SetStateIs DEF Typed
<1>2. \A d \in Conn, r \in Stream : \A t :
        Subscribed(streams'[d][r], t) <=> Subscribed(streams[d][r], t)
  BY <1>1
<1>3. \A t : Subscribers(streams', t) = Subscribers(streams, t)
  BY <1>2 DEF Subscribers
<1>4. \A d \in Conn, r \in Stream :
        Zoned(streams'[d][r]) => Zoned(streams[d][r]) /\ ~ streams'[d][r].isPub
  BY <1>1 DEF Exact
<1>5. \A d \in Conn, r \in Stream :
        streams'[d][r] # Absent /\ streams'[d][r].isSketch => streams'[d][r].headerParsed
  BY <1>1 DEF Exact
<1> QED BY <1>2, <1>3, <1>4, <1>5 DEF Exact

(* The other streams of a connection that sends a receiving header ask for *)
(* nothing.                                                                *)
LEMMA OnlyReceiver ==
  ASSUME WellBehaved, Typed, Exact(streams, delivery, rooms, subs), NEW c \in Conn,
         NEW s \in Stream, NEW v \in Receiving, MaySend(c, s, v),
         NEW r \in Stream, r # s
  PROVE  ~ Zoned(streams[c][r]) /\ \A t : ~ Subscribed(streams[c][r], t)
<1>1. CASE streams[c][r] = Absent
  BY <1>1 DEF Zoned, Subscribed
<1>2. CASE streams[c][r] # Absent
  <2>1. streams[c][r] = Fresh \/ streams[c][r].isPub
    BY <1>2 DEF MaySend, LiveStreams, WellBehaved, Headed
  <2>2. ~ Fresh.headerParsed /\ ~ Fresh.isZonePub
    BY DEF Fresh
  <2> QED BY <2>1, <2>2 DEF Zoned, Subscribed, Exact
<1> QED BY <1>1, <1>2

(* SUB and SKB are a stream's first header. *)
LEMMA FirstHeader ==
  ASSUME WellBehaved, Typed, Exact(streams, delivery, rooms, subs), NEW c \in Conn,
         NEW s \in Stream, NEW v \in {"SUB", "SKB"}, MaySend(c, s, v)
  PROVE  State(c, s) = Fresh
<1>1. State(c, s) = Fresh \/ (v = "SKB" /\ State(c, s).isSketch)
  BY DEF MaySend, WellBehaved, Headed
<1>2. ~ State(c, s).headerParsed
  BY DEF MaySend
<1>3. State(c, s) = Fresh \/ (State(c, s) = streams[c][s] /\ streams[c][s] # Absent)
  BY DEF State
<1> QED BY <1>1, <1>2, <1>3 DEF Exact

(* A first header that subscribes and finds its room. *)
LEMMA SubscribeExact ==
  ASSUME WellBehaved, Typed, Exact(streams, delivery, rooms, subs), NEW c \in Conn,
         NEW s \in Stream, NEW t \in Topic, NEW v \in {"SUB", "SKB"}, MaySend(c, s, v),
         NEW st \in StreamState, SetState(c, s, st), HasRoom(t),
         Subscribed(st, t), ~ st.isZonePub, st.headerParsed
  PROVE  Exact(streams', [delivery EXCEPT ![c] = s], RoomsAfter(t),
               [subs EXCEPT ![t] = @ \cup {c}])
<1> DEFINE del == [delivery EXCEPT ![c] = s]
           sbs == [subs EXCEPT ![t] = @ \cup {c}]
           rms == RoomsAfter(t)
<1>1. /\ streams'[c][s] = st /\ st # Absent
      /\ \A d \in Conn, r \in Stream : d # c \/ r # s => streams'[d][r] = streams[d][r]
  BY SetStateIs DEF Typed
<1>2. /\ del[c] = s /\ \A d \in Conn : d # c => del[d] = delivery[d]
      /\ sbs[t] = subs[t] \cup {c} /\ \A u \in Topic : u # t => sbs[u] = subs[u]
  BY DEF Typed
<1>3. rms = rooms \cup {t} /\ t \in rms /\ rms \subseteq Topic
  BY RoomsTyped
<1>4. Exact(streams, delivery, rms, subs)
  BY ExactRooms
<1> HIDE DEF del, sbs, rms
<1>5. \A u : Subscribed(st, u) <=> u = t
  BY DEF Subscribed
<1>6. \A u : ~ Subscribed(streams[c][s], u)
  <2>1. streams[c][s] = Absent \/ streams[c][s] = Fresh
    BY FirstHeader DEF State
  <2> QED BY <2>1 DEF Subscribed, Fresh
<1>7. \A r \in Stream : r # s =>
        ~ Zoned(streams[c][r]) /\ \A u : ~ Subscribed(streams[c][r], u)
  BY OnlyReceiver DEF Receiving
<1>8. Subscribers(streams', t) = Subscribers(streams, t) \cup {c}
  BY <1>1, <1>5 DEF Subscribers
<1>9. \A u \in Topic : u # t => Subscribers(streams', u) = Subscribers(streams, u)
  BY <1>1, <1>5, <1>6 DEF Subscribers
<1>10. \A u \in rms : sbs[u] = Subscribers(streams', u)
  BY <1>2, <1>3, <1>4, <1>8, <1>9 DEF Exact
<1>11. \A u \in Topic \ rms :
         sbs[u] = {} /\ (Cardinality(rms) < MaxRooms => Subscribers(streams', u) = {})
  BY <1>2, <1>3, <1>4, <1>9 DEF Exact
<1>12. ASSUME NEW d \in Conn, NEW r \in Stream
       PROVE  /\ \A u \in rms : Subscribed(streams'[d][r], u) => del[d] = r
              /\ Zoned(streams'[d][r]) => del[d] = r /\ ~ streams'[d][r].isPub
              /\ streams'[d][r] # Absent /\ streams'[d][r].isSketch => streams'[d][r].headerParsed
  <2>1. CASE d = c /\ r = s
    BY <2>1, <1>1, <1>2 DEF Zoned
  <2>2. CASE d = c /\ r # s
    <3>1. /\ streams'[d][r] = streams[d][r] /\ ~ Zoned(streams[d][r])
          /\ \A u : ~ Subscribed(streams[d][r], u)
      BY <2>2, <1>1, <1>7
    <3> QED BY <3>1 DEF Exact
  <2>3. CASE d # c
    BY <2>3, <1>1, <1>2, <1>4 DEF Exact
  <2> QED BY <2>1, <2>2, <2>3
<1>13. Exact(streams', del, rms, sbs)
  BY <1>10, <1>11, <1>12 DEF Exact
<1> QED BY <1>13 DEF del, rms, sbs

(* A first header that subscribes when the slot map is full. *)
LEMMA RefusedExact ==
  ASSUME WellBehaved, Typed, Exact(streams, delivery, rooms, subs), NEW c \in Conn,
         NEW s \in Stream, NEW t \in Topic, NEW v \in {"SUB", "SKB"}, MaySend(c, s, v),
         NEW st \in StreamState, SetState(c, s, st), ~ HasRoom(t),
         st.topic = t, ~ st.isZonePub, st.headerParsed
  PROVE  Exact(streams', delivery, rooms, subs)
<1>1. /\ streams'[c][s] = st /\ st # Absent
      /\ \A d \in Conn, r \in Stream : d # c \/ r # s => streams'[d][r] = streams[d][r]
  BY SetStateIs DEF Typed
<1>2. t \notin rooms /\ ~ (Cardinality(rooms) < MaxRooms)
  BY DEF HasRoom
<1>3. \A u : ~ Subscribed(streams[c][s], u)
  <2>1. streams[c][s] = Absent \/ streams[c][s] = Fresh
    BY FirstHeader DEF State
  <2> QED BY <2>1 DEF Subscribed, Fresh
<1>4. \A u \in rooms : ~ Subscribed(st, u)
  BY <1>2 DEF Subscribed
<1>5. \A u \in rooms, d \in Conn, r \in Stream :
        Subscribed(streams'[d][r], u) <=> Subscribed(streams[d][r], u)
  BY <1>1, <1>3, <1>4
<1>6. \A u \in rooms : Subscribers(streams', u) = Subscribers(streams, u)
  BY <1>5 DEF Subscribers
<1>7. ASSUME NEW d \in Conn, NEW r \in Stream
      PROVE  /\ Zoned(streams'[d][r]) => delivery[d] = r /\ ~ streams'[d][r].isPub
             /\ streams'[d][r] # Absent /\ streams'[d][r].isSketch => streams'[d][r].headerParsed
  <2>1. CASE d = c /\ r = s
    BY <2>1, <1>1 DEF Zoned
  <2>2. CASE d # c \/ r # s
    BY <2>2, <1>1 DEF Exact
  <2> QED BY <2>1, <2>2
<1> QED BY <1>2, <1>5, <1>6, <1>7 DEF Exact

(* ZPB takes over the delivery entry of its connection. *)
LEMMA ZoneSubExact ==
  ASSUME WellBehaved, Typed, Exact(streams, delivery, rooms, subs), NEW c \in Conn,
         NEW s \in Stream, MaySend(c, s, "ZPB"), NEW st \in StreamState,
         SetState(c, s, st), st.isZonePub, st.headerParsed, st.isPub <=> State(c, s).isPub
  PROVE  Exact(streams', [delivery EXCEPT ![c] = s], rooms, subs)
<1> DEFINE del == [delivery EXCEPT ![c] = s]
<1>1. /\ streams'[c][s] = st /\ st # Absent
      /\ \A d \in Conn, r \in Stream : d # c \/ r # s => streams'[d][r] = streams[d][r]
  BY SetStateIs DEF Typed
<1>2. del[c] = s /\ \A d \in Conn : d # c => del[d] = delivery[d]
  BY DEF Typed
<1> HIDE DEF del
<1>3. State(c, s) = Fresh \/ State(c, s).isZonePub
  BY DEF MaySend, WellBehaved, Headed
<1>4. ~ Fresh.headerParsed /\ ~ Fresh.isPub /\ ~ Fresh.isZonePub
  BY DEF Fresh
<1>5. State(c, s) = Fresh \/ (State(c, s) = streams[c][s] /\ Zoned(streams[c][s]))
  BY <1>3, <1>4 DEF State, Zoned
<1>6. ~ st.isPub
  BY <1>4, <1>5 DEF Exact
<1>7. \A u : ~ Subscribed(st, u) /\ ~ Subscribed(streams[c][s], u)
  BY <1>4, <1>5 DEF Subscribed, State, Zoned
<1>8. \A d \in Conn, r \in Stream : \A u :
        Subscribed(streams'[d][r], u) <=> Subscribed(streams[d][r], u)
  BY <1>1, <1>7
<1>9. \A u : Subscribers(streams', u) = Subscribers(streams, u)
  BY <1>8 DEF Subscribers
<1>10. \A r \in Stream : r # s =>
         ~ Zoned(streams[c][r]) /\ \A u : ~ Subscribed(streams[c][r], u)
  BY OnlyReceiver DEF Receiving
<1>11. ASSUME NEW d \in Conn, NEW r \in Stream
       PROVE  /\ \A u \in rooms : Subscribed(streams'[d][r], u) => del[d] = r
              /\ Zoned(streams'[d][r]) => del[d] = r /\ ~ streams'[d][r].isPub
              /\ streams'[d][r] # Absent /\ streams'[d][r].isSketch => streams'[d][r].headerParsed
  <2>1. CASE d = c /\ r = s
    BY <2>1, <1>1, <1>2, <1>6
  <2>2. CASE d = c /\ r # s
    <3>1. /\ streams'[d][r] = streams[d][r] /\ ~ Zoned(streams[d][r])
          /\ \A u : ~ Subscribed(streams[d][r], u)
      BY <2>2, <1>1, <1>10
    <3> QED BY <3>1 DEF Exact
  <2>3. CASE d # c
    BY <2>3, <1>1, <1>2 DEF Exact
  <2> QED BY <2>1, <2>2, <2>3
<1>12. Exact(streams', del, rooms, subs)
  BY <1>9, <1>11 DEF Exact
<1> QED BY <1>12 DEF del

(* cleanupStream takes a subscriber out of the room its stream named, and  *)
(* no other stream of the connection needed it there.                      *)
LEMMA CleanupExact ==
  ASSUME Typed, Exact(streams, delivery, rooms, subs), NEW c \in Conn,
         NEW S \in SUBSET LiveStreams(c), CleanupStreams(c, S)
  PROVE  Exact(streams', delivery', rooms, subs')
<1>1. S \in SUBSET Stream /\ \A s \in S : streams[c][s] # Absent
  BY DEF LiveStreams
<1>2. /\ \A r \in S : streams'[c][r] = Absent
      /\ \A d \in Conn, r \in Stream :
           d # c \/ r \notin S => streams'[d][r] = streams[d][r]
  BY <1>1, CleanupIs DEF Typed
<1>3. /\ delivery' = IF delivery[c] \in S THEN [delivery EXCEPT ![c] = Absent] ELSE delivery
      /\ subs' = [t \in Topic |-> IF t \in DropsTopics(c, S) \cap rooms
                                    THEN subs[t] \ {c} ELSE subs[t]]
  BY DEF CleanupStreams, DropsDelivery
<1>4. \A d \in Conn : delivery'[d] = IF d = c /\ delivery[c] \in S THEN Absent ELSE delivery[d]
  BY <1>3 DEF Typed
<1>5. \A t : t \in DropsTopics(c, S) <=> \E s \in S : Subscribed(streams[c][s], t)
  BY <1>1 DEF DropsTopics, Subscribed
<1>6. \A d \in Conn, r \in Stream : \A t :
        Subscribed(streams'[d][r], t) <=>
          Subscribed(streams[d][r], t) /\ (d # c \/ r \notin S)
  BY <1>2 DEF Subscribed
<1>7. ASSUME NEW t \in rooms PROVE subs'[t] = Subscribers(streams', t)
  <2>1. t \in Topic /\ subs[t] = Subscribers(streams, t)
    BY DEF Typed, Exact
  <2>2. CASE t \in DropsTopics(c, S)
    <3>1. PICK s \in S : Subscribed(streams[c][s], t)
      BY <1>5, <2>2
    <3>2. \A r \in Stream : Subscribed(streams[c][r], t) => r = s
      BY <1>1, <3>1 DEF Exact
    <3>3. Subscribers(streams', t) = Subscribers(streams, t) \ {c}
      BY <1>6, <3>2 DEF Subscribers
    <3> QED BY <1>3, <2>1, <2>2, <3>3
  <2>3. CASE t \notin DropsTopics(c, S)
    <3>1. Subscribers(streams', t) = Subscribers(streams, t)
      BY <1>5, <1>6, <2>3 DEF Subscribers
    <3> QED BY <1>3, <2>1, <2>3, <3>1
  <2> QED BY <2>2, <2>3
<1>8. \A t : Subscribers(streams', t) \subseteq Subscribers(streams, t)
  BY <1>6 DEF Subscribers
<1>9. \A t \in Topic \ rooms :
        subs'[t] = {} /\ (Cardinality(rooms) < MaxRooms => Subscribers(streams', t) = {})
  BY <1>3, <1>8 DEF Exact
<1>10. ASSUME NEW d \in Conn, NEW r \in Stream, streams'[d][r] # Absent
       PROVE  streams'[d][r] = streams[d][r] /\ (d = c => r \notin S)
  BY <1>2, <1>10
<1>11. \A d \in Conn, r \in Stream :
         /\ \A t \in rooms : Subscribed(streams'[d][r], t) => delivery'[d] = r
         /\ Zoned(streams'[d][r]) => delivery'[d] = r /\ ~ streams'[d][r].isPub
         /\ streams'[d][r] # Absent /\ streams'[d][r].isSketch => streams'[d][r].headerParsed
  <2> SUFFICES ASSUME NEW d \in Conn, NEW r \in Stream, streams'[d][r] # Absent
               PROVE  /\ \A t \in rooms : Subscribed(streams'[d][r], t) => delivery'[d] = r
                      /\ Zoned(streams'[d][r]) => delivery'[d] = r /\ ~ streams'[d][r].isPub
                      /\ streams'[d][r].isSketch => streams'[d][r].headerParsed
    BY DEF Subscribed, Zoned
  <2>1. delivery[d] = r => delivery'[d] = r
    BY <1>4, <1>10
  <2> QED BY <1>10, <2>1 DEF Exact
<1> QED BY <1>7, <1>9, <1>11 DEF Exact
-----------------------------------------------------------------------------
(* The targets of a publish are served on the stream that subscribed. *)
LEMMA PublishAsked ==
  ASSUME Typed, Exact(streams, delivery, rooms, subs), NEW c \in Conn, NEW t, NEW str,
         \A d \in Conn, r \in Stream : d # c => str[d][r] = streams[d][r]
  PROVE  Asked(str, Deliver(Targets(t, c), "topic", t))
<1> SUFFICES ASSUME NEW d \in Reachable(Targets(t, c))
             PROVE  Subscribed(str[d][delivery[d]], t)
  BY DEF Asked, Deliver
<1>1. t \in Topic /\ d \in subs[t] /\ d # c
  BY DEF Reachable, Targets
<1>2. t \in rooms /\ d \in Subscribers(streams, t)
  BY <1>1 DEF Exact
<1>3. PICK s \in Stream : d \in Conn /\ Subscribed(streams[d][s], t)
  BY <1>2 DEF Subscribers
<1>4. delivery[d] = s
  BY <1>2, <1>3 DEF Exact
<1> QED BY <1>1, <1>3, <1>4

(* The entities in range are served on their zone stream. *)
LEMMA ZoneAsked ==
  ASSUME IInv, Exact(streams, delivery, rooms, subs), NEW c \in Conn, NEW t, NEW str,
         NEW targets \in SUBSET (placed \ {c}),
         \A d \in Conn, r \in Stream : d # c => str[d][r] = streams[d][r]
  PROVE  Asked(str, Deliver(targets, "zone", t))
<1> SUFFICES ASSUME NEW d \in Reachable(targets)
             PROVE  str[d][delivery[d]].isZonePub
  BY DEF Asked, Deliver
<1>1. d \in placed /\ d # c /\ d \in Conn
  BY DEF Reachable, IInv, Typed
<1>2. PICK r \in Stream : Zoned(streams[d][r])
  BY <1>1 DEF IInv, EntityHasZoneStream, LiveStreams, Zoned
<1>3. delivery[d] = r
  BY <1>1, <1>2 DEF Exact
<1> QED BY <1>1, <1>2, <1>3 DEF Zoned

(* A callback that wrote nothing. *)
LEMMA NothingAsked == ASSUME NEW str PROVE Asked(str, {})
BY DEF Asked

(* SUB: what the header makes of a fresh stream. *)
LEMMA HandleSubExact ==
  ASSUME WellBehaved, ClientInv, NEW c \in Conn, NEW s \in Stream, NEW t \in Topic,
         HandleSub(c, s, t)
  PROVE  Exact(streams', delivery', rooms', subs') /\ Asked(streams', sent')
<1> DEFINE st == SubHeader(State(c, s), t)
<1>1. Typed /\ Exact(streams, delivery, rooms, subs)
  BY DEF ClientInv, IInv
<1>2. MaySend(c, s, "SUB") /\ SetState(c, s, st) /\ rooms' = RoomsAfter(t) /\ sent' = {}
  BY DEF HandleSub, SubHeader
<1>3. State(c, s) = Fresh /\ Fresh \in StreamState
  BY <1>1, <1>2, FirstHeader, StateTyped
<1>4. /\ st \in StreamState /\ st.topic = t /\ st.headerParsed
      /\ ~ st.isZonePub /\ ~ st.isPub
  BY <1>3 DEF SubHeader, Fresh, StreamState
<1> HIDE DEF st
<1>5. Subscribed(st, t)
  BY <1>4, SentinelsAssumption DEF Subscribed
<1>6. CASE HasRoom(t)
  <2>1. delivery' = [delivery EXCEPT ![c] = s] /\ subs' = [subs EXCEPT ![t] = @ \cup {c}]
    BY <1>6 DEF HandleSub
  <2> QED BY <1>1, <1>2, <1>4, <1>5, <1>6, <2>1, SubscribeExact, NothingAsked
<1>7. CASE ~ HasRoom(t)
  <2>1. delivery' = delivery /\ subs' = subs /\ rooms' = rooms
    BY <1>7 DEF HandleSub, RoomsAfter
  <2> QED BY <1>1, <1>2, <1>4, <1>7, <2>1, RefusedExact, NothingAsked
<1> QED BY <1>6, <1>7

(* SKB: the same, and the replay goes to the stream itself. *)
LEMMA HandleSketchSubExact ==
  ASSUME WellBehaved, ClientInv, NEW c \in Conn, NEW s \in Stream, NEW t \in Topic,
         HandleSketchSub(c, s, t)
  PROVE  Exact(streams', delivery', rooms', subs') /\ Asked(streams', sent')
<1> DEFINE st == SketchHeader(State(c, s), t)
<1>1. Typed /\ Exact(streams, delivery, rooms, subs)
  BY DEF ClientInv, IInv
<1>2. MaySend(c, s, "SKB") /\ SetState(c, s, st) /\ rooms' = RoomsAfter(t)
  BY DEF HandleSketchSub, SketchHeader
<1>3. State(c, s) = Fresh /\ Fresh \in StreamState
  BY <1>1, <1>2, FirstHeader, StateTyped
<1>4. /\ st \in StreamState /\ st.topic = t /\ st.headerParsed
      /\ ~ st.isZonePub /\ ~ st.isPub
  BY <1>3 DEF SketchHeader, Fresh, StreamState
<1> HIDE DEF st
<1>5. Subscribed(st, t)
  BY <1>4, SentinelsAssumption DEF Subscribed
<1>6. CASE HasRoom(t)
  <2>1. /\ delivery' = [delivery EXCEPT ![c] = s] /\ subs' = [subs EXCEPT ![t] = @ \cup {c}]
        /\ sent' \subseteq {[to |-> c, on |-> s, kind |-> "topic", topic |-> t]}
    BY <1>6 DEF HandleSketchSub
  <2>2. streams'[c][s] = st
    BY <1>1, <1>2, <1>4, SetStateIs DEF Typed
  <2>3. Asked(streams', sent')
    BY <1>5, <2>1, <2>2 DEF Asked
  <2> QED BY <1>1, <1>2, <1>4, <1>5, <1>6, <2>1, <2>3, SubscribeExact
<1>7. CASE ~ HasRoom(t)
  <2>1. delivery' = delivery /\ subs' = subs /\ rooms' = rooms /\ sent' = {}
    BY <1>7 DEF HandleSketchSub, RoomsAfter
  <2> QED BY <1>1, <1>2, <1>4, <1>7, <2>1, RefusedExact, NothingAsked
<1> QED BY <1>6, <1>7

(* ZPB. *)
LEMMA HandleZoneSubExact ==
  ASSUME WellBehaved, ClientInv, NEW c \in Conn, NEW s \in Stream, NEW t \in Topic,
         HandleZoneSub(c, s, t)
  PROVE  Exact(streams', delivery', rooms', subs') /\ Asked(streams', sent')
<1> DEFINE st == ZoneHeader(State(c, s), t)
<1>1. Typed /\ Exact(streams, delivery, rooms, subs) /\ State(c, s) \in StreamState
  BY StateTyped DEF ClientInv, IInv
<1>2. /\ MaySend(c, s, "ZPB") /\ SetState(c, s, st)
      /\ delivery' = [delivery EXCEPT ![c] = s]
      /\ rooms' = rooms /\ subs' = subs /\ sent' = {}
  BY DEF HandleZoneSub, ZoneHeader
<1>3. /\ st \in StreamState /\ st.isZonePub /\ st.headerParsed
      /\ st.isPub <=> State(c, s).isPub
  BY <1>1 DEF ZoneHeader, StreamState
<1> HIDE DEF st
<1> QED BY <1>1, <1>2, <1>3, ZoneSubExact, NothingAsked

(* PUB: a stream that publishes asked for nothing before. *)
LEMMA PubHeaderExact ==
  ASSUME WellBehaved, ClientInv, NEW c \in Conn, NEW s \in Stream, NEW t \in Topic,
         PubHeader(c, s, t)
  PROVE  Exact(streams', delivery', rooms', subs') /\ Asked(streams', sent')
<1> DEFINE st == PubbedHeader(State(c, s), t)
<1>1. Typed /\ Exact(streams, delivery, rooms, subs) /\ State(c, s) \in StreamState
  BY StateTyped DEF ClientInv, IInv
<1>2. /\ MaySend(c, s, "PUB") /\ SetState(c, s, st)
      /\ delivery' = delivery /\ rooms' = rooms /\ subs' = subs /\ sent' = {}
  BY DEF PubHeader, PubbedHeader
<1>3. /\ st \in StreamState /\ st.isPub /\ st.headerParsed
      /\ st.isZonePub <=> State(c, s).isZonePub
  BY <1>1 DEF PubbedHeader, StreamState
<1>4. State(c, s) = Fresh \/ State(c, s).isPub
  BY <1>2 DEF MaySend, WellBehaved, Headed
<1>5. ~ Fresh.headerParsed /\ ~ Fresh.isPub /\ ~ Fresh.isZonePub
  BY DEF Fresh
<1>6. \/ streams[c][s] = Absent \/ streams[c][s] = Fresh
      \/ streams[c][s] # Absent /\ streams[c][s].isPub /\ State(c, s) = streams[c][s]
  BY <1>4, <1>5 DEF State
<1>7. ~ Zoned(streams[c][s]) /\ \A u : ~ Subscribed(streams[c][s], u)
  BY <1>1, <1>5, <1>6 DEF Zoned, Subscribed, Exact
<1>8. ~ State(c, s).isZonePub
  BY <1>5, <1>6, <1>7 DEF State, Zoned
<1> HIDE DEF st
<1>9. ~ Zoned(st) /\ \A u : ~ Subscribed(st, u)
  BY <1>3, <1>8 DEF Zoned, Subscribed
<1>10. Exact(streams', delivery, rooms, subs)
  BY <1>1, <1>2, <1>3, <1>7, <1>9, QuietCallback
<1> QED BY <1>2, <1>10, NothingAsked

(* Bytes that complete nothing create at most a fresh state. *)
LEMMA NoProgressExact ==
  ASSUME ClientInv, NEW c \in Conn, NEW s \in Stream, NoSpaceHeader(c, s) \/ Fragment(c, s)
  PROVE  Exact(streams', delivery', rooms', subs') /\ Asked(streams', sent')
<1> DEFINE st == State(c, s)
<1>1. Typed /\ Exact(streams, delivery, rooms, subs) /\ st \in StreamState
  BY StateTyped DEF ClientInv, IInv
<1>2. /\ SetState(c, s, st)
      /\ delivery' = delivery /\ rooms' = rooms /\ subs' = subs /\ sent' = {}
  BY DEF NoSpaceHeader, Fragment
<1>3. (streams[c][s] = Absent /\ st = Fresh) \/ st = streams[c][s]
  BY DEF State
<1>4. ~ Fresh.headerParsed /\ ~ Fresh.isZonePub /\ ~ Fresh.isSketch
  BY DEF Fresh
<1> HIDE DEF st
<1>5. /\ Zoned(st) <=> Zoned(streams[c][s])
      /\ \A u : Subscribed(st, u) <=> Subscribed(streams[c][s], u)
  BY <1>3, <1>4 DEF Zoned, Subscribed
<1>6. st # Absent
  BY <1>1, SentinelsAssumption
<1>7. (Zoned(st) => ~ st.isPub) /\ (st.isSketch => st.headerParsed)
  <2>1. CASE st = Fresh
    BY <2>1, <1>4 DEF Zoned
  <2>2. CASE st = streams[c][s]
    BY <2>2, <1>1, <1>6 DEF Exact
  <2> QED BY <1>3, <2>1, <2>2
<1>8. Exact(streams', delivery, rooms, subs)
  BY <1>1, <1>2, <1>5, <1>7, QuietCallback
<1> QED BY <1>2, <1>8, NothingAsked

(* A sketch frame changes no table. *)
LEMMA HandleSketchFrameExact ==
  ASSUME ClientInv, NEW c \in Conn, NEW s \in Stream, NEW f, HandleSketchFrame(c, s, f)
  PROVE  Exact(streams', delivery', rooms', subs') /\ Asked(streams', sent')
<1>1. Typed /\ Exact(streams, delivery, rooms, subs)
  BY DEF ClientInv, IInv
<1>2. /\ UNCHANGED <<streams, delivery, rooms, subs>>
      /\ \/ sent' = {}
         \/ sent' = Deliver(Targets(streams[c][s].room, c), "topic", streams[c][s].room)
  BY DEF HandleSketchFrame
<1>3. Asked(streams', sent')
  BY <1>1, <1>2, PublishAsked, NothingAsked
<1> QED BY <1>1, <1>2, <1>3

(* A PUB payload may make a room, and leaves the stream publishing. *)
LEMMA HandlePubExact ==
  ASSUME ClientInv, NEW c \in Conn, NEW s \in Stream, HandlePub(c, s)
  PROVE  Exact(streams', delivery', rooms', subs') /\ Asked(streams', sent')
<1> DEFINE t == streams[c][s].topic
           st == PayloadTaken(streams[c][s])
<1>1. Typed /\ Exact(streams, delivery, rooms, subs)
  BY DEF ClientInv, IInv
<1>2. /\ streams[c][s] \in StreamState /\ streams[c][s].headerParsed /\ streams[c][s] # Absent
      /\ ~ streams[c][s].isSketch /\ streams[c][s].isPub
  BY <1>1, StateTyped DEF HandlePub, PubMode, Typed, Streams
<1>3. t \in Topic
  BY <1>2 DEF ClientInv, IInv, HeadersHaveText
<1>4. st \in StreamState /\ ~ st.headerParsed /\ st.isPub /\ ~ st.isSketch
  BY <1>2, PayloadState DEF PayloadTaken, StreamState
<1>5. st.isZonePub <=> streams[c][s].isZonePub
  BY <1>2, PayloadState
<1>6. /\ SetState(c, s, st) /\ rooms' = RoomsAfter(t)
      /\ sent' = Deliver(Targets(t, c), "topic", t) \/ sent' = {}
      /\ delivery' = delivery /\ subs' = subs
  BY DEF HandlePub, PayloadTaken
<1>7. ~ Zoned(streams[c][s]) /\ \A u : ~ Subscribed(streams[c][s], u)
  BY <1>1, <1>2 DEF Zoned, Subscribed, Exact
<1>8. ~ Zoned(st) /\ \A u : ~ Subscribed(st, u)
  BY <1>2, <1>4, <1>5, <1>7 DEF Zoned, Subscribed
<1> HIDE DEF t, st
<1>9. Exact(streams', delivery, rooms, subs)
  BY <1>1, <1>4, <1>6, <1>7, <1>8, QuietCallback
<1>10. Exact(streams', delivery', rooms', subs')
  BY <1>1, <1>3, <1>6, <1>9, ExactRooms
<1>11. \A d \in Conn, r \in Stream : d # c => streams'[d][r] = streams[d][r]
  BY <1>1, <1>4, <1>6, SetStateIs DEF Typed
<1>12. Asked(streams', Deliver(Targets(t, c), "topic", t))
  BY <1>1, <1>11, PublishAsked
<1> QED BY <1>6, <1>10, <1>12, NothingAsked

(* A ZPB payload leaves the stream a zone stream. *)
LEMMA HandleZonePubExact ==
  ASSUME ClientInv, NEW c \in Conn, NEW s \in Stream, HandleZonePub(c, s)
  PROVE  Exact(streams', delivery', rooms', subs') /\ Asked(streams', sent')
<1> DEFINE st == PayloadTaken(streams[c][s])
<1>1. IInv /\ Typed /\ Exact(streams, delivery, rooms, subs)
  BY DEF ClientInv, IInv
<1>2. /\ streams[c][s] \in StreamState /\ streams[c][s] # Absent
      /\ ~ streams[c][s].isSketch /\ ~ streams[c][s].isPub /\ streams[c][s].isZonePub
  BY <1>1, StateTyped DEF HandleZonePub, ZoneMode, Typed, Streams
<1>3. /\ st \in StreamState /\ ~ st.headerParsed /\ ~ st.isSketch
      /\ st.isZonePub /\ ~ st.isPub
  BY <1>2, PayloadState DEF PayloadTaken, StreamState
<1>4. /\ SetState(c, s, st) /\ placed' \subseteq placed \cup {c}
      /\ delivery' = delivery /\ rooms' = rooms /\ subs' = subs
  BY DEF HandleZonePub, PayloadTaken
<1>5. PICK targets \in SUBSET (placed' \ {c}) : sent' = Deliver(targets, "zone", NoTopic)
  BY DEF HandleZonePub
<1> HIDE DEF st
<1>6. st # Absent
  BY <1>3, SentinelsAssumption
<1>7. /\ Zoned(st) <=> Zoned(streams[c][s])
      /\ \A u : Subscribed(st, u) <=> Subscribed(streams[c][s], u)
  BY <1>2, <1>3, <1>6 DEF Zoned, Subscribed
<1>8. Exact(streams', delivery, rooms, subs)
  BY <1>1, <1>3, <1>4, <1>7, QuietCallback
<1>9. \A d \in Conn, r \in Stream : d # c => streams'[d][r] = streams[d][r]
  BY <1>1, <1>3, <1>4, SetStateIs DEF Typed
<1>10. targets \in SUBSET (placed \ {c})
  BY <1>4, <1>5
<1>11. Asked(streams', sent')
  BY <1>1, <1>5, <1>9, <1>10, ZoneAsked
<1> QED BY <1>4, <1>8, <1>11

(* cleanupStream, of one stream or of all. *)
LEMMA CleanupAllExact ==
  ASSUME ClientInv, NEW c \in Conn, NEW S \in SUBSET LiveStreams(c), CleanupStreams(c, S)
  PROVE  Exact(streams', delivery', rooms', subs') /\ Asked(streams', sent')
<1>1. Typed /\ Exact(streams, delivery, rooms, subs)
  BY DEF ClientInv, IInv
<1>2. rooms' = rooms /\ sent' = {}
  BY DEF CleanupStreams
<1> QED BY <1>1, <1>2, CleanupExact, NothingAsked

(* No room, no subscriber. *)
LEMMA InitClientInv == Init => ClientInv
<1> SUFFICES ASSUME Init PROVE ClientInv
  OBVIOUS
<1>1. \A c \in Conn, s \in Stream : streams[c][s] = Absent
  BY DEF Init
<1>2. \A t : Subscribers(streams, t) = {}
  BY <1>1 DEF Subscribers, Subscribed
<1>3. Exact(streams, delivery, rooms, subs)
  BY <1>1, <1>2 DEF Exact, Init, Zoned
<1> QED BY <1>3, InitIInv, NothingAsked DEF ClientInv, Init

(* Every callback keeps it; a Bogus line is none such a client sends. *)
LEMMA NextClientInv ==
  ASSUME WellBehaved
  PROVE  ClientInv /\ [Next]_vars => ClientInv'
<1> SUFFICES ASSUME ClientInv, [Next]_vars
             PROVE  Exact(streams', delivery', rooms', subs') /\ Asked(streams', sent')
  BY NextIInv DEF ClientInv
<1> DEFINE Goal == Exact(streams', delivery', rooms', subs') /\ Asked(streams', sent')
<1>1. ASSUME NEW c \in Conn, Connect(c) PROVE Goal
  BY <1>1, NothingAsked DEF Connect, ClientInv
<1>2. ASSUME NEW c \in Conn, Close(c) PROVE Goal
  BY <1>2, CleanupAllExact DEF Close
<1>3. ASSUME NEW c \in Conn, NEW s \in Stream, StreamEnd(c, s) PROVE Goal
  <2>1. {s} \in SUBSET LiveStreams(c) /\ CleanupStreams(c, {s})
    BY <1>3 DEF StreamEnd
  <2> QED BY <2>1, CleanupAllExact
<1>4. ASSUME NEW c \in Conn, NEW s \in Stream, NEW t \in Topic, BogusHeader(c, s, t) PROVE Goal
  BY <1>4 DEF BogusHeader, MaySend, WellBehaved
<1>5. CASE UNCHANGED vars
  BY <1>5 DEF vars, ClientInv
<1> QED BY <1>1, <1>2, <1>3, <1>4, <1>5, HandleSubExact, HandleSketchSubExact,
           HandleZoneSubExact, PubHeaderExact, NoProgressExact, HandleSketchFrameExact,
           HandlePubExact, HandleZonePubExact
        DEF Next

(* The invariant of the bridge under clients that keep to the protocol. *)
THEOREM ClientInvariant ==
  ASSUME WellBehaved
  PROVE  Spec => []ClientInv
BY InitClientInv, NextClientInv, PTL DEF Spec

(* For clients that keep to the protocol a room's subscribers are exactly  *)
(* the connections with a stream subscribed to its topic, each served on   *)
(* that stream, through every order of headers, fins, resets and closes    *)
(* and with the room table full (handleSub, handleSketchSub,               *)
(* cleanupStream).                                                         *)
THEOREM SubscriptionsAreExact ==
  ASSUME WellBehaved
  PROVE  Spec => []SubscriptionsExact
<1>1. ClientInv => SubscriptionsExact
  BY DEF ClientInv, Exact, SubscriptionsExact, Subscribers, SubscribedOn, Subscribed
<1> QED BY <1>1, ClientInvariant, PTL

(* For clients that keep to the protocol whatever a publish writes goes to *)
(* a stream whose own header asked for it (handlePub, handleZonePub,       *)
(* handleSketchFrame).                                                     *)
THEOREM DeliveriesAskedFor ==
  ASSUME WellBehaved
  PROVE  Spec => []DeliveredOnOwnStream
<1>1. ClientInv => DeliveredOnOwnStream
  BY DEF ClientInv, Asked, DeliveredOnOwnStream, SubscribedOn, Subscribed
<1> QED BY <1>1, ClientInvariant, PTL
=============================================================================
