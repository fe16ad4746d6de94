-------------------------- MODULE SketchRelayProofs --------------------------
(***************************************************************************)
(* Late joiners converge, for every number of connections, streams, topics,*)
(* rooms and frames: replay and relay together give a sketch stream the    *)
(* room's history without its own frames, in order and each once.          *)
(***************************************************************************)
EXTENDS FanoutBridgeProofs, SequenceTheorems

Sketching(st) == st # Absent /\ st.isSketch

(* The frames of g are those of h but o, in the order of h, each once. *)
Follows(g, h, o) ==
  /\ o \subseteq Range(h) /\ Range(g) = Range(h) \ o
  /\ \A i, j \in DOMAIN g : i < j => Before(h, g[i], g[j]) /\ g[i] # g[j]

(* No frame is in a history twice. *)
Distinct(h) == \A i, j \in DOMAIN h : i # j => h[i] # h[j]

(* A stream that has no header yet was written nothing; a sketch stream is *)
(* subscribed to its topic, with the room of that topic unless it was      *)
(* refused, and follows the history of its room.                           *)
Relayed(str, rms, h, g, o) ==
  \A c \in Conn, s \in Stream :
    /\ str[c][s] \in {Absent, Fresh} => g[c][s] = << >> /\ o[c][s] = {}
    /\ Sketching(str[c][s]) =>
         /\ Subscribed(str[c][s], str[c][s].topic)
         /\ str[c][s].topic \in rms => /\ str[c][s].room = str[c][s].topic
                                       /\ Follows(g[c][s], h[str[c][s].topic], o[c][s])
         /\ str[c][s].topic \notin rms => str[c][s].room = NoTopic

Logs ==
  /\ got \in [Conn -> [Stream -> Seq(Frame)]]
  /\ own \in [Conn -> [Stream -> SUBSET Frame]]
  /\ \A t \in Topic \cup {NoTopic} : Distinct(history[t])

RelayInv == ClientInv /\ Logs /\ Relayed(streams, rooms, history, got, own)
-----------------------------------------------------------------------------
(* What a sequence holds after an append. *)
LEMMA AppendRange ==
  ASSUME NEW S, NEW h \in Seq(S), NEW f \in S
  PROVE  /\ Range(Append(h, f)) = Range(h) \cup {f}
         /\ Append(h, f) \in Seq(S) /\ Len(Append(h, f)) = Len(h) + 1
         /\ \A i \in 1 .. Len(h) : Append(h, f)[i] = h[i]
         /\ Append(h, f)[Len(h) + 1] = f
<1>1. /\ Append(h, f) \in Seq(S) /\ Len(Append(h, f)) = Len(h) + 1
      /\ \A i \in 1 .. Len(h) : Append(h, f)[i] = h[i]
      /\ Append(h, f)[Len(h) + 1] = f
  OBVIOUS
<1>2. DOMAIN h = 1 .. Len(h) /\ Len(h) \in Nat
  OBVIOUS
<1>3. DOMAIN Append(h, f) = 1 .. Len(h) + 1
  BY <1>1
<1>4. Range(Append(h, f)) = Range(h) \cup {f}
  <2>1. \A x : x \in Range(Append(h, f)) <=> \E i \in 1 .. Len(h) + 1 : x = Append(h, f)[i]
    BY <1>3 DEF Range
  <2>2. \A x : x \in Range(h) <=> \E i \in 1 .. Len(h) : x = h[i]
    BY <1>2 DEF Range
  <2>3. ASSUME NEW x PROVE x \in Range(Append(h, f)) <=> x \in Range(h) \cup {f}
    <3>1. ASSUME NEW i \in 1 .. Len(h) + 1, x = Append(h, f)[i] PROVE x \in Range(h) \cup {f}
      <4>1. CASE i \in 1 .. Len(h)
        BY <4>1, <3>1, <1>1, <2>2
      <4>2. CASE i = Len(h) + 1
        BY <4>2, <3>1, <1>1
      <4> QED BY <4>1, <4>2, <1>2
    <3>2. ASSUME NEW i \in 1 .. Len(h), x = h[i] PROVE x \in Range(Append(h, f))
      <4>1. i \in 1 .. Len(h) + 1
        BY <1>2
      <4> QED BY <4>1, <3>2, <1>1, <2>1
    <3>3. f \in Range(Append(h, f))
      <4>1. Len(h) + 1 \in 1 .. Len(h) + 1
        BY <1>2
      <4> QED BY <4>1, <1>1, <2>1
    <3> QED BY <2>1, <2>2, <3>1, <3>2, <3>3
  <2> QED BY <2>3
<1> QED BY <1>1, <1>4

(* RoomHistory.apply accepts a key once, so frames stay distinct. *)
LEMMA AppendDistinct ==
  ASSUME NEW S, NEW h \in Seq(S), NEW f \in S, Distinct(h), f \notin Range(h)
  PROVE  Distinct(Append(h, f))
<1>1. /\ Append(h, f) \in Seq(S) /\ Len(Append(h, f)) = Len(h) + 1
      /\ \A i \in 1 .. Len(h) : Append(h, f)[i] = h[i]
      /\ Append(h, f)[Len(h) + 1] = f
  BY AppendRange
<1>2. DOMAIN h = 1 .. Len(h) /\ Len(h) \in Nat /\ DOMAIN Append(h, f) = 1 .. Len(h) + 1
  BY <1>1
<1>3. \A i \in 1 .. Len(h) : h[i] # f
  BY <1>2 DEF Range
<1> SUFFICES ASSUME NEW i \in 1 .. Len(h) + 1, NEW j \in 1 .. Len(h) + 1, i # j
             PROVE  Append(h, f)[i] # Append(h, f)[j]
  BY <1>2 DEF Distinct
<1>4. CASE i \in 1 .. Len(h) /\ j \in 1 .. Len(h)
  BY <1>4, <1>1, <1>2 DEF Distinct
<1>5. CASE i \in 1 .. Len(h) /\ j = Len(h) + 1
  BY <1>5, <1>1, <1>3
<1>6. CASE i = Len(h) + 1 /\ j \in 1 .. Len(h)
  BY <1>6, <1>1, <1>3
<1> QED BY <1>2, <1>4, <1>5, <1>6

(* An order in a history stays when it grows. *)
LEMMA BeforeAppend ==
  ASSUME NEW S, NEW h \in Seq(S), NEW f \in S
  PROVE  /\ \A a, b : Before(h, a, b) => Before(Append(h, f), a, b)
         /\ \A a \in Range(h) : Before(Append(h, f), a, f)
<1>1. /\ Append(h, f) \in Seq(S) /\ Len(Append(h, f)) = Len(h) + 1
      /\ \A i \in 1 .. Len(h) : Append(h, f)[i] = h[i]
      /\ Append(h, f)[Len(h) + 1] = f
  BY AppendRange
<1>2. DOMAIN h = 1 .. Len(h) /\ Len(h) \in Nat /\ DOMAIN Append(h, f) = 1 .. Len(h) + 1
  BY <1>1
<1>3. \A i \in 1 .. Len(h) : i \in 1 .. Len(h) + 1 /\ i < Len(h) + 1
  BY <1>2
<1>4. ASSUME NEW a, NEW b, Before(h, a, b) PROVE Before(Append(h, f), a, b)
  <2>1. PICK i \in 1 .. Len(h), j \in 1 .. Len(h) : i < j /\ h[i] = a /\ h[j] = b
    BY <1>2, <1>4 DEF Before
  <2> QED BY <2>1, <1>1, <1>2, <1>3 DEF Before
<1>5. ASSUME NEW a \in Range(h) PROVE Before(Append(h, f), a, f)
  <2>1. PICK i \in 1 .. Len(h) : h[i] = a
    BY <1>2 DEF Range
  <2>2. Len(h) + 1 \in 1 .. Len(h) + 1
    BY <1>2
  <2> QED BY <2>1, <2>2, <1>1, <1>2, <1>3 DEF Before
<1> QED BY <1>4, <1>5

(* The replay: a stream that was written nothing follows the history. *)
LEMMA ReplayFollows ==
  ASSUME NEW S, NEW h \in Seq(S), Distinct(h)
  PROVE  << >> \o h = h /\ Follows(h, h, {})
<1>1. << >> \o h = h
  OBVIOUS
<1>2. \A i, j \in DOMAIN h : i < j => Before(h, h[i], h[j])
  BY DEF Before
<1>3. \A i, j \in DOMAIN h : i < j => h[i] # h[j]
  <2>1. \A i \in DOMAIN h : i \in Int
    OBVIOUS
  <2> QED BY <2>1 DEF Distinct
<1> QED BY <1>1, <1>2, <1>3 DEF Follows

(* The relay: a new frame is appended to history and stream alike. *)
LEMMA RelayFollows ==
  ASSUME NEW S, NEW g \in Seq(S), NEW h \in Seq(S), NEW o, NEW f \in S,
         Follows(g, h, o), f \notin Range(h)
  PROVE  Follows(Append(g, f), Append(h, f), o)
<1> DEFINE v == Append(g, f)
           w == Append(h, f)
<1>1. /\ v \in Seq(S) /\ Len(v) = Len(g) + 1
      /\ \A i \in 1 .. Len(g) : v[i] = g[i]
      /\ v[Len(g) + 1] = f
      /\ Range(v) = Range(g) \cup {f} /\ Range(w) = Range(h) \cup {f}
  BY AppendRange
<1>2. DOMAIN g = 1 .. Len(g) /\ Len(g) \in Nat /\ DOMAIN v = 1 .. Len(g) + 1
  BY <1>1
<1>3. o \subseteq Range(w) /\ Range(v) = Range(w) \ o
  BY <1>1 DEF Follows
<1>4. \A i \in 1 .. Len(g) : g[i] \in Range(h) /\ g[i] # f
  <2>1. \A i \in 1 .. Len(g) : g[i] \in Range(g)
    BY <1>2 DEF Range
  <2> QED BY <2>1 DEF Follows
<1>5. ASSUME NEW i \in 1 .. Len(g) + 1, NEW j \in 1 .. Len(g) + 1, i < j
      PROVE  Before(w, v[i], v[j]) /\ v[i] # v[j]
  <2>1. i \in 1 .. Len(g)
    BY <1>2, <1>5
  <2>2. CASE j \in 1 .. Len(g)
    <3>1. Before(h, g[i], g[j]) /\ g[i] # g[j]
      BY <1>2, <1>5, <2>1, <2>2 DEF Follows
    <3> QED BY <1>1, <2>1, <2>2, <3>1, BeforeAppend
  <2>3. CASE j = Len(g) + 1
    <3>1. g[i] \in Range(h) /\ g[i] # f /\ v[i] = g[i] /\ v[j] = f
      BY <1>1, <1>4, <2>1, <2>3
    <3> QED BY <3>1, BeforeAppend
  <2> QED BY <1>2, <2>2, <2>3
<1> HIDE DEF v, w
<1>6. Follows(v, w, o)
  BY <1>2, <1>3, <1>5 DEF Follows
<1> QED BY <1>6 DEF v, w

(* The stream's own frame is in the history, and is not sent back. *)
LEMMA OwnFollows ==
  ASSUME NEW S, NEW g \in Seq(S), NEW h \in Seq(S), NEW o, NEW f \in S,
         Follows(g, h, o), f \notin Range(h)
  PROVE  Follows(g, Append(h, f), o \cup {f})
<1> DEFINE w == Append(h, f)
<1>1. Range(w) = Range(h) \cup {f}
  BY AppendRange
<1>2. o \cup {f} \subseteq Range(w) /\ Range(g) = Range(w) \ (o \cup {f})
  BY <1>1 DEF Follows
<1>3. \A i, j \in DOMAIN g : i < j => Before(w, g[i], g[j]) /\ g[i] # g[j]
  BY BeforeAppend DEF Follows
<1> HIDE DEF w
<1>4. Follows(g, w, o \cup {f})
  BY <1>2, <1>3 DEF Follows
<1> QED BY <1>4 DEF w
-----------------------------------------------------------------------------
(* A room that a callback makes is no sketch stream's: it would have had   *)
(* its room, or have been refused with the slot map full.                  *)
LEMMA NoNewRoom ==
  ASSUME Typed, Exact(streams, delivery, rooms, subs), NEW t \in Topic,
         NEW rms \in {rooms, RoomsAfter(t)}, NEW c \in Conn, NEW s \in Stream, NEW u \in Topic,
         Subscribed(streams[c][s], u)
  PROVE  u \in rms <=> u \in rooms
<1>1. CASE rms = rooms
  BY <1>1
<1>2. CASE rms # rooms
  <2>1. rms = rooms \cup {t} /\ t \notin rooms /\ Cardinality(rooms) < MaxRooms
    BY <1>2 DEF RoomsAfter, HasRoom
  <2>2. Subscribers(streams, t) = {}
    BY <2>1 DEF Exact
  <2>3. u # t
    BY <2>2 DEF Subscribers
  <2> QED BY <2>1, <2>3
<1> QED BY <1>1, <1>2

(* A callback on one stream that neither starts nor alters a sketch. *)
LEMMA QuietRelay ==
  ASSUME IInv, Exact(streams, delivery, rooms, subs),
         Relayed(streams, rooms, history, got, own),
         NEW c \in Conn, NEW s \in Stream, NEW st \in StreamState, SetState(c, s, st),
         st = Fresh => streams[c][s] \in {Absent, Fresh},
         Sketching(st) => st = streams[c][s],
         NEW t \in Topic, NEW rms \in {rooms, RoomsAfter(t)}
  PROVE  Relayed(streams', rms, history, got, own)
<1>1. Typed /\ HeadersHaveText
  BY DEF IInv
<1>2. /\ streams'[c][s] = st /\ st # Absent
      /\ \A d \in Conn, r \in Stream : d # c \/ r # s => streams'[d][r] = streams[d][r]
  BY <1>1, SetStateIs DEF Typed
<1> SUFFICES ASSUME NEW d \in Conn, NEW r \in Stream
             PROVE  /\ streams'[d][r] \in {Absent, Fresh} => got[d][r] = << >> /\ own[d][r] = {}
                    /\ Sketching(streams'[d][r]) =>
                         LET x == streams'[d][r] IN
                         /\ Subscribed(x, x.topic)
                         /\ x.topic \in rms => /\ x.room = x.topic
                                               /\ Follows(got[d][r], history[x.topic], own[d][r])
                         /\ x.topic \notin rms => x.room = NoTopic
  BY DEF Relayed
<1>3. streams'[d][r] \in {Absent, Fresh} => streams[d][r] \in {Absent, Fresh}
  BY <1>2
<1>4. Sketching(streams'[d][r]) => streams'[d][r] = streams[d][r]
  BY <1>2
<1>5. ASSUME Sketching(streams[d][r])
      PROVE  streams[d][r].topic \in rms <=> streams[d][r].topic \in rooms
  <2>1. Subscribed(streams[d][r], streams[d][r].topic)
    BY <1>5 DEF Relayed
  <2>2. streams[d][r].topic \in Topic
    BY <1>1, <2>1 DEF HeadersHaveText, Subscribed
  <2> QED BY <1>1, <2>1, <2>2, NoNewRoom
<1> QED BY <1>3, <1>4, <1>5 DEF Relayed

(* SKB replays the history to a stream that was written nothing yet. *)
LEMMA SketchSubRelay ==
  ASSUME WellBehaved, RelayInv, NEW c \in Conn, NEW s \in Stream, NEW t \in Topic,
         HandleSketchSub(c, s, t)
  PROVE  Logs' /\ Relayed(streams', rooms', history', got', own')
<1> DEFINE st == SketchHeader(State(c, s), t)
<1>1. /\ IInv /\ Typed /\ Exact(streams, delivery, rooms, subs) /\ Logs
      /\ Relayed(streams, rooms, history, got, own)
  BY DEF RelayInv, ClientInv, IInv
<1>2. /\ MaySend(c, s, "SKB") /\ SetState(c, s, st) /\ rooms' = RoomsAfter(t)
      /\ history' = history /\ own' = own
  BY DEF HandleSketchSub, SketchHeader
<1>3. State(c, s) = Fresh /\ Fresh \in StreamState
  BY <1>1, <1>2, FirstHeader, StateTyped
<1>4. /\ st \in StreamState /\ st.topic = t /\ st.headerParsed
      /\ ~ st.isZonePub /\ ~ st.isPub
      /\ HasRoom(t) => st.room = t
      /\ ~ HasRoom(t) => st.room = NoTopic
  <2>1. /\ st \in StreamState /\ st.topic = t /\ st.headerParsed
        /\ ~ st.isZonePub /\ ~ st.isPub
    BY <1>3 DEF SketchHeader, Fresh, StreamState
  <2>2. st.room = IF HasRoom(t) THEN t ELSE Fresh.room
    BY <1>3 DEF SketchHeader, StreamState
  <2>3. Fresh.room = NoTopic
    BY DEF Fresh
  <2> QED BY <2>1, <2>2, <2>3
<1>5. got[c][s] = << >> /\ own[c][s] = {}
  BY <1>1, <1>3 DEF Relayed, State
<1>6. history[t] \in Seq(Frame) /\ Distinct(history[t])
  BY <1>1 DEF Logs, Typed
<1>7. IF HasRoom(t) THEN got' = [got EXCEPT ![c][s] = got[c][s] \o history[t]] ELSE got' = got
  BY DEF HandleSketchSub, Replay
<1> HIDE DEF st
<1>8. /\ got' \in [Conn -> [Stream -> Seq(Frame)]]
      /\ HasRoom(t) => got'[c][s] = history[t]
      /\ \A d \in Conn, r \in Stream : d # c \/ r # s => got'[d][r] = got[d][r]
  <2>1. got[c][s] \o history[t] = history[t] /\ got \in [Conn -> [Stream -> Seq(Frame)]]
    BY <1>1, <1>5, <1>6, ReplayFollows DEF Logs
  <2>2. CASE HasRoom(t)
    <3>1. got' = [got EXCEPT ![c][s] = history[t]]
      BY <1>7, <2>1, <2>2
    <3> QED BY <1>6, <2>1, <3>1
  <2>3. CASE ~ HasRoom(t)
    BY <1>7, <2>1, <2>3
  <2> QED BY <2>2, <2>3
<1>9. Logs'
  BY <1>1, <1>2, <1>8 DEF Logs
<1>10. /\ streams'[c][s] = st /\ st # Absent
       /\ \A d \in Conn, r \in Stream : d # c \/ r # s => streams'[d][r] = streams[d][r]
  BY <1>1, <1>2, <1>4, SetStateIs DEF Typed
<1>11. Subscribed(st, t) /\ st # Fresh
  BY <1>4, <1>10 DEF Subscribed, Fresh
<1>12. HasRoom(t) <=> t \in rooms'
  BY <1>1, <1>2, RoomsTyped DEF HasRoom
<1>13. ASSUME NEW d \in Conn, NEW r \in Stream
       PROVE  /\ streams'[d][r] \in {Absent, Fresh} => got'[d][r] = << >> /\ own'[d][r] = {}
              /\ Sketching(streams'[d][r]) =>
                   LET x == streams'[d][r] IN
                   /\ Subscribed(x, x.topic)
                   /\ x.topic \in rooms' =>
                        x.room = x.topic /\ Follows(got'[d][r], history'[x.topic], own'[d][r])
                   /\ x.topic \notin rooms' => x.room = NoTopic
  <2>1. CASE d = c /\ r = s
    <3>1. Follows(history[t], history[t], {})
      BY <1>6, ReplayFollows
    <3> QED BY <2>1, <3>1, <1>2, <1>4, <1>5, <1>8, <1>10, <1>11, <1>12
  <2>2. CASE d # c \/ r # s
    <3>1. streams'[d][r] = streams[d][r] /\ got'[d][r] = got[d][r] /\ own' = own
      BY <2>2, <1>2, <1>8, <1>10
    <3>2. ASSUME Sketching(streams[d][r])
          PROVE  streams[d][r].topic \in rooms' <=> streams[d][r].topic \in rooms
      <4>1. Subscribed(streams[d][r], streams[d][r].topic)
        BY <1>1, <3>2 DEF Relayed
      <4>2. streams[d][r].topic \in Topic
        BY <1>1, <4>1 DEF IInv, HeadersHaveText, Subscribed
      <4> QED BY <1>1, <1>2, <4>1, <4>2, NoNewRoom
    <3> QED BY <1>1, <1>2, <3>1, <3>2 DEF Relayed
  <2> QED BY <2>1, <2>2
<1>14. Relayed(streams', rooms', history', got', own')
  BY <1>13 DEF Relayed
<1> QED BY <1>9, <1>14

(* A frame that a history accepts is appended for every subscriber but the *)
(* stream it came from.                                                    *)
LEMMA SketchFrameRelay ==
  ASSUME RelayInv, NEW c \in Conn, NEW s \in Stream, NEW f \in Frame \cup {Undecodable},
         HandleSketchFrame(c, s, f)
  PROVE  Logs' /\ Relayed(streams', rooms', history', got', own')
<1> DEFINE room == streams[c][s].room
           targets == Targets(room, c)
<1>1. /\ IInv /\ Typed /\ Exact(streams, delivery, rooms, subs) /\ Logs
      /\ Relayed(streams, rooms, history, got, own)
  BY DEF RelayInv, ClientInv, IInv
<1>2. streams' = streams /\ rooms' = rooms
  BY DEF HandleSketchFrame
<1>3. CASE ~ Accepts(room, f)
  <2>1. history' = history /\ got' = got /\ own' = own
    BY <1>3 DEF HandleSketchFrame
  <2> QED BY <1>1, <1>2, <2>1 DEF Logs
<1>4. CASE Accepts(room, f)
  <2>1. /\ history' = [history EXCEPT ![room] = Append(history[room], f)]
        /\ got' = [d \in Conn |-> [r \in Stream |->
                     IF d \in targets /\ delivery[d] = r
                       THEN Append(got[d][r], f) ELSE got[d][r]]]
        /\ own' = [own EXCEPT ![c][s] = own[c][s] \cup {f}]
    BY <1>4 DEF HandleSketchFrame
  <2>2. f \in Frame /\ f \notin Range(history[room])
    BY <1>4 DEF Accepts
  <2>3. streams[c][s] \in StreamState /\ Sketching(streams[c][s])
    BY <1>1, StateTyped DEF HandleSketchFrame, SketchMode, Typed, Streams, Sketching
  <2>4. room \in Topic \cup {NoTopic}
    BY <2>3 DEF StreamState
  <2>5. /\ Subscribed(streams[c][s], streams[c][s].topic)
        /\ room \in Topic => room \in rooms /\ streams[c][s].topic = room
        /\ streams[c][s].topic \in rooms => room = streams[c][s].topic
    BY <1>1, <2>3, SentinelsAssumption DEF Relayed
  <2>6. \A d \in Conn, r \in Stream :
          d \in targets /\ delivery[d] = r => d # c /\ room \in Topic /\ Subscribed(streams[d][r], room)
    <3> SUFFICES ASSUME NEW d \in Conn, NEW r \in Stream, d \in targets, delivery[d] = r
                 PROVE  d # c /\ room \in Topic /\ Subscribed(streams[d][r], room)
      OBVIOUS
    <3>1. room \in Topic /\ d \in subs[room] /\ d # c
      BY DEF Targets
    <3>2. room \in rooms /\ d \in Subscribers(streams, room)
      BY <1>1, <2>5, <3>1 DEF Exact
    <3>3. PICK q \in Stream : Subscribed(streams[d][q], room)
      BY <3>2 DEF Subscribers
    <3>4. delivery[d] = q
      BY <1>1, <3>2, <3>3 DEF Exact
    <3> QED BY <3>1, <3>3, <3>4
  <2>7. \A d \in Conn, r \in Stream :
          room \in Topic /\ Subscribed(streams[d][r], room) =>
            delivery[d] = r /\ (d # c => d \in targets) /\ (d = c => r = s)
    <3> SUFFICES ASSUME NEW d \in Conn, NEW r \in Stream, room \in Topic,
                        Subscribed(streams[d][r], room)
                 PROVE  delivery[d] = r /\ (d # c => d \in targets) /\ (d = c => r = s)
      OBVIOUS
    <3>1. room \in rooms /\ Subscribed(streams[c][s], room)
      BY <2>5
    <3>2. delivery[d] = r /\ delivery[c] = s
      BY <1>1, <3>1 DEF Exact
    <3>3. d \in subs[room]
      BY <1>1, <3>1 DEF Exact, Subscribers
    <3> QED BY <3>2, <3>3 DEF Targets
  <2> HIDE DEF room, targets
  <2>8. /\ history \in [Topic \cup {NoTopic} -> Seq(Frame)]
        /\ got \in [Conn -> [Stream -> Seq(Frame)]]
        /\ own \in [Conn -> [Stream -> SUBSET Frame]]
    BY <1>1 DEF Typed, Logs
  <2>9. /\ history'[room] = Append(history[room], f) /\ history[room] \in Seq(Frame)
        /\ \A u \in Topic \cup {NoTopic} : u # room => history'[u] = history[u]
    BY <2>1, <2>4, <2>8
  <2>10. /\ own'[c][s] = own[c][s] \cup {f}
         /\ \A d \in Conn, r \in Stream : d # c \/ r # s => own'[d][r] = own[d][r]
    BY <2>1, <2>8
  <2>11. \A d \in Conn, r \in Stream :
           got'[d][r] = IF d \in targets /\ delivery[d] = r THEN Append(got[d][r], f) ELSE got[d][r]
    BY <2>1
  <2>12. got' \in [Conn -> [Stream -> Seq(Frame)]] /\ own' \in [Conn -> [Stream -> SUBSET Frame]]
    BY <2>1, <2>2, <2>8
  <2>13. ASSUME NEW u \in Topic \cup {NoTopic} PROVE Distinct(history'[u])
    <3>1. Distinct(history[u])
      BY <1>1 DEF Logs
    <3>2. CASE u = room
      <4>1. Distinct(Append(history[room], f))
        BY <2>2, <2>9, <3>1, <3>2, AppendDistinct
      <4> QED BY <2>9, <3>2, <4>1
    <3>3. CASE u # room
      BY <2>9, <3>1, <3>3
    <3> QED BY <3>2, <3>3
  <2>14. ASSUME NEW d \in Conn, NEW r \in Stream, streams[d][r] \in {Absent, Fresh}
         PROVE  got'[d][r] = << >> /\ own'[d][r] = {}
    <3>1. \A u : ~ Subscribed(streams[d][r], u)
      BY <2>14 DEF Subscribed, Fresh
    <3>2. d # c \/ r # s
      BY <2>5, <3>1
    <3>3. ~ (d \in targets /\ delivery[d] = r)
      BY <2>6, <3>1
    <3> QED BY <1>1, <2>10, <2>11, <2>14, <3>2, <3>3 DEF Relayed
  <2>15. ASSUME NEW d \in Conn, NEW r \in Stream, Sketching(streams[d][r]),
                streams[d][r].topic \in rooms
         PROVE  Follows(got'[d][r], history'[streams[d][r].topic], own'[d][r])
    <3> DEFINE v == streams[d][r].topic
    <3>1. /\ Subscribed(streams[d][r], v) /\ v \in Topic
          /\ Follows(got[d][r], history[v], own[d][r])
      BY <1>1, <2>15 DEF Relayed, Typed
    <3>2. got[d][r] \in Seq(Frame)
      BY <2>8
    <3> HIDE DEF v
    <3>3. CASE v = room /\ d = c
      <4>1. r = s /\ ~ (d \in targets /\ delivery[d] = r)
        BY <2>6, <2>7, <3>1, <3>3
      <4>2. got'[d][r] = got[d][r] /\ own'[d][r] = own[d][r] \cup {f}
        BY <2>10, <2>11, <3>3, <4>1
      <4>3. Follows(got[d][r], Append(history[room], f), own[d][r] \cup {f})
        BY <2>2, <2>9, <3>1, <3>2, <3>3, OwnFollows
      <4> QED BY <2>9, <3>3, <4>2, <4>3 DEF v
    <3>4. CASE v = room /\ d # c
      <4>1. got'[d][r] = Append(got[d][r], f) /\ own'[d][r] = own[d][r]
        <5>1. room \in Topic /\ Subscribed(streams[d][r], room)
          BY <3>1, <3>4
        <5>2. delivery[d] = r /\ d \in targets
          BY <2>7, <3>4, <5>1
        <5> QED BY <2>10, <2>11, <3>4, <5>2
      <4>2. Follows(Append(got[d][r], f), Append(history[room], f), own[d][r])
        BY <2>2, <2>9, <3>1, <3>2, <3>4, RelayFollows
      <4> QED BY <2>9, <3>4, <4>1, <4>2 DEF v
    <3>5. CASE v # room
      <4>1. d # c \/ r # s
        BY <2>5, <2>15, <3>5 DEF v
      <4>2. ~ (d \in targets /\ delivery[d] = r)
        <5>1. Subscribed(streams[d][r], room) => streams[d][r].topic = room
          BY DEF Subscribed
        <5> QED BY <2>6, <3>5, <5>1 DEF v
      <4> QED BY <2>9, <2>10, <2>11, <3>1, <3>5, <4>1, <4>2 DEF v
    <3> QED BY <3>3, <3>4, <3>5
  <2>16. Relayed(streams, rooms, history', got', own')
    BY <1>1, <2>14, <2>15 DEF Relayed
  <2> QED BY <1>2, <2>12, <2>13, <2>16 DEF Logs
<1> QED BY <1>3, <1>4
-----------------------------------------------------------------------------
(* A sketch stream is neither publishing nor a zone stream. *)
LEMMA SketchOnly ==
  ASSUME RelayInv, NEW c \in Conn, NEW s \in Stream, Sketching(streams[c][s])
  PROVE  streams[c][s].headerParsed /\ ~ streams[c][s].isPub /\ ~ streams[c][s].isZonePub
BY DEF RelayInv, Relayed, Subscribed

(* A step that writes no frame keeps the logs. *)
LEMMA SilentLogs ==
  ASSUME Logs, got' = got, own' = own, history' = history
  PROVE  Logs'
BY DEF Logs

(* SUB, PUB and ZPB: a stream that gets one of them sketches nothing. *)
LEMMA HeaderRelay ==
  ASSUME WellBehaved, RelayInv, NEW c \in Conn, NEW s \in Stream, NEW t \in Topic,
         HandleSub(c, s, t) \/ PubHeader(c, s, t) \/ HandleZoneSub(c, s, t)
  PROVE  Logs' /\ Relayed(streams', rooms', history', got', own')
<1>1. /\ IInv /\ Typed /\ Exact(streams, delivery, rooms, subs) /\ Logs
      /\ Relayed(streams, rooms, history, got, own)
  BY DEF RelayInv, ClientInv, IInv
<1>2. /\ State(c, s) \in StreamState /\ ~ Fresh.isSketch /\ ~ Fresh.headerParsed
      /\ streams[c][s] # Absent => State(c, s) = streams[c][s]
  BY <1>1, StateTyped DEF Fresh
<1>3. \E v \in {"SUB", "PUB", "ZPB"} : MaySend(c, s, v)
  BY DEF HandleSub, PubHeader, HandleZoneSub
<1>4. State(c, s) = Fresh \/ State(c, s).isPub \/ State(c, s).isZonePub
  BY <1>3 DEF MaySend, WellBehaved, Headed
<1>5. ~ State(c, s).isSketch
  <2>1. CASE State(c, s) = Fresh
    BY <2>1, <1>2
  <2>2. CASE State(c, s) # Fresh
    <3>1. streams[c][s] # Absent /\ State(c, s) = streams[c][s]
      BY <2>2 DEF State
    <3> QED BY <1>4, <2>2, <3>1, SketchOnly DEF Sketching
  <2> QED BY <2>1, <2>2
<1>6. PICK st \in StreamState :
        SetState(c, s, st) /\ st.headerParsed /\ ~ st.isSketch
  <2>1. CASE HandleSub(c, s, t)
    <3>1. SetState(c, s, SubHeader(State(c, s), t))
      BY <2>1 DEF HandleSub, SubHeader
    <3>2. /\ SubHeader(State(c, s), t) \in StreamState
          /\ SubHeader(State(c, s), t).headerParsed /\ ~ SubHeader(State(c, s), t).isSketch
      BY <1>2, <1>5 DEF SubHeader, StreamState
    <3> QED BY <3>1, <3>2
  <2>2. CASE PubHeader(c, s, t)
    <3>1. SetState(c, s, PubbedHeader(State(c, s), t))
      BY <2>2 DEF PubHeader, PubbedHeader
    <3>2. /\ PubbedHeader(State(c, s), t) \in StreamState
          /\ PubbedHeader(State(c, s), t).headerParsed /\ ~ PubbedHeader(State(c, s), t).isSketch
      BY <1>2, <1>5 DEF PubbedHeader, StreamState
    <3> QED BY <3>1, <3>2
  <2>3. CASE HandleZoneSub(c, s, t)
    <3>1. SetState(c, s, ZoneHeader(State(c, s), t))
      BY <2>3 DEF HandleZoneSub, ZoneHeader
    <3>2. /\ ZoneHeader(State(c, s), t) \in StreamState
          /\ ZoneHeader(State(c, s), t).headerParsed /\ ~ ZoneHeader(State(c, s), t).isSketch
      BY <1>2, <1>5 DEF ZoneHeader, StreamState
    <3> QED BY <3>1, <3>2
  <2> QED BY <2>1, <2>2, <2>3
<1>7. st # Fresh /\ ~ Sketching(st)
  BY <1>2, <1>6 DEF Sketching
<1>8. /\ rooms' \in {rooms, RoomsAfter(t)}
      /\ got' = got /\ own' = own /\ history' = history
  BY DEF HandleSub, PubHeader, HandleZoneSub
<1>9. Relayed(streams', rooms', history, got, own)
  BY <1>1, <1>6, <1>7, <1>8, QuietRelay
<1> QED BY <1>1, <1>8, <1>9, SilentLogs

(* Bytes that complete nothing leave a stream as it was, or fresh. *)
LEMMA NoProgressRelay ==
  ASSUME RelayInv, NEW c \in Conn, NEW s \in Stream, NoSpaceHeader(c, s) \/ Fragment(c, s)
  PROVE  Logs' /\ Relayed(streams', rooms', history', got', own')
<1>1. /\ IInv /\ Typed /\ Exact(streams, delivery, rooms, subs) /\ Logs
      /\ Relayed(streams, rooms, history, got, own)
  BY DEF RelayInv, ClientInv, IInv
<1>2. State(c, s) \in StreamState /\ ~ Fresh.isSketch
  BY <1>1, StateTyped DEF Fresh
<1>3. /\ SetState(c, s, State(c, s)) /\ rooms' = rooms
      /\ got' = got /\ own' = own /\ history' = history
  BY DEF NoSpaceHeader, Fragment
<1>4. (streams[c][s] = Absent /\ State(c, s) = Fresh) \/ State(c, s) = streams[c][s]
  BY DEF State
<1>5. \A d \in Conn, r \in Stream :
        /\ streams'[d][r] \in {Absent, Fresh} => streams[d][r] \in {Absent, Fresh}
        /\ Sketching(streams'[d][r]) => streams'[d][r] = streams[d][r]
  <2>1. /\ streams'[c][s] = State(c, s)
        /\ \A d \in Conn, r \in Stream : d # c \/ r # s => streams'[d][r] = streams[d][r]
    BY <1>1, <1>2, <1>3, SetStateIs DEF Typed
  <2> QED BY <1>2, <1>4, <2>1 DEF Sketching
<1>6. Relayed(streams', rooms, history, got, own)
  BY <1>1, <1>5 DEF Relayed
<1> QED BY <1>1, <1>3, <1>6, SilentLogs

(* A payload of a publishing or of a zone stream. *)
LEMMA PayloadRelay ==
  ASSUME RelayInv, NEW c \in Conn, NEW s \in Stream, HandlePub(c, s) \/ HandleZonePub(c, s)
  PROVE  Logs' /\ Relayed(streams', rooms', history', got', own')
<1> DEFINE st == PayloadTaken(streams[c][s])
<1>1. /\ IInv /\ Typed /\ Exact(streams, delivery, rooms, subs) /\ Logs
      /\ Relayed(streams, rooms, history, got, own)
  BY DEF RelayInv, ClientInv, IInv
<1>2. /\ streams[c][s] \in StreamState /\ streams[c][s].headerParsed /\ streams[c][s] # Absent
      /\ ~ streams[c][s].isSketch /\ (streams[c][s].isPub \/ streams[c][s].isZonePub)
  BY <1>1, StateTyped DEF HandlePub, HandleZonePub, PubMode, ZoneMode, Typed, Streams
<1>3. /\ st \in StreamState /\ ~ st.isSketch
      /\ st.isPub <=> streams[c][s].isPub
      /\ st.isZonePub <=> streams[c][s].isZonePub
  BY <1>2, PayloadState DEF PayloadTaken, StreamState
<1>4. SetState(c, s, st) /\ got' = got /\ own' = own /\ history' = history
  BY DEF HandlePub, HandleZonePub, PayloadTaken
<1>5. streams[c][s].topic \in Topic
  BY <1>1, <1>2 DEF IInv, HeadersHaveText
<1>6. rooms' \in {rooms, RoomsAfter(streams[c][s].topic)}
  BY DEF HandlePub, HandleZonePub
<1> HIDE DEF st
<1>7. ~ Fresh.isPub /\ ~ Fresh.isZonePub
  BY DEF Fresh
<1>8. st # Fresh /\ ~ Sketching(st)
  BY <1>2, <1>3, <1>7 DEF Sketching
<1>9. Relayed(streams', rooms', history, got, own)
  BY <1>1, <1>3, <1>4, <1>5, <1>6, <1>8, QuietRelay
<1> QED BY <1>1, <1>4, <1>9, SilentLogs

(* cleanupStream: the next stream of that id starts from nothing. *)
LEMMA CleanupRelay ==
  ASSUME RelayInv, NEW c \in Conn, NEW S \in SUBSET LiveStreams(c), CleanupStreams(c, S)
  PROVE  Logs' /\ Relayed(streams', rooms', history', got', own')
<1>1. /\ Typed /\ Logs /\ Relayed(streams, rooms, history, got, own) /\ S \in SUBSET Stream
  BY DEF RelayInv, ClientInv, IInv, LiveStreams
<1>2. /\ \A r \in S : streams'[c][r] = Absent
      /\ \A d \in Conn, r \in Stream :
           d # c \/ r \notin S => streams'[d][r] = streams[d][r]
  BY <1>1, CleanupIs DEF Typed
<1>3. /\ got' \in [Conn -> [Stream -> Seq(Frame)]]
      /\ \A r \in S : got'[c][r] = << >>
      /\ \A d \in Conn, r \in Stream : d # c \/ r \notin S => got'[d][r] = got[d][r]
  BY <1>1 DEF CleanupStreams, Logs
<1>4. /\ own' \in [Conn -> [Stream -> SUBSET Frame]]
      /\ \A r \in S : own'[c][r] = {}
      /\ \A d \in Conn, r \in Stream : d # c \/ r \notin S => own'[d][r] = own[d][r]
  BY <1>1 DEF CleanupStreams, Logs
<1>5. rooms' = rooms /\ history' = history
  BY DEF CleanupStreams
<1>6. Logs'
  BY <1>1, <1>3, <1>4, <1>5 DEF Logs
<1>7. ASSUME NEW d \in Conn, NEW r \in Stream
      PROVE  /\ streams'[d][r] \in {Absent, Fresh} => got'[d][r] = << >> /\ own'[d][r] = {}
             /\ Sketching(streams'[d][r]) =>
                  LET x == streams'[d][r] IN
                  /\ Subscribed(x, x.topic)
                  /\ x.topic \in rooms =>
                       x.room = x.topic /\ Follows(got'[d][r], history[x.topic], own'[d][r])
                  /\ x.topic \notin rooms => x.room = NoTopic
  <2>1. CASE d = c /\ r \in S
    BY <2>1, <1>2, <1>3, <1>4 DEF Sketching
  <2>2. CASE d # c \/ r \notin S
    <3>1. streams'[d][r] = streams[d][r] /\ got'[d][r] = got[d][r] /\ own'[d][r] = own[d][r]
      BY <2>2, <1>2, <1>3, <1>4
    <3> QED BY <1>1, <3>1 DEF Relayed
  <2> QED BY <2>1, <2>2
<1>8. Relayed(streams', rooms', history', got', own')
  BY <1>5, <1>7 DEF Relayed
<1> QED BY <1>6, <1>8
-----------------------------------------------------------------------------
(* No stream, no frame. *)
LEMMA InitRelayInv == Init => RelayInv
<1> SUFFICES ASSUME Init PROVE Logs /\ Relayed(streams, rooms, history, got, own)
  BY InitClientInv DEF RelayInv
<1>1. \A c \in Conn, s \in Stream :
        streams[c][s] = Absent /\ got[c][s] = << >> /\ own[c][s] = {}
  BY DEF Init
<1>2. Relayed(streams, rooms, history, got, own)
  BY <1>1 DEF Relayed, Sketching
<1>3. got \in [Conn -> [Stream -> Seq(Frame)]] /\ own \in [Conn -> [Stream -> SUBSET Frame]]
  BY DEF Init
<1>4. \A t \in Topic \cup {NoTopic} : Distinct(history[t])
  BY DEF Init, Distinct
<1> QED BY <1>2, <1>3, <1>4 DEF Logs

(* Every callback keeps it. *)
LEMMA NextRelayInv ==
  ASSUME WellBehaved
  PROVE  RelayInv /\ [Next]_vars => RelayInv'
<1> SUFFICES ASSUME RelayInv, [Next]_vars
             PROVE  Logs' /\ Relayed(streams', rooms', history', got', own')
  BY NextClientInv DEF RelayInv
<1> DEFINE Goal == Logs' /\ Relayed(streams', rooms', history', got', own')
<1>1. ASSUME NEW c \in Conn, Connect(c) PROVE Goal
  BY <1>1, SilentLogs DEF Connect, RelayInv
<1>2. ASSUME NEW c \in Conn, Close(c) PROVE Goal
  BY <1>2, CleanupRelay DEF Close
<1>3. ASSUME NEW c \in Conn, NEW s \in Stream, StreamEnd(c, s) PROVE Goal
  <2>1. {s} \in SUBSET LiveStreams(c) /\ CleanupStreams(c, {s})
    BY <1>3 DEF StreamEnd
  <2> QED BY <2>1, CleanupRelay
<1>4. ASSUME NEW c \in Conn, NEW s \in Stream, NEW t \in Topic, BogusHeader(c, s, t) PROVE Goal
  BY <1>4 DEF BogusHeader, MaySend, WellBehaved
<1>5. CASE UNCHANGED vars
  BY <1>5, SilentLogs DEF vars, RelayInv
<1> QED BY <1>1, <1>2, <1>3, <1>4, <1>5, SketchSubRelay, SketchFrameRelay, HeaderRelay,
           NoProgressRelay, PayloadRelay
        DEF Next

(* The invariant of the sketch relay: a sketch stream follows the history  *)
(* of the room it was given (handleSketchSub, handleSketchFrame).          *)
THEOREM RelayInvariant ==
  ASSUME WellBehaved
  PROVE  Spec => []RelayInv
BY InitRelayInv, NextRelayInv, PTL DEF Spec

(* "a late joiner converges to the same graph as everyone who was present  *)
(* from the start" (handleSketchSub): for clients that keep to the         *)
(* protocol, a sketch stream of a room was written the room's accepted     *)
(* frames but its own, in order and each once, whenever it joined.         *)
THEOREM LateJoinersConverge ==
  ASSUME WellBehaved
  PROVE  Spec => []SketchConverges
<1>1. ASSUME RelayInv PROVE SketchConverges
  <2> SUFFICES ASSUME NEW c \in Conn, NEW s \in Stream, NEW t \in rooms,
                      SubscribedOn(c, s, t), streams[c][s].isSketch
               PROVE  /\ Range(got[c][s]) = Range(history[t]) \ own[c][s]
                      /\ \A i, j \in DOMAIN got[c][s] : i < j =>
                           /\ Before(history[t], got[c][s][i], got[c][s][j])
                           /\ got[c][s][i] # got[c][s][j]
    BY DEF SketchConverges
  <2>1. Sketching(streams[c][s]) /\ streams[c][s].topic = t
    BY DEF SubscribedOn, Sketching
  <2>2. Follows(got[c][s], history[t], own[c][s])
    BY <1>1, <2>1 DEF RelayInv, Relayed
  <2> QED BY <2>2 DEF Follows
<1> QED BY <1>1, RelayInvariant, PTL
=============================================================================
