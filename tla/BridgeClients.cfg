SPECIFICATION Spec
CONSTANTS
  Conn = {c1, c2}
  Stream = {s1, s2}
  Topic = {t1, t2}
  Frame <- Frames
  Undecodable = Undecodable
  NoTopic = NoTopic
  Absent = Absent
  MaxRooms = 1
  Verbs <- WellFormed
  OneVerb = TRUE
  OneReceiver = TRUE
SYMMETRY Symmetric
INVARIANTS
  SubscriptionsExact
  DeliveredOnOwnStream
  SketchConverges
