SPECIFICATION Spec
CONSTANTS
  Conn = {c1}
  Stream = {s1, s2, s3}
  Topic = {t1, t2}
  Frame = {}
  Undecodable = Undecodable
  NoTopic = NoTopic
  Absent = Absent
  MaxRooms = 1
  Verbs <- AllVerbs
  OneVerb = FALSE
  OneReceiver = FALSE
SYMMETRY Symmetric
INVARIANTS
  TypeOK
  DeliveryNamesLiveStream
  EntityHasZoneStream
