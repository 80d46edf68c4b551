SPECIFICATION Spec
CONSTANTS
  r1 = r1
  r2 = r2
  r3 = r3
  r4 = r4
  m1 = m1
  m2 = m2
  m3 = m3
  m4 = m4
  g1 = g1
  Guest = m1
  First = g1
  Request = {r1, r2, r3, r4}
  Member = {m1, m2, m3, m4}
  Generation = {g1}
  MaxRoomMembers = 3
  RoomTTL = 2
  PresenceTimeout = 1
  NoRoom = NoRoom
  NoMember = NoMember
  NoGeneration = NoGeneration
  NoCall = NoCall
  Calls <- SeatCalls
  MaxAttempts = 2
  MaxClock = 0
SYMMETRY Symmetry
CHECK_DEADLOCK FALSE
INVARIANTS
  TypeOK
  SeatsWithinLimit
  LabelsDistinct
  OneSeatPerJoin
  RevisionsDistinct
  ConflictMeansContention
PROPERTIES
  NoSeatWhileLocked
