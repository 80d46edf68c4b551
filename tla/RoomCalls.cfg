SPECIFICATION FairSpec
CONSTANTS
  r1 = r1
  r2 = r2
  r3 = r3
  m1 = m1
  m2 = m2
  m3 = m3
  Guest = m1
  First = g1
  g1 = g1
  g2 = g2
  Request = {r1, r2, r3}
  Member = {m1, m2, m3}
  Generation = {g1, g2}
  MaxRoomMembers = 2
  RoomTTL = 1
  PresenceTimeout = 0
  NoRoom = NoRoom
  NoMember = NoMember
  NoGeneration = NoGeneration
  NoCall = NoCall
  Calls <- OneGuestCalls
  MaxAttempts = 2
  MaxClock = 1
CHECK_DEADLOCK FALSE
INVARIANTS
  RemovedStaysOut
  SignalsWereAnnounced
PROPERTIES
  ImplementsAtomicRoom
  EveryCallAnswered
