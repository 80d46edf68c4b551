SPECIFICATION FairSpec
CONSTANTS
  g1 = g1
  g2 = g2
  Member = {g1, g2}
  MaxGeneration = 1
  MaxSession = 1
  MaxLoops = 2
  Controls <- Locking
  Faults = {}
  MaxFaults = 0
  MaxRoomMembers = 8
  RoomTTL = 1
  PresenceTimeout = 0
  NoRoom = NoRoom
  NoMember = NoMember
  NoGeneration = 0
  Generation <- Generations
CHECK_DEADLOCK FALSE
PROPERTIES
  EveryGuestConnects
