SPECIFICATION FairSpec
CONSTANTS
  g1 = g1
  Member = {g1}
  MaxGeneration = 1
  MaxSession = 2
  MaxLoops = 2
  Controls <- Removals
  Faults = {}
  MaxFaults = 0
  MaxRoomMembers = 8
  RoomTTL = 1
  PresenceTimeout = 0
  NoRoom = NoRoom
  NoMember = NoMember
  NoGeneration = 0
  Generation <- Generations
CHECK_DEADLOCK FALSE
PROPERTIES
  OpenRoomKeepsPolling
