SPECIFICATION Spec
CONSTANTS
  g1 = g1
  Member = {g1}
  MaxGeneration = 2
  MaxSession = 3
  MaxLoops = 1
  Controls <- NoControls
  Faults = {"hostPage"}
  MaxFaults = 1
  MaxRoomMembers = 8
  RoomTTL = 1
  PresenceTimeout = 0
  NoRoom = NoRoom
  NoMember = NoMember
  NoGeneration = 0
  Generation <- Generations
CHECK_DEADLOCK FALSE
INVARIANTS
  AnswersMatchOffers
