SPECIFICATION Spec
CONSTANTS
  g1 = g1
  Member = {g1}
  MaxGeneration = 2
  MaxSession = 2
  MaxLoops = 2
  Controls <- LockAndRemove
  Faults = {"request", "link", "hostPage", "guestPage", "presence", "signal"}
  MaxFaults = 1
  MaxRoomMembers = 8
  RoomTTL = 1
  PresenceTimeout = 0
  NoRoom = NoRoom
  NoMember = NoMember
  NoGeneration = 0
  Generation <- Generations
CHECK_DEADLOCK FALSE
INVARIANTS
  TypeOK
  GuestAnswersItsGeneration
