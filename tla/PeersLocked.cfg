SPECIFICATION Spec
CONSTANTS
  g1 = g1
  Member = {g1}
  MaxGeneration = 3
  MaxSession = 4
  MaxLoops = 2
  Controls <- Locking
  Faults = {"guestPage"}
  MaxFaults = 1
  MaxRoomMembers = 8
  RoomTTL = 1
  PresenceTimeout = 0
  NoRoom = NoRoom
  NoMember = NoMember
  NoGeneration = 0
  Generation <- Generations
CHECK_DEADLOCK FALSE
INVARIANTS
  NoGuestForgotten
