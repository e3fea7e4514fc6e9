SPECIFICATION Spec
CONSTANTS
  u1 = u1
  u2 = u2
  h1 = h1
  h2 = h2
  Admins <- MCAdmins
  MaxPerRoom = 2
  MaxRooms = 2
  NoUser = NoUser
  Users <- MCUsers
  RoomIDs <- MCOneRoom
  Handlers <- MCOneHandler
  Closers <- MCNobody
  TTL = 1
  SessionTTL = 2
  MaxPerOwner = 2
  MaxParticipants = 2
  MaxIds = 2
  MaxClock = 2
INVARIANTS
  RoomShared
