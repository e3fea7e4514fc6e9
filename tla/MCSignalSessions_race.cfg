SPECIFICATION FairSpec
CONSTANTS
  u1 = u1
  u2 = u2
  h1 = h1
  h2 = h2
  Admins <- MCAdmins
  MaxPerRoom = 2
  MaxRooms = 2
  NoUser = NoUser
  Users <- MCUsers
  RoomIDs <- MCOneRoom
  Handlers <- MCHandlers
  Closers <- MCAdmins
  TTL = 1
  SessionTTL = 1
  MaxPerOwner = 1
  MaxParticipants = 2
  MaxIds = 2
  MaxClock = 1
INVARIANTS
  DirectCallsLimited
  IndexSound
  NoStrangers
PROPERTIES
  HeartbeatsRepair
