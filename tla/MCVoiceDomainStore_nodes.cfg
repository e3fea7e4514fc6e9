SPECIFICATION FairSpec
CONSTANTS
  u1 = u1
  u2 = u2
  n1 = n1
  n2 = n2
  Users <- MCUsers
  Admins <- MCAdmins
  RoomIDs <- MCRoomIDs
  TTL = 2
  MaxRooms = 2
  MaxPerRoom = 1
  Nodes <- MCTwoNodes
  Procs <- MCProcs
  NodeOf <- MCNodeOf
  NoProc = NoProc
  LegacyValues <- MCUpgradeTwice
  Unset = Unset
  MaxAttempts = 2
  MaxClock = 1
  MaxRequests = 2
INVARIANTS
  InOneRoom
  NoGhostPresence
PROPERTIES
  LocalWritesWin
  ImplementsDirectory
  EveryRequestAnswered
