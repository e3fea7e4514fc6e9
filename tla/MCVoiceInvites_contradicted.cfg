SPECIFICATION Spec
CONSTANTS
  u1 = u1
  u2 = u2
  n1 = n1
  n2 = n2
  p1 = p1
  p2 = p2
  Users <- MCUsers
  Admins <- MCAdmins
  RoomIDs <- MCRooms
  TTL = 1
  MaxRooms = 1
  MaxPerRoom = 2
  Procs <- MCProcs
  Free = Free
  Nodes <- MCTwoNodes
  NodeOf <- MCApart
  InviteTTL = 1
  MaxInvites = 1
  MaxGen = 1
  MaxClock = 0
INVARIANTS
  AnswerRecorded
