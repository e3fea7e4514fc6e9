SPECIFICATION FairSpec
CONSTANTS
  i1 = i1
  i2 = i2
  r1 = r1
  r2 = r2
  t1 = t1
  t2 = t2
  NoInvite = NoInvite
  NoRoom = NoRoom
  NoMenu = NoRoom
  NoTerm = NoTerm
  Invites <- MCInvites
  Rooms <- MCRooms
  Menus <- MCRooms
  FirstRooms <- MCFirstRooms
  Terms <- MCTerms
  MaxCopies = 2
  MaxEvents = 3
INVARIANTS
  TypeOK
  NothingHangs
  AnswersStand
  SearchShown
  DeletedRoomLeft
PROPERTIES
  CardEndsForCause
  DirectorySettles
