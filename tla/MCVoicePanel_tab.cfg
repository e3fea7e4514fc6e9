SPECIFICATION FairSpec
CONSTANTS
  r1 = r1
  r2 = r2
  Rooms <- MCRooms
  NoRoom = NoRoom
  MaxClicks = 2
  MaxUpsets = 2
INVARIANTS
  RoomsAgree
  NothingLateKept
PROPERTIES
  ClicksSettle
  Connected
  PresenceFollowsTab
