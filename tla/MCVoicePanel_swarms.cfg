SPECIFICATION Spec
CONSTANTS
  r1 = r1
  r2 = r2
  Rooms <- MCRooms
  NoRoom = NoRoom
  MaxClicks = 2
  MaxUpsets = 1
INVARIANTS
  OneSwarm
