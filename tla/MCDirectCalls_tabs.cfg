SPECIFICATION Spec
CONSTANTS
  u1 = u1
  u2 = u2
  t1 = t1
  t2 = t2
  t3 = t3
  Users <- MCUsers
  Tabs <- MCThreeTabs
  UserOf <- MCTwice
  MaxCalls = 2
  MaxUpsets = 1
SYMMETRY Twins
CHECK_DEADLOCK FALSE
INVARIANTS
  WindowFollowsSession
  SourcesOfCurrentCall
  NoOrphanRing
  NoOrphanCall
PROPERTIES
  RingsEndForCause
