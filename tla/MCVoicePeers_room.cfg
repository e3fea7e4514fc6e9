SPECIFICATION Spec
CONSTANTS
  a = a
  b = b
  l1 = l1
  l2 = l2
  NoLine = NoLine
  Users <- MCUsers
  Lines <- MCLines
  Reluctant <- MCUsers
  MaxEvents = 2
CHECK_DEADLOCK FALSE
SYMMETRY Alike
INVARIANTS
  TypeOK
  MicrophoneShown
  EverybodyHeard
  SpeakerObeyed
  NoGhosts
PROPERTIES
  ConnectedStay
