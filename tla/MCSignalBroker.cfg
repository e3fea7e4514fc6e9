SPECIFICATION FairSpec
CONSTANTS
  s1 = s1
  s2 = s2
  s3 = s3
  a = a
  u = u
  v = v
  x = x
  y = y
  Streams <- MCStreams
  Publishers <- MCOnePublisher
  Users <- MCUsers
  Topics <- MCTopics
  UserOf <- MCUserOf
  TopicOf <- MCTopicOf
  Free = Free
  MaxSubs = 1
  Buffer = 1
  MaxMessages = 2
\* The system may stop; the properties say when it must not.
CHECK_DEADLOCK FALSE
INVARIANTS
  NothingLost
  NoSendOnClosed
  NoLeakedSubscriber
  SlotsAccounted
PROPERTIES
  PublishEnds
