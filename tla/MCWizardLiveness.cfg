SPECIFICATION FairSpec
CONSTANTS
  m1 = m1
  m2 = m2
  n = n
  Notices = {n}
  Messages = {m2}
  Identified = {}
  MaxMarkers = 1
  QueueSize = 2
  PerRound = 1
  MaxTime = 1
  MaxControllers = 2
INVARIANT
  DeliveredOnce
PROPERTY
  WonIsPosted
CHECK_DEADLOCK FALSE
