SPECIFICATION Spec
CONSTANTS
  m1 = m1
  m2 = m2
  n = n
  Notices = {}
  Messages = {m1, m2}
  Identified = {m1, m2}
  MaxMarkers = 1
  QueueSize = 1
  PerRound = 1
  MaxTime = 1
  MaxControllers = 2
INVARIANTS
  DeliveredOnce
  NotSwallowed
CHECK_DEADLOCK FALSE
