SPECIFICATION FairSpec
CONSTANTS
  r1 = r1
  r2 = r2
  Absent = Absent
  Reminders = {r1, r2}
  Limit = 1
  MaxTime = 1
  MaxControllers = 2
INVARIANTS
  SentOnce
  OutcomeIsTrue
PROPERTIES
  PromiseHolds
  DueIsTaken
  DispatchEnds
CHECK_DEADLOCK FALSE
