SPECIFICATION Spec
CONSTANTS
  Names <- MCNames
  MaxRuns = 2
  MaxRequests = 3
INVARIANTS
  PublishedWasMatched
  TwinsAppliedLate
CHECK_DEADLOCK FALSE
