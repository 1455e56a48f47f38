SPECIFICATION Spec
CONSTANTS
  p1 = p1
  p2 = p2
  p3 = p3
  Procs <- MCProcs
  NRules = 2
  MaxEdits = 1
SYMMETRY Symmetry
INVARIANTS
  SuccessIsTrue
  HollowWasReported
  OneJump
PROPERTIES
  FailureIsCleanOrSaid
CHECK_DEADLOCK FALSE
