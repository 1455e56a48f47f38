SPECIFICATION FairSpec
CONSTANTS
  NRules = 1
  MaxEdits = 0
  MaxFaults = 1
INVARIANTS
  LeftoverIsSaid
  FirewallKeepsItsTools
PROPERTIES
  GuardHolds
  TheirsStay
  CommittedIsComplete
  InstallEnds
CHECK_DEADLOCK FALSE
