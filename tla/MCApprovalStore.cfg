SPECIFICATION StoreSpec
CONSTANTS
  marco = marco
  trent = trent
  emma = emma
  p1 = p1
  p2 = p2
  r1 = r1
  r2 = r2
  NoRevision = NoRevision
  Users <- MCUsers
  Proposals <- MCProposals
  Revisions <- MCRevisions
  RoleOf <- MCRoleOf
  RequesterOf <- MCRequesterOf
  Ttl = 2
  MaxTime = 3
INVARIANTS
  StoreTypeOK
  ExecutionIsAuthorised
  ReceiptMatchesOutcome
PROPERTY
  LifecycleHolds
CHECK_DEADLOCK FALSE
