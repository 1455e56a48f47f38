SPECIFICATION FairSpec
CONSTANTS
  operator = operator
  p1 = p1
  p2 = p2
  c1 = c1
  c2 = c2
  w1 = w1
  w2 = w2
  NoRevision = NoRevision
  NoCard = NoCard
  NoProposal = NoProposal
  Users <- MCUsers
  RoleOf <- MCRoleOf
  RequesterOf <- MCRequesterOf
  Revisions <- MCRevisions
  Proposals = {p1}
  OpOf <- Sms
  SourceOf <- FirstCard
  DestOf <- NoCardOf
  Workers = {w1, w2}
  Cards = {c1}
  Unversioned = {}
  Ttl = 1
  MaxTime = 1
  MaxEdits = 1
  MaxRestarts = 1
INVARIANTS
  AmbiguityStaysUnknown
  ExecutingIsHeld
PROPERTIES
  ExecutionEnds
CHECK_DEADLOCK FALSE
