SPECIFICATION Spec
CONSTANTS
  operator = operator
  p1 = p1
  p2 = p2
  c1 = c1
  c2 = c2
  w1 = w1
  w2 = w2
  NoRevision = NoRevision
  NoCard = NoCard
  NoProposal = NoProposal
  Users <- MCUsers
  RoleOf <- MCRoleOf
  RequesterOf <- MCRequesterOf
  Revisions <- MCRevisions
  Proposals = {p1}
  OpOf <- Announcement
  SourceOf <- NoCardOf
  DestOf <- NoCardOf
  Workers = {w1}
  Cards = {c1}
  Unversioned = {}
  Ttl = 1
  MaxTime = 0
  MaxEdits = 0
  MaxRestarts = 0
INVARIANTS
  MalformedAckIsUnknown
CHECK_DEADLOCK FALSE
