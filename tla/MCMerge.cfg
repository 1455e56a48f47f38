SPECIFICATION Spec
CONSTANTS
  operator = operator
  p1 = p1
  p2 = p2
  c1 = c1
  c2 = c2
  w1 = w1
  w2 = w2
  NoRevision = NoRevision
  NoCard = NoCard
  NoProposal = NoProposal
  Users <- MCUsers
  RoleOf <- MCRoleOf
  RequesterOf <- MCRequesterOf
  Revisions <- MCRevisions
  Proposals = {p1}
  OpOf <- Merge
  SourceOf <- FirstCard
  DestOf <- SecondCard
  Workers = {w1, w2}
  Cards = {c1, c2}
  Unversioned = {}
  Ttl = 1
  MaxTime = 1
  MaxEdits = 0
  MaxRestarts = 1
INVARIANTS
  AtMostOneRequest
  VerifiedIsTrue
  ArchiveOnlyAfterReadback
  FailedConfirmedNothing
PROPERTIES
  StoreHolds
  PromiseHolds
CHECK_DEADLOCK FALSE
