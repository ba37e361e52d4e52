SPECIFICATION FairSpec
CONSTANTS
  p1 = p1
  p2 = p2
  p3 = p3
  c1 = c1
  c2 = c2
  None = None
  Players = {p1, p2, p3}
  Clients = {c1, c2}
  NumMessageHandlers = 2
  MayCall <- OwnPlayers
  ClientRequests <- PrepareRequests
  ReleaseAlone = TRUE
INVARIANTS
  WaitersServed
  TokensAgree
  PrepareOutcomeReachesItsCaller
PROPERTIES
  CallsReturn
