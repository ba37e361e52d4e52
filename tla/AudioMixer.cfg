SPECIFICATION FairSpec
CONSTANTS
  p1 = p1
  p2 = p2
  c1 = c1
  None = None
  Pipes = {p1, p2}
  Clients = {c1}
  NumItems = 1
  Arguments <- StartArguments
  PoolMayRunOut = FALSE
  Loopers = {}
  Togglers = {}
INVARIANTS
  FlagsMatchStates
  ReportsExpected
PROPERTIES
  NeverRestarted
  ReleaseCompletes
  StopsAreReported
