SPECIFICATION PlayerSpec
CONSTANTS
  p1 = p1
  p2 = p2
  p3 = p3
  c1 = c1
  c2 = c2
  None = None
  Pipes = {p1, p2, p3}
  Clients = {c1, c2}
  NumItems = 3
  Arguments = {}
  PoolMayRunOut = FALSE
  Loopers = {}
  Togglers = {}
  ClientList <- InOrder
  Scenarios <- AllUses
SYMMETRY PipeSymmetry
INVARIANTS
  SourcesOwned
  SourceToPlay
  HeardAsAsked
  PlaysToItsEnd
