SPECIFICATION Spec
CONSTANTS
  p1 = p1
  c1 = c1
  None = None
  Pipes = {p1}
  Clients = {c1}
  NumItems = 1
  Arguments <- AllArguments
  PoolMayRunOut = TRUE
  Loopers = {}
  Togglers = {c1}
INVARIANTS
  ItemsConserved
  ReleasedPipeUnused
