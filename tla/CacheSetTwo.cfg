CONSTANTS
  p1 = p1
  p2 = p2
  qa = qa
  qb = qb
  qnone = qnone
  qlong = qlong
  qwide = qwide
  Proc <- TwoClients
  Query <- SmallQuery
  NoQuery = NoQuery
  Asks <- SmallAsks
  Bare = {}
  Fits <- SmallQuery
  Placeable <- SmallPlaceable
  Region = {r1, r2}
  NULL = NULL
  NumReps = 1
SYMMETRY Clients
SPECIFICATION Spec
INVARIANT NoStaleStart
