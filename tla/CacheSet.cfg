CONSTANTS
  p1 = p1
  p2 = p2
  qa = qa
  qb = qb
  qnone = qnone
  qlong = qlong
  qwide = qwide
  Proc <- OneClient
  Query <- MCQuery
  NoQuery = NoQuery
  Asks <- MCAsks
  Bare <- MCBare
  Fits <- MCFits
  Placeable <- MCPlaceable
  Region = {r1, r2}
  NULL = NULL
  NumReps = 2
SPECIFICATION FairSpec
INVARIANTS TypeOK SafeCode NoLeak
PROPERTIES ImplementsQueryFile CallsReturn
