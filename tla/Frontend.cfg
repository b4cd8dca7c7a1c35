CONSTANTS
  a = a
  b = b
  s1 = s1
  s2 = s2
  L1 = L1
  L3 = L3
  Level = {L1, L3}
  Sets <- MCSets
  Query = {a, b}
  NoQuery = NoQuery
  Line <- MCLine
  Repeat = 1
  Nothing = Nothing
SPECIFICATION Spec
INVARIANTS TypeOK OwnQuery OwnTarget
PROPERTIES EntriesStay CommandsReturn
