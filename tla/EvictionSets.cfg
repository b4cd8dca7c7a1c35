CONSTANTS
  c1 = c1
  c2 = c2
  Client = {c1, c2}
  Arrangements <- MCArrangements
  S1 = 1
  S2 = 2
  Cap1 = 2
  Cap2 = 2
  MaxHeap = 9
SYMMETRY Clients
SPECIFICATION EvictSpec
INVARIANTS SetsWhole FreedOnce
CHECK_DEADLOCK FALSE
