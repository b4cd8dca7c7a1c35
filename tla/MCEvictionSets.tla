--------------------------- MODULE MCEvictionSets ---------------------------
(***************************************************************************)
(* One set of L1, two of L2, four of L3 in two slices, of which the lists  *)
(* of two are there.  Once the pools serve every list, once those of L1    *)
(* and L2 are poor and one list is there, once a set of L3 got no block.   *)
(***************************************************************************)
EXTENDS EvictionSets, TLC

CONSTANTS c1, c2

Clients == Permutations({c1, c2})

B(i, s, l) == [id |-> i, set3 |-> s, slice |-> l]

Pool1 == <<<<B(11, 0, 0), B(12, 1, 0), B(13, 3, 1)>>>>
Poor1 == <<<<B(11, 0, 0)>>>>
Pool2 == <<<<B(21, 0, 1), B(22, 2, 0), B(23, 0, 0)>>, <<B(24, 3, 0)>>>>
Poor2 == <<<<B(21, 0, 0)>>, <<B(24, 1, 0)>>>>
Pool3 == <<<<B(31, 0, 0), B(32, 0, 0)>>, <<B(33, 3, 1)>>>>
One3 == <<<<B(31, 0, 0), B(32, 0, 0)>>>>
Gap3 == <<<<B(31, 0, 0)>>, <<>>>>

MCArrangements ==
  {[l1 |-> Pool1, l2 |-> Pool2, l3 |-> Pool3],
   [l1 |-> Poor1, l2 |-> Poor2, l3 |-> One3],
   [l1 |-> Pool1, l2 |-> Pool2, l3 |-> Gap3]}
=============================================================================
