------------------------------ MODULE MCMeasure ------------------------------
(***************************************************************************)
(* Pages of 2 lines; 4 rows of L3 sets in 2 slices, 4 L2 sets.             *)
(***************************************************************************)
EXTENDS Measure, TLC

CONSTANTS c1, c2, p1, p2

SymCpu == Permutations({p1, p2})

MCXor(a, b) == (a + b) % 2
MCHash == 0 :> 0 @@ 1 :> 1

\* The line of c1's target adds to the hash of its page.
MCTarget == c1 :> [level |-> 3, set3 |-> 3, slice |-> 0]
         @@ c2 :> [level |-> 2, set3 |-> 4, slice |-> 1]
MCMissing == c1 :> {"miss"} @@ c2 :> {}
MCNSets == <<64, 1024, 8192>>

P(r, s) == [row |-> r, slice |-> s]
MCAreas == {<<P(3, 0), P(3, 1)>>, <<P(3, 0), P(1, 0)>>, <<P(0, 1), P(1, 1)>>, <<P(3, 0), P(2, 1)>>}
=============================================================================
