------------------------------ MODULE MCCacheSet -----------------------------
EXTENDS CacheSet, TLC

CONSTANTS p1, p2, qa, qb, qnone, qlong, qwide

\* qa has one marked access, its last; qb has 63 and another one behind; qnone has
\* none; qlong does not fit in the code pages; qwide names more blocks than the set has.
MCQuery == {qa, qb, qnone, qlong, qwide}
MCAsks == qa :> 1 @@ qb :> 63 @@ qnone :> 0 @@ qlong :> 1 @@ qwide :> 1
MCBare == {qb, qnone}
MCFits == {qa, qb, qnone, qwide}
MCPlaceable == {qa, qb, qnone, qlong}

\* With two clients a query that works, one that gives up and a text that has none
\* suffice.
SmallQuery == {qa, qwide}
SmallAsks == qa :> 1 @@ qwide :> 1
SmallPlaceable == {qa}

OneClient == {p1}
TwoClients == {p1, p2}
Clients == Permutations(TwoClients)
=============================================================================
