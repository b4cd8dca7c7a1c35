----------------------------- MODULE ListsProofs -----------------------------
(***************************************************************************)
(* Proofs about Lists, for any number of blocks and sets: the links stay   *)
(* doubly linked, and the lists do what Decks says; and about the eviction *)
(* sets of their blocks, for any lists and calls: they are freed once, and *)
(* whole when they are used.                                               *)
(*                                                                         *)
(* Walks says what the recursive definition of At computes; that it does,  *)
(* and what follows along a walk, is by induction on the length of the     *)
(* walk, each time over a set of numbers (Upwards).  For the eviction sets *)
(* there is a book of who frees which buffer (Book), and for each list of  *)
(* L3 what its walk and those before it made (Steady, Contents, Sharing).  *)
(***************************************************************************)
EXTENDS Lists, EvictionSets, NaturalsInduction, WellFoundedInduction, FiniteSetTheorems,
        SequenceTheorems, TLAPS

Link == 0..N

\* A set of naturals has a least element.
LEMMA LeastMember ==
  ASSUME NEW T, T \subseteq Nat, T # {}
  PROVE  \E t \in T : \A u \in T : t <= u
<1>1. PICK t \in T : \A u \in T : ~(<<u, t>> \in OpToRel(<, Nat))
  BY NatLessThanWellFounded, WFMin
<1>2. ASSUME NEW u \in T PROVE t <= u
  <2>1. <<u, t>> \notin OpToRel(<, Nat)
    BY <1>1
  <2>2. ~(u < t)
    BY <2>1 DEF OpToRel
  <2> QED BY <2>2
<1> QED BY <1>2

\* What holds of 0 and of each number after those it holds of holds of all.
LEMMA Upwards ==
  ASSUME NEW T, 0 \in T, \A n \in Nat : n \in T => n + 1 \in T
  PROVE  Nat \subseteq T
<1> SUFFICES ASSUME Nat \ T # {} PROVE FALSE
  OBVIOUS
<1>1. PICK t \in Nat \ T : \A u \in Nat \ T : t <= u
  BY LeastMember
<1>2. t # 0 /\ t - 1 \in Nat /\ ~(t <= t - 1) /\ (t - 1) + 1 = t
  BY <1>1
<1>3. t - 1 \in T
  BY <1>1, <1>2
<1> QED
  BY <1>1, <1>2, <1>3

\* The walk along links f from h, as far as n.
Walks(w, h, f, n) ==
  /\ w \in [0..n -> Link] /\ w[0] = h
  /\ \A k \in 1..n : w[k] = IF w[k - 1] = NULL THEN NULL ELSE f[w[k - 1]]

\* There is a walk of every length.
LEMMA WalkExists ==
  ASSUME NEW h \in Link, NEW f \in [Block -> Link]
  PROVE  \A n \in Nat : \E w : Walks(w, h, f, n)
<1> DEFINE T == {n \in Nat : \E w : Walks(w, h, f, n)}
<1>1. 0 \in T
  <2>1. Walks([k \in 0..0 |-> h], h, f, 0)
    BY DEF Walks
  <2> QED
    BY <2>1
<1>2. ASSUME NEW n \in Nat, n \in T
      PROVE  n + 1 \in T
  <2>1. PICK w : Walks(w, h, f, n)
    BY <1>2
  <2> DEFINE v == [k \in 0..(n + 1) |-> IF k <= n THEN w[k] ELSE IF w[n] = NULL THEN NULL ELSE f[w[n]]]
  <2>2. v \in [0..(n + 1) -> Link] /\ v[0] = h
    BY <2>1, ListsAssumption DEF Walks, Link, Block, NULL
  <2>3. ASSUME NEW k \in 1..(n + 1)
        PROVE  v[k] = IF v[k - 1] = NULL THEN NULL ELSE f[v[k - 1]]
    <3>1. v[k - 1] = w[k - 1]
      OBVIOUS
    <3>2. CASE k <= n
      BY <2>1, <3>1, <3>2 DEF Walks
    <3>3. CASE k = n + 1
      BY <3>1, <3>3
    <3> QED
      BY <3>2, <3>3
  <2>4. Walks(v, h, f, n + 1)
    BY <2>2, <2>3, Zenon DEF Walks
  <2> QED
    BY <2>4
<1> HIDE DEF T
<1>3. Nat \subseteq T
  BY <1>1, <1>2, Upwards
<1> QED
  BY <1>3 DEF T

\* A walk is told by where it begins and by the links.
LEMMA WalkUnique ==
  ASSUME NEW h, NEW f, NEW n \in Nat, NEW v, NEW w, Walks(v, h, f, n), Walks(w, h, f, n)
  PROVE  v = w
<1> DEFINE T == {k \in Nat : k <= n => v[k] = w[k]}
<1>1. 0 \in T
  BY DEF Walks
<1>2. ASSUME NEW k \in Nat, k \in T
      PROVE  k + 1 \in T
  <2>1. CASE k + 1 <= n
    <3>1. v[k] = w[k] /\ k + 1 \in 1..n /\ (k + 1) - 1 = k
      BY <1>2, <2>1
    <3>2. v[k + 1] = w[k + 1]
      BY <3>1 DEF Walks
    <3> QED
      BY <3>2
  <2> QED
    BY <2>1
<1> HIDE DEF T
<1>3. Nat \subseteq T
  BY <1>1, <1>2, Upwards
<1>4. \A k \in 0..n : v[k] = w[k]
  BY <1>3 DEF T
<1> QED
  BY <1>4 DEF Walks

\* The function that the recursive definition of At chooses is the walk.
Chosen(h, f) ==
  CHOOSE walk : walk = [k \in 0..N |-> IF k = 0 THEN h ELSE IF walk[k-1] = NULL THEN NULL ELSE f[walk[k-1]]]

\* It is the walk.
LEMMA ChosenWalk ==
  ASSUME NEW h \in Link, NEW f \in [Block -> Link], NEW v, v = Chosen(h, f)
  PROVE  Walks(v, h, f, N)
<1>1. PICK w : Walks(w, h, f, N)
  BY WalkExists, ListsAssumption
<1>2. w = [k \in 0..N |-> IF k = 0 THEN h ELSE IF w[k-1] = NULL THEN NULL ELSE f[w[k-1]]]
  BY <1>1, ListsAssumption DEF Walks
<1>3. v = [k \in 0..N |-> IF k = 0 THEN h ELSE IF v[k-1] = NULL THEN NULL ELSE f[v[k-1]]]
  <2> DEFINE R(x) == [k \in 0..N |-> IF k = 0 THEN h ELSE IF x[k-1] = NULL THEN NULL ELSE f[x[k-1]]]
  <2>1. w = R(w)
    BY <1>2, Zenon
  <2>2. v = CHOOSE x : x = R(x)
    BY Zenon DEF Chosen
  <2> HIDE DEF R
  <2>3. v = R(v)
    BY <2>1, <2>2, Zenon
  <2> QED
    BY <2>3, Zenon DEF R
<1> DEFINE T == {k \in Nat : k <= N => v[k] = w[k]}
<1>4. 0 \in T
  BY <1>2, <1>3, ListsAssumption
<1>5. ASSUME NEW k \in Nat, k \in T
      PROVE  k + 1 \in T
  <2>1. CASE k + 1 <= N
    <3>1. v[k] = w[k] /\ k + 1 \in 0..N /\ (k + 1) - 1 = k /\ k + 1 # 0
      BY <1>5, <2>1, ListsAssumption
    <3>2. v[k + 1] = IF v[k] = NULL THEN NULL ELSE f[v[k]]
      BY <1>3, <3>1
    <3>3. w[k + 1] = IF w[k] = NULL THEN NULL ELSE f[w[k]]
      BY <1>2, <3>1
    <3> QED
      BY <3>1, <3>2, <3>3
  <2> QED
    BY <2>1
<1> HIDE DEF T
<1>6. Nat \subseteq T
  BY <1>4, <1>5, Upwards
<1>7. \A k \in 0..N : v[k] = w[k]
  BY <1>6, ListsAssumption DEF T
<1>8. v = w
  BY <1>2, <1>3, <1>7
<1> QED
  BY <1>1, <1>8

\* So a list is the walk from its head along next, before a step and after it.
LEMMA AtWalks ==
  ASSUME NEW s \in Index, head[s] \in Link, next \in [Block -> Link]
  PROVE  Walks(At(s), head[s], next, N)
<1>1. At(s) = Chosen(head[s], next)
  BY DEF At, Chosen
<1> QED
  BY <1>1, ChosenWalk, Zenon

LEMMA AtWalksNext ==
  ASSUME NEW s \in Index, head'[s] \in Link, next' \in [Block -> Link]
  PROVE  Walks(At(s)', head'[s], next', N)
<1>1. At(s)' = Chosen(head'[s], next')
  BY DEF At, Chosen
<1> QED
  BY <1>1, ChosenWalk, Zenon

-----------------------------------------------------------------------------
\* Links of which g is the inverse of f, from a head to which nothing points.
Doubly(f, g) ==
  /\ f \in [Block -> Link] /\ g \in [Block -> Link]
  /\ \A b \in Block : f[b] # NULL => g[f[b]] = b
  /\ \A b \in Block : g[b] # NULL => f[g[b]] = b

\* Such a walk ends where it first meets NULL, and meets no block twice.
LEMMA WalkEnds ==
  ASSUME NEW h, NEW f, NEW w, Walks(w, h, f, N), NEW k \in 0..N, w[k] # NULL
  PROVE  \A j \in 0..k : w[j] # NULL
<1> DEFINE T == {n \in Nat : n <= k => w[k - n] # NULL}
<1>0. N \in Nat
  BY ListsAssumption
<1>1. 0 \in T
  BY <1>0
<1>2. ASSUME NEW n \in Nat, n \in T
      PROVE  n + 1 \in T
  <2>1. CASE n + 1 <= k
    <3>1. w[k - n] # NULL
      BY <1>2, <2>1
    <3>2. k - n \in 1..N /\ (k - n) - 1 = k - (n + 1)
      BY <1>0, <2>1
    <3> QED
      BY <3>1, <3>2 DEF Walks
  <2> QED
    BY <2>1
<1> HIDE DEF T
<1>3. Nat \subseteq T
  BY <1>1, <1>2, Upwards
<1>4. ASSUME NEW j \in 0..k PROVE w[j] # NULL
  <2>1. k - j \in T /\ k - j <= k /\ k - (k - j) = j
    BY <1>0, <1>3
  <2> QED
    BY <2>1 DEF T
<1> QED
  BY <1>4

\* It meets no block twice: going back along prev leads to the head either way.
LEMMA WalkApart ==
  ASSUME NEW h \in Link, NEW f, NEW g, Doubly(f, g), h # NULL => g[h] = NULL,
         NEW w, Walks(w, h, f, N)
  PROVE  \A j \in 0..N : \A k \in (j + 1)..N : w[k] # NULL => w[j] # w[k]
<1> DEFINE T == {j \in Nat : \A k \in (j + 1)..N : w[k] # NULL => w[j] # w[k]}
<1>0. N \in Nat /\ w \in [0..N -> Link]
  BY ListsAssumption DEF Walks
<1>1. ASSUME NEW k \in 1..N, w[k] # NULL
      PROVE  w[k - 1] # NULL /\ w[k] \in Block /\ w[k - 1] \in Block /\ g[w[k]] = w[k - 1]
  <2>1. w[k - 1] # NULL /\ w[k] = f[w[k - 1]]
    BY <1>1 DEF Walks
  <2>2. w[k] \in Block /\ w[k - 1] \in Block
    <3>1. k \in 0..N /\ k - 1 \in 0..N
      BY <1>0
    <3>2. w[k] \in 0..N /\ w[k - 1] \in 0..N
      BY <1>0, <3>1 DEF Link
    <3>3. \A x \in 0..N : x # 0 => x \in 1..N
      BY <1>0
    <3> QED
      BY <1>1, <2>1, <3>2, <3>3, Zenon DEF Block, NULL
  <2> QED
    BY <1>1, <2>1, <2>2 DEF Doubly
<1>2. 0 \in T
  <2>1. ASSUME NEW k \in 1..N, w[k] # NULL
        PROVE  w[0] # w[k]
    BY <1>1, <2>1 DEF Walks
  <2> QED
    BY <2>1
<1>3. ASSUME NEW j \in Nat, j \in T
      PROVE  j + 1 \in T
  <2>1. ASSUME NEW k \in (j + 2)..N, w[k] # NULL
        PROVE  w[j + 1] # w[k]
    <3>1. k \in 1..N /\ j + 1 \in 1..N /\ (j + 1) - 1 = j /\ k - 1 \in (j + 1)..N
      BY <1>0
    <3>2. w[k - 1] # NULL /\ g[w[k]] = w[k - 1]
      BY <1>1, <2>1, <3>1
    <3>3. w[j] # w[k - 1]
      BY <1>3, <3>1, <3>2
    <3>4. w[j + 1] # NULL => g[w[j + 1]] = w[j]
      BY <1>1, <3>1
    <3> QED
      BY <2>1, <3>2, <3>3, <3>4
  <2> QED
    BY <2>1
<1> HIDE DEF T
<1>4. Nat \subseteq T
  BY <1>2, <1>3, Upwards
<1> QED
  BY <1>4 DEF T

\* A walk of N steps over N blocks has come to its end; how far it gets.
LEMMA WalkLength ==
  ASSUME NEW h \in Link, NEW f, NEW g, Doubly(f, g), h # NULL => g[h] = NULL,
         NEW w, Walks(w, h, f, N)
  PROVE  /\ Cardinality({k \in 0..N : w[k] # NULL}) \in 0..N
         /\ \A k \in 0..N : w[k] # NULL <=> k < Cardinality({j \in 0..N : w[j] # NULL})
<1>0. N \in Nat /\ w \in [0..N -> Link]
  BY ListsAssumption DEF Walks
<1>1. w[N] = NULL
  <2> SUFFICES ASSUME w[N] # NULL PROVE FALSE
    OBVIOUS
  <2>1. \A k \in 0..N : w[k] # NULL
    BY <1>0, WalkEnds
  <2>2. w \in [0..N -> 1..N]
    BY <1>0, <2>1 DEF Link, NULL
  <2>3. \A j, k \in 0..N : j # k => w[j] # w[k]
    <3>1. \A j \in 0..N : \A k \in (j + 1)..N : w[j] # w[k]
      BY <2>1, <1>0, WalkApart
    <3>2. \A j, k \in 0..N : j # k => k \in (j + 1)..N \/ j \in (k + 1)..N
      BY <1>0
    <3> QED
      BY <3>1, <3>2
  <2>4. IsFiniteSet(0..N) /\ IsFiniteSet(1..N) /\ Cardinality(0..N) = N + 1 /\ Cardinality(1..N) = N
    BY <1>0, FS_Interval
  <2>5. Cardinality(1..N) < Cardinality(0..N)
    BY <1>0, <2>4
  <2>6. \E j, k \in 0..N : j # k /\ w[j] = w[k]
    <3>1. PICK A, B : A = 0..N /\ B = 1..N
      OBVIOUS
    <3>2. IsFiniteSet(A) /\ IsFiniteSet(B) /\ Cardinality(B) < Cardinality(A) /\ w \in [A -> B]
      BY <2>2, <2>4, <2>5, <3>1
    <3>3. \E j, k \in A : j # k /\ w[j] = w[k]
      BY <3>2, FS_PigeonHole, SMT
    <3> QED
      BY <3>1, <3>3
  <2> QED
    BY <2>3, <2>6
<1> DEFINE E == {k \in 0..N : w[k] = NULL}
<1>2. PICK m \in E : \A k \in E : m <= k
  <2>1. E \subseteq Nat /\ E # {}
    BY <1>0, <1>1
  <2> HIDE DEF E
  <2> QED
    BY <2>1, LeastMember
<1>3. \A k \in 0..N : w[k] # NULL <=> k < m
  <2>1. ASSUME NEW k \in 0..N, w[k] # NULL PROVE k < m
    <3>1. ~(m \in 0..k)
      BY <1>2, <2>1, WalkEnds
    <3> QED
      BY <3>1, <1>0, <1>2
  <2>2. ASSUME NEW k \in 0..N, k < m PROVE w[k] # NULL
    BY <1>0, <1>2, <2>2
  <2> QED
    BY <2>1, <2>2
<1>4. {k \in 0..N : w[k] # NULL} = 0..(m - 1)
  BY <1>0, <1>2, <1>3
<1>5. Cardinality(0..(m - 1)) = m
  BY <1>0, <1>2, FS_Interval
<1> QED
  BY <1>0, <1>2, <1>3, <1>4, <1>5

-----------------------------------------------------------------------------
\* Two blocks in each other's place, and the links as they are then.
Flip(a, b, x) == IF x = a THEN b ELSE IF x = b THEN a ELSE x

Links == [Block -> Link]

\* A write to a neighbour, if there is one.
WrittenTo(p, x, v) == [y \in Block |-> IF y = x THEN v ELSE p[y]]

\* It leaves links, and changes one.
LEMMA WrittenLinks ==
  ASSUME NEW p \in Links, NEW x \in Link, NEW v \in Block
  PROVE  /\ WrittenTo(p, x, v) \in Links
         /\ \A y \in Block : WrittenTo(p, x, v)[y] = IF y = x THEN v ELSE p[y]
BY ListsAssumption DEF Block, Link, WrittenTo, Links

\* It is what SetPrev and SetNext do.
LEMMA PrevWritten ==
  ASSUME NEW n \in Links, NEW p \in Links, NEW x \in Link, NEW v \in Block,
         NEW q, q = WrittenTo(p, x, v)
  PROVE  SetPrev([next |-> n, prev |-> p], x, v) = [next |-> n, prev |-> q]
<1>1. CASE x = NULL
  <2>1. q = p
    BY <1>1, ListsAssumption DEF WrittenTo, Links, Block, NULL
  <2> QED
    BY <1>1, <2>1 DEF SetPrev
<1>2. CASE x # NULL
  <2>1. q = [p EXCEPT ![x] = v]
    BY DEF WrittenTo, Links
  <2> QED
    BY <1>2, <2>1 DEF SetPrev
<1> QED
  BY <1>1, <1>2

LEMMA NextWritten ==
  ASSUME NEW n \in Links, NEW p \in Links, NEW x \in Link, NEW v \in Block,
         NEW q, q = WrittenTo(n, x, v)
  PROVE  SetNext([next |-> n, prev |-> p], x, v) = [next |-> q, prev |-> p]
<1>1. CASE x = NULL
  <2>1. q = n
    BY <1>1, ListsAssumption DEF WrittenTo, Links, Block, NULL
  <2> QED
    BY <1>1, <2>1 DEF SetNext
<1>2. CASE x # NULL
  <2>1. q = [n EXCEPT ![x] = v]
    BY DEF WrittenTo, Links
  <2> QED
    BY <1>2, <2>1 DEF SetNext
<1> QED
  BY <1>1, <1>2

\* The links of two blocks that are apart: no neighbour of one is the other, one of
\* its own neighbours or itself.
Separate(f, g, a, b) ==
  /\ a \in Block /\ b \in Block /\ a # b
  /\ g[a] \in Block /\ g[b] \in Block /\ f[a] \in Block
  /\ {g[a], g[b], f[a], f[b]} \cap {a, b} = {}
  /\ g[a] # g[b] /\ f[a] # g[b] /\ g[a] # f[b] /\ f[a] # f[b]

\* The four writes to the neighbours: the links after each of them.
Writes(f, g, a, b, n, o, p, q) ==
  /\ SetPrev([next |-> f, prev |-> g], f[a], b) = [next |-> f, prev |-> p]
  /\ SetNext([next |-> f, prev |-> p], g[a], b) = [next |-> n, prev |-> p]
  /\ SetPrev([next |-> n, prev |-> p], f[b], a) = [next |-> n, prev |-> q]
  /\ SetNext([next |-> n, prev |-> q], g[b], a) = [next |-> o, prev |-> q]
  /\ \A y \in Block : p[y] = IF y = f[a] THEN b ELSE g[y]
  /\ \A y \in Block : n[y] = IF y = g[a] THEN b ELSE f[y]
  /\ \A y \in Block : q[y] = IF y = f[b] THEN a ELSE p[y]
  /\ \A y \in Block : o[y] = IF y = g[b] THEN a ELSE n[y]

\* There are such links.
LEMMA FourWrites ==
  ASSUME NEW f \in Links, NEW g \in Links, NEW a \in Block, NEW b \in Block,
         f[a] \in Link, f[b] \in Link, g[a] \in Link, g[b] \in Link
  PROVE  \E n, o, p, q \in Links : Writes(f, g, a, b, n, o, p, q)
<1>1. PICK p : p = WrittenTo(g, f[a], b)
  OBVIOUS
<1>2. PICK n : n = WrittenTo(f, g[a], b)
  OBVIOUS
<1>3. PICK q : q = WrittenTo(p, f[b], a)
  OBVIOUS
<1>4. PICK o : o = WrittenTo(n, g[b], a)
  OBVIOUS
<1>5. p \in Links /\ n \in Links
  BY <1>1, <1>2, WrittenLinks, Zenon
<1>6. q \in Links /\ o \in Links
  BY <1>3, <1>4, <1>5, WrittenLinks, Zenon
<1>7. SetPrev([next |-> f, prev |-> g], f[a], b) = [next |-> f, prev |-> p]
  BY <1>1, PrevWritten, SMT
<1>8. SetNext([next |-> f, prev |-> p], g[a], b) = [next |-> n, prev |-> p]
  BY <1>2, <1>5, NextWritten, SMT
<1>9. SetPrev([next |-> n, prev |-> p], f[b], a) = [next |-> n, prev |-> q]
  BY <1>3, <1>5, PrevWritten, SMT
<1>10. SetNext([next |-> n, prev |-> q], g[b], a) = [next |-> o, prev |-> q]
  BY <1>4, <1>5, <1>6, NextWritten, SMT
<1>11. \A y \in Block : p[y] = IF y = f[a] THEN b ELSE g[y]
  BY <1>1, Zenon DEF WrittenTo
<1>12. \A y \in Block : n[y] = IF y = g[a] THEN b ELSE f[y]
  BY <1>2, Zenon DEF WrittenTo
<1>13. \A y \in Block : q[y] = IF y = f[b] THEN a ELSE p[y]
  BY <1>3, Zenon DEF WrittenTo
<1>14. \A y \in Block : o[y] = IF y = g[b] THEN a ELSE n[y]
  BY <1>4, Zenon DEF WrittenTo
<1>15. Writes(f, g, a, b, n, o, p, q)
  BY <1>7, <1>8, <1>9, <1>10, <1>11, <1>12, <1>13, <1>14, Zenon DEF Writes
<1> QED
  BY <1>5, <1>6, <1>15, Zenon

\* The exchange of the links after them.
LEMMA SwappedLinks ==
  ASSUME NEW f \in Links, NEW g \in Links, NEW a, NEW b, Separate(f, g, a, b),
         NEW m, m = Swapped([next |-> f, prev |-> g], a, b)
  PROVE  /\ m.next \in Links /\ m.prev \in Links
         /\ \A x \in Block :
              /\ m.next[x] = IF x = a THEN f[b] ELSE IF x = b THEN f[a]
                   ELSE IF x = g[a] THEN b ELSE IF x = g[b] THEN a ELSE f[x]
              /\ m.prev[x] = IF x = a THEN g[b] ELSE IF x = b THEN g[a]
                   ELSE IF x = f[a] THEN b ELSE IF x = f[b] THEN a ELSE g[x]
<1>0. a \in Block /\ b \in Block /\ a # b
  BY DEF Separate
<1>1. f[a] \in Link /\ f[b] \in Link /\ g[a] \in Link /\ g[b] \in Link
  BY <1>0 DEF Links
<1>2. /\ f[a] # a /\ f[a] # b /\ f[b] # a /\ f[b] # b
      /\ g[a] # a /\ g[a] # b /\ g[b] # a /\ g[b] # b
      /\ g[a] # g[b] /\ f[a] # f[b]
  BY DEF Separate
<1>3. PICK n, o, p, q \in Links : Writes(f, g, a, b, n, o, p, q)
  BY <1>0, <1>1, FourWrites, Zenon
<1>4. p[a] = g[a] /\ n[b] = f[b] /\ q[b] = g[b]
  BY <1>0, <1>2, <1>3 DEF Writes
<1> DEFINE m1 == SetPrev([next |-> f, prev |-> g], f[a], b)
           m2 == SetNext(m1, m1.prev[a], b)
           m3 == SetPrev(m2, m2.next[b], a)
           m4 == SetNext(m3, m3.prev[b], a)
<1>5. m = [next |-> [m4.next EXCEPT ![a] = m4.next[b], ![b] = m4.next[a]],
           prev |-> [m4.prev EXCEPT ![a] = m4.prev[b], ![b] = m4.prev[a]]]
  BY Zenon DEF Swapped
<1>6. m4 = [next |-> o, prev |-> q]
  <2>1. m1 = [next |-> f, prev |-> p]
    BY <1>3, Zenon DEF Writes
  <2> HIDE DEF m1
  <2>2. m1.prev[a] = g[a]
    BY <1>4, <2>1
  <2>3. m2 = [next |-> n, prev |-> p]
    BY <1>3, <2>1, <2>2, Zenon DEF Writes
  <2> HIDE DEF m2
  <2>4. m2.next[b] = f[b]
    BY <1>4, <2>3
  <2>5. m3 = [next |-> n, prev |-> q]
    BY <1>3, <2>3, <2>4, Zenon DEF Writes
  <2> HIDE DEF m3
  <2>6. m3.prev[b] = g[b]
    BY <1>4, <2>5
  <2> QED
    BY <1>3, <2>5, <2>6, Zenon DEF Writes
<1> HIDE DEF m1, m2, m3, m4
<1>7. PICK e, d : e = [o EXCEPT ![a] = o[b], ![b] = o[a]] /\ d = [q EXCEPT ![a] = q[b], ![b] = q[a]]
  OBVIOUS
<1>8. m = [next |-> e, prev |-> d]
  <2>1. m4.next = o /\ m4.prev = q
    BY <1>6
  <2> QED
    BY <1>5, <1>7, <2>1, Zenon
<1>9. o[a] = f[a] /\ o[b] = f[b] /\ q[a] = g[a] /\ q[b] = g[b]
  BY <1>0, <1>2, <1>3 DEF Writes
<1>10. \A x \in Block : /\ o[x] = IF x = g[b] THEN a ELSE IF x = g[a] THEN b ELSE f[x]
                        /\ q[x] = IF x = f[b] THEN a ELSE IF x = f[a] THEN b ELSE g[x]
  BY <1>3 DEF Writes
<1>11. e \in Links /\ d \in Links
  BY <1>1, <1>7, <1>9 DEF Links
<1>12. \A x \in Block : /\ e[x] = IF x = b THEN f[a] ELSE IF x = a THEN f[b] ELSE o[x]
                        /\ d[x] = IF x = b THEN g[a] ELSE IF x = a THEN g[b] ELSE q[x]
  BY <1>7, <1>9 DEF Links
<1>13. m.next = e /\ m.prev = d
  BY <1>8
<1> QED
  BY <1>0, <1>2, <1>10, <1>11, <1>12, <1>13

\* Following a link then is following it before, between blocks in each other's place.
Renamed(f, m, a, b) == \A x \in Block : m[Flip(a, b, x)] = Flip(a, b, f[x])

LEMMA Conjugated ==
  ASSUME NEW f, NEW g, Doubly(f, g),
         NEW a, NEW b, Separate(f, g, a, b),
         NEW m, m = Swapped([next |-> f, prev |-> g], a, b)
  PROVE  /\ Doubly(m.next, m.prev)
         /\ Renamed(f, m.next, a, b) /\ Renamed(g, m.prev, a, b)
<1>0. \A x \in Block : x # NULL /\ x \in Link
  BY ListsAssumption DEF Block, NULL, Link
<1>1. f \in Links /\ g \in Links
  BY DEF Doubly, Links
<1>2. /\ m.next \in Links /\ m.prev \in Links
      /\ \A x \in Block :
              /\ m.next[x] = IF x = a THEN f[b] ELSE IF x = b THEN f[a]
                   ELSE IF x = g[a] THEN b ELSE IF x = g[b] THEN a ELSE f[x]
              /\ m.prev[x] = IF x = a THEN g[b] ELSE IF x = b THEN g[a]
                   ELSE IF x = f[a] THEN b ELSE IF x = f[b] THEN a ELSE g[x]
  BY <1>1, SwappedLinks, SMT
<1>3. /\ a \in Block /\ b \in Block /\ a # b
      /\ g[a] \in Block /\ g[b] \in Block /\ f[a] \in Block
      /\ f[a] # a /\ f[a] # b /\ f[b] # a /\ f[b] # b
      /\ g[a] # a /\ g[a] # b /\ g[b] # a /\ g[b] # b
      /\ g[a] # g[b] /\ f[a] # f[b]
  BY DEF Separate
<1>4. \A x \in Block : (f[x] = a => x = g[a]) /\ (f[x] = b => x = g[b]) /\ (g[x] = a => x = f[a])
                       /\ (g[x] = b => x = f[b])
  BY <1>0, <1>3 DEF Doubly
<1>5. f[g[a]] = a /\ f[g[b]] = b /\ g[f[a]] = a /\ (f[b] # NULL => g[f[b]] = b)
  BY <1>0, <1>3 DEF Doubly
<1>6. ASSUME NEW x \in Block
      PROVE  m.next[Flip(a, b, x)] = Flip(a, b, f[x])
  BY <1>2, <1>3, <1>4, <1>5 DEF Flip
<1>7. ASSUME NEW x \in Block
      PROVE  m.prev[Flip(a, b, x)] = Flip(a, b, g[x])
  <2>1. f[b] \in Block => g[f[b]] = b
    BY <1>0, <1>5
  <2> QED
    BY <1>2, <1>3, <1>4, <1>5, <2>1 DEF Flip
<1>8. \A x : Flip(a, b, Flip(a, b, x)) = x
  BY DEF Flip
<1>9. \A x : (x \in Block <=> Flip(a, b, x) \in Block) /\ (x # NULL <=> Flip(a, b, x) # NULL)
  BY <1>0, <1>3 DEF Flip
<1>10. ASSUME NEW y \in Block, m.next[y] # NULL
       PROVE  m.prev[m.next[y]] = y
  <2>1. PICK x \in Block : y = Flip(a, b, x)
    BY <1>8, <1>9
  <2>2. m.next[y] = Flip(a, b, f[x]) /\ f[x] # NULL
    BY <1>6, <1>9, <1>10, <2>1
  <2>3. f[x] \in Block /\ g[f[x]] = x
    BY <1>1, <2>2 DEF Doubly, Links, Link, Block, NULL
  <2> QED
    BY <1>7, <2>1, <2>2, <2>3
<1>11. ASSUME NEW y \in Block, m.prev[y] # NULL
       PROVE  m.next[m.prev[y]] = y
  <2>1. PICK x \in Block : y = Flip(a, b, x)
    BY <1>8, <1>9
  <2>2. m.prev[y] = Flip(a, b, g[x]) /\ g[x] # NULL
    BY <1>7, <1>9, <1>11, <2>1
  <2>3. g[x] \in Block /\ f[g[x]] = x
    BY <1>1, <2>2 DEF Doubly, Links, Link, Block, NULL
  <2> QED
    BY <1>6, <2>1, <2>2, <2>3
<1> QED
  BY <1>2, <1>6, <1>7, <1>10, <1>11 DEF Doubly, Links, Renamed

\* A walk then goes through the blocks in each other's place.
LEMMA WalkFlipped ==
  ASSUME NEW f, NEW m, NEW a \in Block, NEW b \in Block, NEW h \in Link, h # a, h # b,
         f \in [Block -> Link], m \in [Block -> Link],
         Renamed(f, m, a, b),
         NEW w, Walks(w, h, f, N)
  PROVE  Walks([k \in 0..N |-> Flip(a, b, w[k])], h, m, N)
<1> DEFINE v == [k \in 0..N |-> Flip(a, b, w[k])]
<1>0. N \in Nat /\ w \in [0..N -> Link] /\ w[0] = h
  BY ListsAssumption DEF Walks
<1>1. \A x \in Link : Flip(a, b, x) \in Link /\ (x = NULL <=> Flip(a, b, x) = NULL)
  <2>1. a \in Link /\ b \in Link /\ a # NULL /\ b # NULL
    BY <1>0 DEF Link, Block, NULL
  <2> QED
    BY <2>1 DEF Flip
<1>2. v \in [0..N -> Link] /\ v[0] = h
  BY <1>0, <1>1 DEF Flip
<1>3. ASSUME NEW k \in 1..N
      PROVE  v[k] = IF v[k - 1] = NULL THEN NULL ELSE m[v[k - 1]]
  <2>1. k \in 0..N /\ k - 1 \in 0..N /\ w[k - 1] \in Link
    BY <1>0
  <2>2. v[k] = Flip(a, b, w[k]) /\ v[k - 1] = Flip(a, b, w[k - 1])
    BY <2>1
  <2>3. w[k] = IF w[k - 1] = NULL THEN NULL ELSE f[w[k - 1]]
    BY Zenon DEF Walks
  <2>4. CASE w[k - 1] = NULL
    <3>1. w[k] = NULL /\ v[k - 1] = NULL /\ v[k] = NULL
      BY <1>1, <2>1, <2>2, <2>3, <2>4
    <3> QED
      BY <3>1
  <2>5. CASE w[k - 1] # NULL
    <3>1. w[k - 1] \in Block
      BY <1>0, <2>1, <2>5 DEF Link, Block, NULL
    <3>2. v[k - 1] # NULL /\ m[v[k - 1]] = v[k]
      BY <1>1, <2>1, <2>2, <2>3, <2>5, <3>1 DEF Renamed
    <3> QED
      BY <3>2
  <2> QED
    BY <2>4, <2>5
<1> QED
  BY <1>2, <1>3, Zenon DEF Walks

-----------------------------------------------------------------------------
\* A link is a block unless it is NULL.
LEMMA LinkOrBlock ==
  /\ NULL \in Link /\ \A x \in Link : x # NULL <=> x \in Block
  /\ \A x \in Block : x # NULL /\ x \in Link
BY ListsAssumption DEF Link, Block, NULL

\* What holds of a list in every state.

\* The next block of each set, and where the code is.
LType ==
  /\ pc \in {"fill", "shuffle", "done"}
  /\ setOf \in [Block -> Index] /\ at \in 1..(N + 1) /\ list \in Index /\ i \in Int
  /\ head \in [Index -> Link]

\* One link is the inverse of the other, and nothing comes before a head.
Tied ==
  /\ Doubly(next, prev)
  /\ \A s \in Index : head[s] # NULL => prev[head[s]] = NULL

\* The blocks of a list are in its set.
Sorted ==
  /\ \A b \in Block : next[b] # NULL => setOf[next[b]] = setOf[b]
  /\ \A s \in Index : head[s] # NULL => setOf[head[s]] = s

\* The blocks still in the pool have no links, and none lead to them.
Fresh ==
  pc = "fill" => /\ \A b \in Block : b >= at => next[b] = NULL /\ prev[b] = NULL
                 /\ \A b \in Block : next[b] < at /\ prev[b] < at
                 /\ \A s \in Index : head[s] < at

\* The block to exchange is one of the list.
Turn == pc = "shuffle" => i < Length(list)

LInv == LType /\ Tied /\ Sorted /\ Fresh /\ Turn

-----------------------------------------------------------------------------
\* A list as a walk: how long it is, and that no block is in it twice.
LEMMA ListIsWalk ==
  ASSUME LType, Tied, NEW s \in Index
  PROVE  /\ Walks(At(s), head[s], next, N)
         /\ Length(s) \in 0..N
         /\ \A k \in 0..N : At(s)[k] # NULL <=> k < Length(s)
         /\ \A j \in 0..N : \A k \in (j + 1)..N : At(s)[k] # NULL => At(s)[j] # At(s)[k]
<1>1. head[s] \in Link /\ next \in [Block -> Link]
  BY DEF LType, Tied, Doubly
<1>2. Walks(At(s), head[s], next, N)
  BY <1>1, AtWalks, Zenon
<1>3. PICK w : w = At(s)
  OBVIOUS
<1>4. Doubly(next, prev) /\ (head[s] # NULL => prev[head[s]] = NULL) /\ Walks(w, head[s], next, N)
  BY <1>2, <1>3, Zenon DEF Tied
<1>5. /\ Cardinality({k \in 0..N : w[k] # NULL}) \in 0..N
      /\ \A k \in 0..N : w[k] # NULL <=> k < Cardinality({j \in 0..N : w[j] # NULL})
  BY <1>1, <1>4, WalkLength, Zenon
<1>6. \A j \in 0..N : \A k \in (j + 1)..N : w[k] # NULL => w[j] # w[k]
  BY <1>1, <1>4, WalkApart, SMT
<1>7. Length(s) = Cardinality({k \in 0..N : w[k] # NULL})
  BY <1>3, Zenon DEF Length
<1> QED
  BY <1>2, <1>3, <1>5, <1>6, <1>7, Zenon

\* The same after a step.
LEMMA ListIsWalkNext ==
  ASSUME LType', Tied', NEW s \in Index
  PROVE  /\ Walks(At(s)', head'[s], next', N)
         /\ Length(s)' \in 0..N
         /\ \A k \in 0..N : At(s)'[k] # NULL <=> k < Length(s)'
<1>1. head'[s] \in Link /\ next' \in [Block -> Link]
  BY DEF LType, Tied, Doubly
<1>2. Walks(At(s)', head'[s], next', N)
  BY <1>1, AtWalksNext, Zenon
<1>3. PICK w : w = At(s)'
  OBVIOUS
<1>4. Doubly(next', prev') /\ (head'[s] # NULL => prev'[head'[s]] = NULL) /\ Walks(w, head'[s], next', N)
  BY <1>2, <1>3, Zenon DEF Tied
<1>5. /\ Cardinality({k \in 0..N : w[k] # NULL}) \in 0..N
      /\ \A k \in 0..N : w[k] # NULL <=> k < Cardinality({j \in 0..N : w[j] # NULL})
  BY <1>1, <1>4, WalkLength, Zenon
<1>6. Length(s)' = Cardinality({k \in 0..N : w[k] # NULL})
  BY <1>3, Zenon DEF Length
<1> QED
  BY <1>2, <1>3, <1>5, <1>6, Zenon

\* The blocks of a walk are all in the set of its head.
Uniform(h, f, c, s) ==
  /\ h # NULL => c[h] = s
  /\ \A b \in Block : f[b] # NULL => c[f[b]] = c[b]

LEMMA WalkInSet ==
  ASSUME NEW h \in Link, NEW f \in [Block -> Link], NEW c, NEW s, Uniform(h, f, c, s),
         NEW w, Walks(w, h, f, N)
  PROVE  \A k \in 0..N : w[k] # NULL => c[w[k]] = s
<1> DEFINE T == {k \in Nat : k <= N /\ w[k] # NULL => c[w[k]] = s}
<1>0. N \in Nat /\ w \in [0..N -> Link]
  BY ListsAssumption DEF Walks
<1>1. 0 \in T
  BY DEF Walks, Uniform
<1>2. ASSUME NEW k \in Nat, k \in T
      PROVE  k + 1 \in T
  <2> SUFFICES ASSUME k + 1 <= N, w[k + 1] # NULL
               PROVE  c[w[k + 1]] = s
    OBVIOUS
  <2>1. k + 1 \in 1..N /\ k \in 0..N /\ (k + 1) - 1 = k /\ k <= N
    BY <1>0
  <2>2. w[k] # NULL /\ w[k + 1] = f[w[k]]
    BY <2>1 DEF Walks
  <2>3. w[k] \in Block
    BY <1>0, <2>1, <2>2 DEF Link, Block, NULL
  <2>4. c[w[k]] = s
    BY <1>2, <2>1, <2>2
  <2> QED
    BY <2>2, <2>3, <2>4 DEF Uniform
<1> HIDE DEF T
<1>3. Nat \subseteq T
  BY <1>1, <1>2, Upwards
<1> QED
  BY <1>0, <1>3 DEF T

\* The blocks of a list are in its set.
LEMMA ListInSet ==
  ASSUME LType, Tied, Sorted, NEW s \in Index
  PROVE  \A k \in 0..N : At(s)[k] # NULL => setOf[At(s)[k]] = s
<1>1. PICK h \in Link, f \in [Block -> Link] : h = head[s] /\ f = next
  BY DEF LType, Tied, Doubly
<1>2. PICK w, c : w = At(s) /\ c = setOf
  OBVIOUS
<1>3. Walks(w, h, f, N)
  BY <1>1, <1>2, ListIsWalk, Zenon
<1>4. h # NULL => c[h] = s
  BY <1>1, <1>2, Zenon DEF Sorted
<1>5. \A b \in Block : f[b] # NULL => c[f[b]] = c[b]
  BY <1>1, <1>2, Zenon DEF Sorted
<1>6. Uniform(h, f, c, s)
  BY <1>4, <1>5, Zenon DEF Uniform
<1>7. \A k \in 0..N : w[k] # NULL => c[w[k]] = s
  BY <1>3, <1>6, WalkInSet, SMT
<1> QED
  BY <1>2, <1>7, Zenon

-----------------------------------------------------------------------------
\* The initial state.
LEMMA ListsBegin == Init => LInv
<1> SUFFICES ASSUME Init PROVE LInv
  OBVIOUS
<1>0. N \in Nat /\ S \in Nat /\ S # 0
  BY ListsAssumption
<1>1. NULL \in Link /\ \A b \in Block : b # NULL
  BY <1>0 DEF NULL, Link, Block
<1>2. LType
  BY <1>0, <1>1 DEF Init, LType, Index
<1>3. Tied
  BY <1>1 DEF Init, Tied, Doubly
<1>4. Sorted
  BY DEF Init, Sorted
<1>5. Fresh
  BY DEF Init, Fresh, NULL
<1>6. Turn
  BY DEF Init, Turn
<1> QED
  BY <1>2, <1>3, <1>4, <1>5, <1>6 DEF LInv

\* The steps that turn to another list change no link.
LEMMA SameList ==
  ASSUME head' = head, next' = next, NEW s
  PROVE  At(s)' = At(s) /\ Length(s)' = Length(s)
<1>1. At(s)' = At(s)
  BY Zenon DEF At
<1> QED
  BY <1>1, Zenon DEF Length

\* And a new list is taken up at its end.
LEMMA TurnKept ==
  ASSUME LInv, Filled \/ NextList
  PROVE  LInv'
<1>1. UNCHANGED <<setOf, at, head, next, prev>>
  BY DEF Filled, NextList
<1>2. Tied' /\ Sorted'
  BY <1>1 DEF LInv, Tied, Sorted
<1>3. pc' \in {"shuffle", "done"}
  BY DEF Filled, NextList, LInv, LType
<1>4. Fresh'
  BY <1>3 DEF Fresh
<1>5. \A s \in Index : Length(s) \in 0..N
  BY ListIsWalk, Zenon DEF LInv
<1>6. \/ list' = list /\ i' = i /\ pc' = "done"
      \/ list' \in Index /\ i' = Length(list') - 1
  <2>1. CASE Filled
    <3>1. 1 \in Index
      BY ListsAssumption DEF Index
    <3> QED
      BY <2>1, <3>1 DEF Filled, Begin
  <2>2. CASE NextList
    <3>1. list < S => list + 1 \in Index
      BY ListsAssumption DEF LInv, LType, Index
    <3> QED
      BY <2>2, <3>1 DEF NextList, Begin
  <2> QED
    BY <2>1, <2>2
<1>7. LType'
  BY <1>1, <1>3, <1>5, <1>6, ListsAssumption DEF LInv, LType
<1>8. Turn'
  <2> SUFFICES ASSUME pc' = "shuffle" PROVE i' < Length(list)'
    BY DEF Turn
  <2>1. list' \in Index /\ i' = Length(list') - 1
    BY <1>6
  <2>2. PICK s \in Index : s = list'
    BY <2>1
  <2>3. Length(s)' = Length(s)
    BY <1>1, SameList, Zenon
  <2>4. Length(list)' = Length(s)'
    BY <2>2 DEF Length, At
  <2> QED
    BY <1>5, <2>1, <2>2, <2>3, <2>4
<1> QED
  BY <1>2, <1>4, <1>7, <1>8 DEF LInv

-----------------------------------------------------------------------------
\* The links after a block became the head before old.
Pushed(f, b, old) == [f EXCEPT ![b] = old]

\* A walk that does not meet the block is the same, and the walk from the block goes
\* on as the one from old.
LEMMA WalkKept ==
  ASSUME NEW f \in [Block -> Link], NEW b \in Block, NEW old \in Link, NEW h,
         NEW w, Walks(w, h, f, N), \A k \in 0..N : w[k] # b
  PROVE  Walks(w, h, Pushed(f, b, old), N)
<1>1. ASSUME NEW k \in 1..N
      PROVE  w[k] = IF w[k - 1] = NULL THEN NULL ELSE Pushed(f, b, old)[w[k - 1]]
  <2>1. k - 1 \in 0..N /\ w[k - 1] \in Link
    BY ListsAssumption DEF Walks
  <2>2. w[k - 1] # NULL => w[k - 1] \in Block /\ Pushed(f, b, old)[w[k - 1]] = f[w[k - 1]]
    BY <2>1 DEF Link, Block, NULL, Pushed
  <2>3. w[k] = IF w[k - 1] = NULL THEN NULL ELSE f[w[k - 1]]
    BY DEF Walks
  <2> QED
    BY <2>2, <2>3
<1> QED
  BY <1>1, Zenon DEF Walks

LEMMA WalkPushed ==
  ASSUME NEW f \in [Block -> Link], NEW b \in Block, NEW old \in Link,
         NEW w, Walks(w, old, f, N), \A k \in 0..N : w[k] # b
  PROVE  Walks([k \in 0..N |-> IF k = 0 THEN b ELSE w[k - 1]], b, Pushed(f, b, old), N)
<1> DEFINE v == [k \in 0..N |-> IF k = 0 THEN b ELSE w[k - 1]]
<1>0. N \in Nat /\ b \in Link /\ b # NULL /\ w \in [0..N -> Link] /\ w[0] = old
  <2>1. N \in Nat /\ b \in Link /\ b # NULL
    BY ListsAssumption DEF Link, Block, NULL
  <2> QED
    BY <2>1, Zenon DEF Walks
<1>1. v \in [0..N -> Link] /\ v[0] = b
  BY <1>0
<1>2. ASSUME NEW k \in 1..N
      PROVE  v[k] = IF v[k - 1] = NULL THEN NULL ELSE Pushed(f, b, old)[v[k - 1]]
  <2>1. CASE k = 1
    <3>1. v[k] = old /\ v[k - 1] = b
      BY <1>0, <2>1
    <3>2. Pushed(f, b, old)[b] = old
      BY DEF Pushed
    <3> QED
      BY <1>0, <3>1, <3>2, Zenon
  <2>2. CASE k # 1
    <3>1. k - 1 \in 1..N /\ k - 1 \in 0..N /\ (k - 1) - 1 \in 0..N
      BY <1>0, <2>2
    <3>2. v[k] = w[k - 1] /\ v[k - 1] = w[(k - 1) - 1]
      BY <1>0, <2>2, <3>1
    <3>3. w[k - 1] = IF w[(k - 1) - 1] = NULL THEN NULL ELSE Pushed(f, b, old)[w[(k - 1) - 1]]
      <4>1. Walks(w, old, Pushed(f, b, old), N)
        BY WalkKept, Zenon
      <4> QED
        BY <3>1, <4>1 DEF Walks
    <3> QED
      BY <3>2, <3>3, Zenon
  <2> QED
    BY <2>1, <2>2
<1> QED
  BY <1>1, <1>2, Zenon DEF Walks

-----------------------------------------------------------------------------
\* No list leads to the block that is next in the pool.
LEMMA NotYet ==
  ASSUME LInv, pc = "fill", at \in Block, NEW s \in Index
  PROVE  \A k \in 0..N : At(s)[k] # at
<1>1. PICK w : w = At(s)
  OBVIOUS
<1>2. Walks(w, head[s], next, N)
  BY <1>1, ListIsWalk, Zenon DEF LInv
<1>3. at # NULL /\ N \in Nat /\ at \in Int /\ \A b \in Link : b \in Int
  BY ListsAssumption DEF LInv, LType, Block, NULL, Link
<1>4. head[s] # at /\ \A b \in Block : next[b] # at
  BY <1>3 DEF LInv, Fresh
<1>5. ASSUME NEW k \in 0..N
      PROVE  w[k] # at
  <2>1. CASE k = 0
    BY <1>2, <1>4, <2>1 DEF Walks
  <2>2. CASE k # 0
    <3>1. k \in 1..N /\ k - 1 \in 0..N
      BY <1>3, <2>2
    <3>2. w[k - 1] \in Link /\ w[k] = IF w[k - 1] = NULL THEN NULL ELSE next[w[k - 1]]
      BY <1>2, <3>1 DEF Walks
    <3>3. w[k - 1] # NULL => w[k - 1] \in Block
      BY <3>2 DEF Link, Block, NULL
    <3> QED
      BY <1>3, <1>4, <3>2, <3>3
  <2> QED
    BY <2>1, <2>2
<1> QED
  BY <1>1, <1>5, Zenon

\* The links that a fill leaves.
LEMMA FilledLinks ==
  ASSUME LInv, Fill
  PROVE  LType' /\ Tied' /\ Sorted' /\ Fresh' /\ Turn'
<1>0. /\ N \in Nat /\ at \in Block /\ pc = "fill" /\ pc' = "fill" /\ at' = at + 1
      /\ \A x \in Link : x \in Int /\ (x # NULL => x \in Block)
      /\ \A x \in Block : x \in Link /\ x # NULL /\ x \in Int
  BY ListsAssumption DEF Fill, Block, Link, NULL
<1>1. PICK s0 \in Index, old \in Link : s0 = setOf[at] /\ old = head[s0]
  BY <1>0 DEF LInv, LType
<1>2. /\ next' = [next EXCEPT ![at] = old]
      /\ prev' = [b \in Block |-> IF b = at THEN NULL ELSE IF b = old THEN at ELSE prev[b]]
      /\ head' = [head EXCEPT ![s0] = at]
      /\ UNCHANGED <<setOf, list, i>>
  BY <1>1 DEF Fill
<1>3. /\ next \in [Block -> Link] /\ prev \in [Block -> Link] /\ head \in [Index -> Link]
      /\ setOf \in [Block -> Index]
      /\ \A b \in Block : next[b] # NULL => prev[next[b]] = b
      /\ \A b \in Block : prev[b] # NULL => next[prev[b]] = b
      /\ \A s \in Index : head[s] # NULL => prev[head[s]] = NULL
  BY DEF LInv, LType, Tied, Doubly
<1>4. /\ next[at] = NULL /\ prev[at] = NULL
      /\ \A b \in Block : next[b] < at /\ prev[b] < at
      /\ \A s \in Index : head[s] < at
      /\ \A b \in Block : next[b] # at /\ prev[b] # at
      /\ \A s \in Index : head[s] # at
      /\ \A b \in Block : b >= at => next[b] = NULL /\ prev[b] = NULL
  BY <1>0, <1>3 DEF LInv, Fresh
<1>5. /\ \A b \in Block : next[b] # NULL => setOf[next[b]] = setOf[b]
      /\ \A s \in Index : head[s] # NULL => setOf[head[s]] = s
  BY DEF LInv, Sorted
<1>6. old # at /\ old < at /\ (old # NULL => old \in Block /\ prev[old] = NULL /\ setOf[old] = s0)
  BY <1>0, <1>1, <1>3, <1>4, <1>5
<1>7. /\ \A b \in Block : next'[b] = IF b = at THEN old ELSE next[b]
      /\ \A b \in Block : prev'[b] = IF b = at THEN NULL ELSE IF b = old THEN at ELSE prev[b]
      /\ \A s \in Index : head'[s] = IF s = s0 THEN at ELSE head[s]
  BY <1>2, <1>3
<1>8. next' \in [Block -> Link] /\ prev' \in [Block -> Link] /\ head' \in [Index -> Link]
  <2>1. at \in Link /\ NULL \in Link
    BY <1>0 DEF Link, NULL
  <2> QED
    BY <1>2, <1>3, <2>1
<1>9. LType'
  <2>1. at' \in 1..(N + 1)
    BY <1>0 DEF Block
  <2> QED
    BY <1>0, <1>2, <1>8, <2>1 DEF LInv, LType
<1>10. Tied'
  <2>1. ASSUME NEW b \in Block, next'[b] # NULL
        PROVE  prev'[next'[b]] = b
    <3>1. CASE b = at
      BY <1>6, <1>7, <2>1, <3>1
    <3>2. CASE b # at
      <4>1. next'[b] = next[b] /\ next[b] \in Block /\ prev[next[b]] = b /\ next[b] # at
        BY <1>0, <1>3, <1>4, <1>7, <2>1, <3>2
      <4>2. next[b] # old
        BY <1>0, <1>6, <4>1
      <4> QED
        BY <1>7, <4>1, <4>2
    <3> QED
      BY <3>1, <3>2
  <2>2. ASSUME NEW b \in Block, prev'[b] # NULL
        PROVE  next'[prev'[b]] = b
    <3>1. b # at
      BY <1>7, <2>2
    <3>2. CASE b = old
      BY <1>0, <1>7, <3>1, <3>2
    <3>3. CASE b # old
      <4>1. prev'[b] = prev[b] /\ prev[b] \in Block /\ next[prev[b]] = b /\ prev[b] # at
        BY <1>0, <1>3, <1>4, <1>7, <2>2, <3>1, <3>3
      <4> QED
        BY <1>7, <4>1
    <3> QED
      BY <3>2, <3>3
  <2>3. ASSUME NEW s \in Index, head'[s] # NULL
        PROVE  prev'[head'[s]] = NULL
    <3>1. CASE s = s0
      BY <1>0, <1>7, <3>1
    <3>2. CASE s # s0
      <4>1. head'[s] = head[s] /\ head[s] \in Block /\ prev[head[s]] = NULL /\ head[s] # at /\ setOf[head[s]] = s
        BY <1>0, <1>3, <1>4, <1>5, <1>7, <2>3, <3>2
      <4>2. head[s] # old
        BY <1>0, <1>6, <3>2, <4>1
      <4> QED
        BY <1>7, <4>1, <4>2
    <3> QED
      BY <3>1, <3>2
  <2> QED
    BY <1>8, <2>1, <2>2, <2>3 DEF Tied, Doubly
<1>11. Sorted'
  <2>1. setOf' = setOf /\ setOf[at] = s0
    BY <1>1, <1>2
  <2>2. ASSUME NEW b \in Block, next'[b] # NULL
        PROVE  setOf[next'[b]] = setOf[b]
    BY <1>5, <1>6, <1>7, <2>1, <2>2
  <2>3. ASSUME NEW s \in Index, head'[s] # NULL
        PROVE  setOf[head'[s]] = s
    BY <1>5, <1>7, <2>1, <2>3
  <2> QED
    BY <2>1, <2>2, <2>3 DEF Sorted
<1>12. Fresh'
  <2>1. ASSUME NEW b \in Block, b >= at + 1
        PROVE  next'[b] = NULL /\ prev'[b] = NULL
    <3>1. b # at /\ b >= at /\ b # old
      BY <1>0, <1>6, <2>1
    <3> QED
      BY <1>4, <1>7, <3>1
  <2>2. ASSUME NEW b \in Block
        PROVE  next'[b] < at + 1 /\ prev'[b] < at + 1
    BY <1>0, <1>3, <1>4, <1>6, <1>7 DEF NULL
  <2>3. ASSUME NEW s \in Index
        PROVE  head'[s] < at + 1
    BY <1>0, <1>3, <1>4, <1>7
  <2> QED
    BY <1>0, <2>1, <2>2, <2>3 DEF Fresh
<1>13. Turn'
  BY <1>0 DEF Turn
<1> QED
  BY <1>9, <1>10, <1>11, <1>12, <1>13

\* And the lists: the block comes first in its own, and the others stay as they are.
LEMMA FilledLists ==
  ASSUME LInv, Fill, LInv', NEW s0 \in Index, s0 = setOf[at]
  PROVE  /\ \A s \in Index : s # s0 => At(s)' = At(s) /\ Length(s)' = Length(s)
         /\ At(s0)' = [k \in 0..N |-> IF k = 0 THEN at ELSE At(s0)[k - 1]]
         /\ Length(s0)' = Length(s0) + 1
<1>0. N \in Nat /\ at \in Block /\ pc = "fill" /\ at # NULL
  BY ListsAssumption DEF Fill, Block, NULL
<1>1. PICK old \in Link : old = head[s0]
  BY <1>0 DEF LInv, LType
<1>2. next' = Pushed(next, at, old) /\ head' = [head EXCEPT ![s0] = at]
  BY <1>1 DEF Fill, Pushed
<1>3. next \in [Block -> Link] /\ head \in [Index -> Link]
  BY DEF LInv, LType, Tied, Doubly
<1>4. \A s \in Index : head'[s] = IF s = s0 THEN at ELSE head[s]
  BY <1>2, <1>3
<1>5. ASSUME NEW s \in Index, s # s0
      PROVE  At(s)' = At(s) /\ Length(s)' = Length(s)
  <2>1. PICK w : w = At(s)
    OBVIOUS
  <2>2. Walks(w, head[s], next, N) /\ \A k \in 0..N : w[k] # at
    BY <1>0, <2>1, ListIsWalk, NotYet, Zenon DEF LInv
  <2>3. Walks(w, head'[s], next', N)
    BY <1>0, <1>2, <1>3, <1>4, <1>5, <2>2, WalkKept
  <2>4. Walks(At(s)', head'[s], next', N)
    BY ListIsWalkNext, Zenon DEF LInv
  <2>5. At(s)' = w
    BY <1>0, <2>3, <2>4, WalkUnique, Zenon
  <2> QED
    BY <2>1, <2>5, Zenon DEF Length
<1>6. PICK w : w = At(s0)
  OBVIOUS
<1> DEFINE v == [k \in 0..N |-> IF k = 0 THEN at ELSE w[k - 1]]
<1>7. At(s0)' = v
  <2>1. Walks(w, old, next, N) /\ \A k \in 0..N : w[k] # at
    BY <1>0, <1>1, <1>6, ListIsWalk, NotYet, Zenon DEF LInv
  <2>2. Walks(v, at, Pushed(next, at, old), N)
    BY <1>0, <1>3, <2>1, WalkPushed, Zenon
  <2>3. Walks(At(s0)', head'[s0], next', N)
    BY ListIsWalkNext, Zenon DEF LInv
  <2>4. head'[s0] = at
    BY <1>4
  <2> QED
    BY <1>0, <1>2, <2>2, <2>3, <2>4, WalkUnique, Zenon
<1>8. Length(s0)' = Length(s0) + 1
  <2>1. PICK n \in 0..N, m \in 0..N : n = Length(s0) /\ m = Length(s0)'
    BY ListIsWalk, ListIsWalkNext, Zenon DEF LInv
  <2>2. \A k \in 0..N : w[k] # NULL <=> k < n
    BY <1>6, <2>1, ListIsWalk, Zenon DEF LInv
  <2>3. \A k \in 0..N : v[k] # NULL <=> k < m
    BY <1>7, <2>1, ListIsWalkNext, Zenon DEF LInv
  <2>4. v[0] # NULL /\ \A k \in 1..N : v[k] = w[k - 1]
    BY <1>0
  <2> HIDE DEF v
  <2>5. \A k \in 1..N : k < m <=> k - 1 < n
    BY <1>0, <2>2, <2>3, <2>4
  <2>6. 0 < m
    BY <1>0, <2>3, <2>4
  <2>7. m = n + 1
    BY <1>0, <2>5, <2>6
  <2> QED
    BY <2>1, <2>7
<1> QED
  BY <1>5, <1>6, <1>7, <1>8, Zenon

-----------------------------------------------------------------------------
\* Two blocks of a list that the code exchanges are apart.
LEMMA FarEnough ==
  ASSUME NEW h \in Link, NEW f, NEW g, Doubly(f, g), h # NULL => g[h] = NULL,
         NEW w, Walks(w, h, f, N),
         NEW j \in 1..N, NEW k \in (j + 1)..N, w[k] # NULL,
         f[w[j]] # w[k], g[w[k]] # w[j], f[w[j]] # g[w[k]]
  PROVE  Separate(f, g, w[j], w[k]) /\ h # w[j] /\ h # w[k]
<1>0. N \in Nat /\ w \in [0..N -> Link] /\ w[0] = h
  BY ListsAssumption DEF Walks
<1>1. /\ \A x \in Link : x # NULL <=> x \in Block
      /\ \A x \in Block : x # NULL
  BY LinkOrBlock, Zenon
<1>2. \A x \in 0..N : \A y \in (x + 1)..N : w[y] # NULL => w[x] # w[y]
  BY WalkApart, SMT
<1>3. \A x \in 0..k : w[x] # NULL
  <2>1. k \in 0..N
    OBVIOUS
  <2> QED
    BY <2>1, WalkEnds, Zenon
<1>4. /\ j \in 0..k /\ j \in 0..N /\ k \in 0..N /\ k - 1 \in 0..N /\ k - 1 \in 0..k /\ j - 1 \in 0..N
      /\ j - 1 \in 0..k /\ j + 1 \in 0..N /\ j + 1 \in 0..k /\ j < k
      /\ j \in 1..N /\ k \in 1..N /\ j + 1 \in 1..N /\ (j + 1) - 1 = j
  BY <1>0
<1>5. PICK a, b, c, d, e : a = w[j] /\ b = w[k] /\ c = w[j - 1] /\ d = w[k - 1] /\ e = w[j + 1]
  OBVIOUS
<1>6. a \in Block /\ b \in Block /\ c \in Block /\ d \in Block /\ e \in Block /\ h \in Block
  <2>1. w[0] # NULL
    BY <1>0, <1>3, <1>4
  <2>2. w[j] # NULL /\ w[k] # NULL /\ w[j - 1] # NULL /\ w[k - 1] # NULL /\ w[j + 1] # NULL
    BY <1>3, <1>4, Zenon
  <2>3. w[j] \in Link /\ w[k] \in Link /\ w[j - 1] \in Link /\ w[k - 1] \in Link /\ w[j + 1] \in Link
    BY <1>0, <1>4
  <2> QED
    BY <1>0, <1>1, <1>5, <2>1, <2>2, <2>3, Zenon
<1>7. f[c] = a /\ f[d] = b /\ f[a] = e
  BY <1>1, <1>4, <1>5, <1>6 DEF Walks
<1>8. g[a] = c /\ g[b] = d /\ g[e] = a
  BY <1>1, <1>6, <1>7 DEF Doubly
<1>9. a # b /\ c # a /\ c # b /\ d # b /\ h # a /\ h # b /\ a # e
  BY <1>0, <1>1, <1>2, <1>4, <1>5, <1>6
<1>10. d # a /\ e # b /\ e # d
  BY <1>5, <1>7, <1>8
<1>11. c # d
  BY <1>7, <1>9
<1>12. f[b] # a /\ f[b] # b /\ f[b] # e
  <2>1. f[b] \in Link
    BY <1>6 DEF Doubly
  <2>2. f[b] # NULL => g[f[b]] = b
    BY <1>6 DEF Doubly
  <2>3. f[b] # a
    BY <1>1, <1>6, <1>8, <1>9, <2>2
  <2>4. f[b] # b
    BY <1>1, <1>6, <1>8, <1>9, <2>2
  <2>5. f[b] # e
    BY <1>1, <1>6, <1>8, <1>9, <2>2
  <2> QED
    BY <2>3, <2>4, <2>5
<1>13. f[b] # c
  <2> SUFFICES ASSUME f[b] = c PROVE FALSE
    OBVIOUS
  <2>1. c # NULL /\ g[c] = b
    BY <1>1, <1>6 DEF Doubly
  <2>2. CASE j = 1
    BY <1>0, <1>1, <1>5, <1>6, <2>1, <2>2
  <2>3. CASE j # 1
    <3>1. j - 1 \in 1..N /\ (j - 1) - 1 \in 0..N /\ k \in ((j - 1) - 1 + 1)..N
      BY <1>0, <1>4, <2>3
    <3>2. w[(j - 1) - 1] # NULL /\ c = f[w[(j - 1) - 1]]
      BY <1>1, <1>5, <1>6, <3>1 DEF Walks
    <3>3. w[(j - 1) - 1] \in Block
      BY <1>0, <1>1, <3>1, <3>2
    <3>4. g[c] = w[(j - 1) - 1]
      BY <2>1, <3>2, <3>3 DEF Doubly
    <3>5. w[(j - 1) - 1] # w[k]
      BY <1>2, <3>1
    <3> QED
      BY <1>5, <2>1, <3>4, <3>5
  <2> QED
    BY <2>2, <2>3
<1>14. Separate(f, g, a, b)
  BY <1>6, <1>7, <1>8, <1>9, <1>10, <1>11, <1>12, <1>13 DEF Separate
<1> QED
  BY <1>5, <1>9, <1>14

\* Nothing comes before the head of any list, and something does before a and b.
LEMMA HeadsStay ==
  ASSUME LInv, NEW a, NEW b, Separate(next, prev, a, b), NEW s \in Index
  PROVE  head[s] # a /\ head[s] # b
<1>1. prev[a] \in Block /\ prev[b] \in Block /\ a \in Block /\ b \in Block
  BY DEF Separate
<1>2. \A x \in Block : x # NULL
  BY ListsAssumption DEF Block, NULL
<1> QED
  BY <1>1, <1>2 DEF LInv, Tied

-----------------------------------------------------------------------------
\* The exchange of two blocks that are apart.
Exchanges(a, b) ==
  /\ Separate(next, prev, a, b)
  /\ setOf[a] = list /\ setOf[b] = list
  /\ UNCHANGED <<setOf, head, list, at, pc>>
  /\ next' = Swapped([next |-> next, prev |-> prev], a, b).next
  /\ prev' = Swapped([next |-> next, prev |-> prev], a, b).prev

\* It keeps the links doubly linked and the lists in their sets.
LEMMA ExchangedLinks ==
  ASSUME LInv, pc = "shuffle", NEW a, NEW b, Exchanges(a, b)
  PROVE  /\ Tied' /\ Sorted' /\ Fresh'
         /\ \A x \in Block : next'[Flip(a, b, x)] = Flip(a, b, next[x])
<1>1. PICK m : m = Swapped([next |-> next, prev |-> prev], a, b)
  OBVIOUS
<1>2. next' = m.next /\ prev' = m.prev
  BY <1>1, Zenon DEF Exchanges
<1>3. Doubly(next, prev) /\ Separate(next, prev, a, b)
  BY Zenon DEF LInv, Tied, Exchanges
<1>4. Doubly(m.next, m.prev) /\ Renamed(next, m.next, a, b) /\ Renamed(prev, m.prev, a, b)
  <2>1. PICK f, g : f = next /\ g = prev
    OBVIOUS
  <2>2. Doubly(f, g) /\ Separate(f, g, a, b) /\ m = Swapped([next |-> f, prev |-> g], a, b)
    BY <1>1, <1>3, <2>1, Zenon
  <2>3. Doubly(m.next, m.prev) /\ Renamed(f, m.next, a, b) /\ Renamed(g, m.prev, a, b)
    BY <2>2, Conjugated, Zenon
  <2> QED
    BY <2>1, <2>3, Zenon
<1>5. /\ Doubly(next', prev')
      /\ \A x \in Block : /\ next'[Flip(a, b, x)] = Flip(a, b, next[x])
                          /\ prev'[Flip(a, b, x)] = Flip(a, b, prev[x])
  BY <1>2, <1>4, Zenon DEF Renamed
<1>6. a \in Block /\ b \in Block /\ a # NULL /\ b # NULL
  BY <1>3, LinkOrBlock DEF Separate
<1>7. \A x \in Link : x # NULL <=> x \in Block
  BY LinkOrBlock, Zenon
<1>8. UNCHANGED <<setOf, head, list, at, pc>> /\ setOf[a] = list /\ setOf[b] = list
  BY DEF Exchanges
<1>9. \A s \in Index : head'[s] = head[s] /\ head[s] # a /\ head[s] # b
  BY <1>3, <1>8, HeadsStay, Zenon
<1>10. next \in [Block -> Link] /\ head \in [Index -> Link]
  BY DEF LInv, LType, Tied, Doubly
<1>11. Tied'
  <2>1. ASSUME NEW s \in Index, head'[s] # NULL
        PROVE  prev'[head'[s]] = NULL
    <3>1. head[s] \in Block /\ prev[head[s]] = NULL
      BY <1>7, <1>9, <1>10, <2>1 DEF LInv, Tied
    <3>2. Flip(a, b, head[s]) = head[s] /\ Flip(a, b, NULL) = NULL
      BY <1>6, <1>7, <1>9 DEF Flip
    <3> QED
      BY <1>5, <1>9, <3>1, <3>2
  <2> QED
    BY <1>5, <2>1, Zenon DEF Tied
<1>12. Sorted'
  <2>1. \A x : setOf[Flip(a, b, x)] = setOf[x]
    BY <1>8 DEF Flip
  <2>2. ASSUME NEW y \in Block, next'[y] # NULL
        PROVE  setOf[next'[y]] = setOf[y]
    <3>1. PICK x \in Block : y = Flip(a, b, x)
      <4>1. Flip(a, b, Flip(a, b, y)) = y /\ Flip(a, b, y) \in Block
        BY <1>6 DEF Flip
      <4> QED
        BY <4>1
    <3>2. next'[y] = Flip(a, b, next[x])
      BY <1>5, <3>1
    <3>3. next[x] # NULL
      <4> SUFFICES ASSUME next[x] = NULL PROVE FALSE
        OBVIOUS
      <4>1. Flip(a, b, NULL) = NULL
        BY <1>6, Zenon DEF Flip
      <4> QED
        BY <2>2, <3>2, <4>1, Zenon
    <3>4. setOf[next[x]] = setOf[x]
      BY <3>3 DEF LInv, Sorted
    <3> QED
      BY <2>1, <3>1, <3>2, <3>4
  <2> QED
    BY <1>8, <2>2 DEF LInv, Sorted
<1>13. Fresh'
  BY <1>8 DEF Fresh
<1> QED
  BY <1>5, <1>11, <1>12, <1>13

\* The lists then have the blocks in each other's place.
LEMMA ExchangedLists ==
  ASSUME LInv, pc = "shuffle", LType', NEW a, NEW b, Exchanges(a, b), NEW s \in Index
  PROVE  /\ At(s)' = [k \in 0..N |-> Flip(a, b, At(s)[k])]
         /\ Length(s)' = Length(s)
<1>1. Tied' /\ \A x \in Block : next'[Flip(a, b, x)] = Flip(a, b, next[x])
  BY ExchangedLinks, Zenon
<1>2. PICK w : w = At(s)
  OBVIOUS
<1>3. PICK h \in Link, f \in [Block -> Link], g \in [Block -> Link] : h = head[s] /\ f = next /\ g = next'
  BY <1>1 DEF LInv, LType, Tied, Doubly
<1>4. Walks(w, h, f, N)
  BY <1>2, <1>3, ListIsWalk, Zenon DEF LInv
<1>5. a \in Block /\ b \in Block /\ h # a /\ h # b
  BY <1>3, HeadsStay DEF Exchanges, Separate
<1> DEFINE v == [k \in 0..N |-> Flip(a, b, w[k])]
<1>6. Renamed(f, g, a, b)
  BY <1>1, <1>3, Zenon DEF Renamed
<1>7. Walks(v, h, g, N)
  BY <1>3, <1>4, <1>5, <1>6, WalkFlipped, Zenon
<1>8. head'[s] = h
  BY <1>3 DEF Exchanges
<1>9. Walks(At(s)', h, g, N)
  BY <1>1, <1>3, <1>8, ListIsWalkNext, Zenon
<1>10. At(s)' = v
  BY <1>7, <1>9, WalkUnique, ListsAssumption, Zenon
<1>11. \A k \in 0..N : v[k] # NULL <=> w[k] # NULL
  <2>1. a # NULL /\ b # NULL
    BY <1>5, ListsAssumption DEF Block, NULL
  <2> QED
    BY <2>1 DEF Flip
<1>12. {k \in 0..N : v[k] # NULL} = {k \in 0..N : w[k] # NULL}
  BY <1>11, Zenon
<1>13. Length(s)' = Length(s)
  BY <1>2, <1>10, <1>12, Zenon DEF Length
<1> QED
  BY <1>2, <1>10, <1>13, Zenon

-----------------------------------------------------------------------------
\* A turn of shuffle_list exchanges two blocks of the list, or none.
LEMMA TurnExchanges ==
  ASSUME LInv, NEW j, Shuffle(j)
  PROVE  /\ j \in 1..(i - 1) /\ i \in 2..(Length(list) - 1) /\ j \in 0..N /\ i \in 0..N
         /\ UNCHANGED <<next, prev>> \/ Exchanges(At(list)[j], At(list)[i])
<1>0. N \in Nat /\ pc = "shuffle" /\ i \in Int /\ i > 1 /\ j \in 1..(i - 1) /\ list \in Index
  BY ListsAssumption DEF LInv, LType, Shuffle, Positions
<1>1. Length(list) \in 0..N /\ i < Length(list)
  BY <1>0, ListIsWalk, Zenon DEF LInv, Turn
<1>2. i \in 0..N /\ j \in 0..N /\ i \in 2..(Length(list) - 1) /\ j \in 1..N /\ i \in (j + 1)..N /\ j < Length(list)
  BY <1>0, <1>1
<1>3. PICK a, b : a = At(list)[j] /\ b = At(list)[i]
  OBVIOUS
<1>4. CASE TooClose(a, b)
  <2>1. UNCHANGED <<next, prev>>
    BY <1>3, <1>4, Zenon DEF Shuffle
  <2> QED
    BY <1>0, <1>2, <2>1, Zenon
<1>5. CASE ~TooClose(a, b)
  <2>1. PICK w : w = At(list)
    OBVIOUS
  <2>2. PICK h \in Link, f \in [Block -> Link], g \in [Block -> Link] : h = head[list] /\ f = next /\ g = prev
    BY <1>0 DEF LInv, LType, Tied, Doubly
  <2>3. Walks(w, h, f, N)
    BY <1>0, <2>1, <2>2, ListIsWalk, Zenon DEF LInv
  <2>4. Doubly(f, g) /\ (h # NULL => g[h] = NULL)
    BY <1>0, <2>2, Zenon DEF LInv, Tied
  <2>5. a = w[j] /\ b = w[i] /\ w[j] # NULL /\ w[i] # NULL
    BY <1>0, <1>1, <1>2, <1>3, <2>1, ListIsWalk, Zenon DEF LInv
  <2>6. f[w[j]] # w[i] /\ g[w[i]] # w[j] /\ f[w[j]] # g[w[i]]
    BY <1>5, <2>2, <2>5, Zenon DEF TooClose
  <2>7. Separate(f, g, w[j], w[i])
    BY <1>2, <2>3, <2>4, <2>5, <2>6, FarEnough, Zenon
  <2>8. Separate(next, prev, a, b)
    BY <2>2, <2>5, <2>7, Zenon
  <2>9. setOf[a] = list /\ setOf[b] = list
    BY <1>0, <1>2, <2>1, <2>5, ListInSet, Zenon DEF LInv
  <2>10. /\ UNCHANGED <<pc, setOf, at, list, head>>
         /\ next' = Swapped([next |-> next, prev |-> prev], a, b).next
         /\ prev' = Swapped([next |-> next, prev |-> prev], a, b).prev
    BY <1>3, <1>5, Zenon DEF Shuffle
  <2>11. Exchanges(a, b)
    BY <2>8, <2>9, <2>10, Zenon DEF Exchanges
  <2> QED
    BY <1>0, <1>2, <1>3, <2>11, Zenon
<1> QED
  BY <1>4, <1>5, Zenon

\* Every turn of shuffle_list keeps the invariant, and so does every step.
LEMMA ShuffleKept ==
  ASSUME LInv, NEW j, Shuffle(j)
  PROVE  LInv'
<1>0. /\ pc = "shuffle" /\ UNCHANGED <<pc, setOf, at, list, head>> /\ i' = i - 1
      /\ i \in Int /\ list \in Index /\ i < Length(list)
  BY DEF LInv, LType, Turn, Shuffle
<1>1. LType'
  BY <1>0 DEF LInv, LType
<1>2. Tied' /\ Sorted' /\ Fresh' /\ \A s \in Index : Length(s)' = Length(s)
  <2>1. CASE UNCHANGED <<next, prev>>
    <3>1. Tied' /\ Sorted'
      BY <1>0, <2>1 DEF LInv, Tied, Sorted
    <3>2. Fresh'
      BY <1>0 DEF Fresh
    <3>3. \A s \in Index : Length(s)' = Length(s)
      BY <1>0, <2>1, SameList, Zenon
    <3> QED
      BY <3>1, <3>2, <3>3, Zenon
  <2>2. CASE Exchanges(At(list)[j], At(list)[i])
    BY <1>0, <1>1, <2>2, ExchangedLinks, ExchangedLists, Zenon
  <2> QED
    BY <2>1, <2>2, TurnExchanges, Zenon
<1>3. Turn'
  <2>1. PICK s \in Index : s = list
    BY <1>0
  <2>2. Length(list)' = Length(s)'
    BY <1>0, <2>1, Zenon DEF Length, At
  <2>3. Length(list)' = Length(list)
    BY <1>2, <2>1, <2>2, Zenon
  <2>4. PICK n \in 0..N : n = Length(list)
    BY <1>0, ListIsWalk, Zenon DEF LInv
  <2> QED
    BY <1>0, <2>3, <2>4 DEF Turn
<1> QED
  BY <1>1, <1>2, <1>3, Zenon DEF LInv

LEMMA FillKept ==
  ASSUME LInv, Fill
  PROVE  LInv'
BY FilledLinks, Zenon DEF LInv

LEMMA StutterKept ==
  ASSUME LInv, UNCHANGED vars
  PROVE  LInv'
<1>1. LType' /\ Tied' /\ Sorted' /\ Fresh'
  BY DEF LInv, LType, Tied, Sorted, Fresh, vars
<1>2. Length(list)' = Length(list)
  <2>1. list' = list /\ head' = head /\ next' = next
    BY DEF vars
  <2>2. PICK s : s = list'
    OBVIOUS
  <2>3. Length(list)' = Length(s)'
    BY <2>2 DEF Length, At
  <2>4. Length(s)' = Length(s) /\ s = list
    BY <2>1, <2>2, SameList, Zenon
  <2> QED
    BY <2>3, <2>4, Zenon
<1>3. Turn'
  BY <1>2, Zenon DEF LInv, Turn, vars
<1> QED
  BY <1>1, <1>3, Zenon DEF LInv

LEMMA ListsKept == LInv /\ [Next]_vars => LInv'
<1> SUFFICES ASSUME LInv, [Next]_vars PROVE LInv'
  OBVIOUS
<1>1. CASE Fill
  BY <1>1, FillKept, Zenon
<1>2. CASE Filled \/ NextList
  BY <1>2, TurnKept, Zenon
<1>3. ASSUME NEW j \in 0..N, Shuffle(j)
      PROVE  LInv'
  BY <1>3, ShuffleKept, Zenon
<1>4. CASE UNCHANGED vars
  BY <1>4, StutterKept, Zenon
<1> QED
  BY <1>1, <1>2, <1>3, <1>4, Zenon DEF Next

\* The invariant holds throughout.
LEMMA ListsInvariant == Spec => []LInv
<1>1. Init => LInv
  BY ListsBegin
<1>2. LInv /\ [Next]_vars => LInv'
  BY ListsKept
<1> QED
  BY <1>1, <1>2, PTL DEF Spec

\* Filling and shuffling leave the links of the pool doubly linked, the heads first and
\* the node to exchange one of the list (buffer_to_cachesets, shuffle_list), for any
\* number of blocks and sets.
THEOREM LinksCorrect == Spec => []DoublyLinked
<1>1. LInv => DoublyLinked
  BY DEF LInv, Turn, Tied, Doubly, DoublyLinked
<1> QED
  BY <1>1, ListsInvariant, PTL

-----------------------------------------------------------------------------
\* The list of a set, as a sequence.
Deck(s) == [k \in 1..Length(s) |-> At(s)[k-1]]
Deal == [s \in Index |-> Deck(s)]

\* A function on the first numbers is a sequence.
LEMMA Counted ==
  ASSUME NEW T, NEW n \in Nat, NEW d, d \in [1..n -> T]
  PROVE  d \in Seq(T) /\ Len(d) = n
<1>1. d \in Seq(T)
  OBVIOUS
<1>2. Len(d) \in Nat /\ DOMAIN d = 1..Len(d)
  BY <1>1, LenProperties
<1> QED
  BY <1>1, <1>2

\* What has one element more, in front, is the concatenation.
LEMMA Prepended ==
  ASSUME NEW T, NEW b \in T, NEW n \in Nat, NEW d \in [1..n -> T], NEW e \in [1..(n + 1) -> T],
         e[1] = b, \A k \in 1..n : e[k + 1] = d[k]
  PROVE  e = <<b>> \o d
<1>1. d \in Seq(T) /\ Len(d) = n /\ e \in Seq(T) /\ Len(e) = n + 1
  BY Counted
<1>2. <<b>> \in Seq(T) /\ Len(<<b>>) = 1 /\ <<b>>[1] = b
  OBVIOUS
<1>3. PICK f : f = <<b>> \o d
  OBVIOUS
<1>4. /\ f \in Seq(T) /\ Len(f) = n + 1
      /\ \A k \in 1..(n + 1) : f[k] = IF k <= 1 THEN b ELSE d[k - 1]
  BY <1>1, <1>2, <1>3, ConcatProperties
<1>5. \A k \in 1..(n + 1) : f[k] = e[k]
  <2> SUFFICES ASSUME NEW k \in 1..(n + 1) PROVE f[k] = e[k]
    OBVIOUS
  <2>1. CASE k = 1
    BY <1>4, <2>1
  <2>2. CASE k # 1
    <3>1. k - 1 \in 1..n /\ (k - 1) + 1 = k
      BY <2>2
    <3> QED
      BY <1>4, <2>2, <3>1
  <2> QED
    BY <2>1, <2>2
<1>6. f \in [1..(n + 1) -> T]
  BY <1>4
<1> QED
  BY <1>3, <1>5, <1>6

-----------------------------------------------------------------------------
\* A list and its sequence.
LEMMA DeckOf ==
  ASSUME LInv, NEW s \in Index
  PROVE  /\ Deck(s) \in [1..Length(s) -> Link] /\ Length(s) \in 0..N /\ Len(Deck(s)) = Length(s)
         /\ \A k \in 1..Length(s) : Deck(s)[k] = At(s)[k - 1]
<1>0. PICK w : w = At(s)
  OBVIOUS
<1>1. PICK n \in 0..N : w = At(s) /\ n = Length(s)
  BY <1>0, ListIsWalk, Zenon DEF LInv
<1>2. w \in [0..N -> Link]
  BY <1>1, ListIsWalk, Zenon DEF LInv, Walks
<1>3. PICK d : d = [k \in 1..n |-> w[k - 1]]
  OBVIOUS
<1>4. N \in Nat /\ n \in Nat /\ \A k \in 1..n : k - 1 \in 0..N
  BY ListsAssumption
<1>5. d \in [1..n -> Link] /\ \A k \in 1..n : d[k] = w[k - 1]
  BY <1>2, <1>3, <1>4
<1>6. Deck(s) = d
  BY <1>1, <1>3, Zenon DEF Deck
<1>7. Len(d) = n
  BY <1>4, <1>5, Counted, Zenon
<1> QED
  BY <1>1, <1>5, <1>6, <1>7, Zenon

\* At first the decks are empty.
LEMMA DealBegins == Init => D!Init
<1> SUFFICES ASSUME Init PROVE D!Init
  OBVIOUS
<1>1. ASSUME NEW s \in Index PROVE Deck(s) = << >>
  <2>1. LInv
    BY ListsBegin
  <2>0. PICK w : w = At(s)
    OBVIOUS
  <2>2. PICK n \in 0..N : /\ w = At(s) /\ n = Length(s) /\ Walks(w, head[s], next, N)
                          /\ \A k \in 0..N : w[k] # NULL <=> k < n
    BY <2>0, <2>1, ListIsWalk, Zenon DEF LInv
  <2>3. w[0] = NULL /\ 0 \in 0..N
    BY <2>2, ListsAssumption DEF Walks, Init
  <2>4. n = 0
    BY <2>2, <2>3, ListsAssumption
  <2>5. Deck(s) = [k \in 1..0 |-> w[k - 1]]
    BY <2>2, <2>4, Zenon DEF Deck
  <2> QED
    BY <2>5
<1>2. Deal = [s \in Index |-> << >>]
  BY <1>1, Zenon DEF Deal
<1> QED
  BY <1>2, Zenon DEF D!Init, Deal, Deck

\* Filling a block in puts it on the deck of its set.
LEMMA FillPushes ==
  ASSUME LInv, LInv', Fill
  PROVE  D!Next
<1>0. PICK s0 \in Index, b \in Block : s0 = setOf[at] /\ b = at
  BY DEF Fill, LInv, LType
<1>1. /\ \A s \in Index : s # s0 => At(s)' = At(s) /\ Length(s)' = Length(s)
      /\ At(s0)' = [k \in 0..N |-> IF k = 0 THEN b ELSE At(s0)[k - 1]]
      /\ Length(s0)' = Length(s0) + 1
  BY <1>0, FilledLists, Zenon
<1>2. \A s \in Index : s # s0 => Deck(s)' = Deck(s)
  BY <1>1, Zenon DEF Deck
<1>3. Deck(s0)' = <<b>> \o Deck(s0)
  <2>0. PICK w : w = At(s0)
    OBVIOUS
  <2>1. PICK n \in 0..N : w = At(s0) /\ n = Length(s0) /\ w \in [0..N -> Link]
    BY <2>0, ListIsWalk, Zenon DEF LInv, Walks
  <2>2. PICK d, e : d = Deck(s0) /\ e = Deck(s0)'
    OBVIOUS
  <2>3. d \in [1..n -> Link] /\ \A k \in 1..n : d[k] = w[k - 1]
    BY <2>1, <2>2, DeckOf, Zenon
  <2>4. PICK v : v = [k \in 0..N |-> IF k = 0 THEN b ELSE w[k - 1]]
    OBVIOUS
  <2>5. e = [k \in 1..(n + 1) |-> v[k - 1]]
    BY <1>1, <2>1, <2>2, <2>4, Zenon DEF Deck
  <2>6. n \in Nat /\ b \in Link /\ n + 1 <= N /\ N \in Nat
    <3>1. n + 1 \in 0..N
      BY <1>1, <2>1, ListIsWalkNext, Zenon DEF LInv
    <3> QED
      BY <3>1, LinkOrBlock, ListsAssumption
  <2>7. \A k \in 1..(n + 1) : e[k] = IF k = 1 THEN b ELSE w[(k - 1) - 1]
    BY <2>4, <2>5, <2>6
  <2>8. \A k \in 1..(n + 1) : e[k] \in Link
    BY <2>1, <2>6, <2>7
  <2>9. e \in [1..(n + 1) -> Link]
    BY <2>5, <2>8, Zenon
  <2>10. e[1] = b /\ \A k \in 1..n : e[k + 1] = d[k]
    BY <2>3, <2>6, <2>7
  <2> QED
    BY <2>2, <2>3, <2>6, <2>9, <2>10, Prepended
<1>4. \A s \in Index : \A k \in 1..Len(Deck(s)) : Deck(s)[k] # b
  <2> SUFFICES ASSUME NEW s \in Index, NEW k \in 1..Len(Deck(s)) PROVE Deck(s)[k] # b
    OBVIOUS
  <2>1. Deck(s)[k] = At(s)[k - 1] /\ k \in 1..Length(s) /\ Length(s) \in 0..N
    BY DeckOf
  <2>2. k - 1 \in 0..N
    BY <2>1, ListsAssumption
  <2> QED
    BY <1>0, <2>1, <2>2, NotYet, Zenon DEF Fill
<1>5. Deal' = [Deal EXCEPT ![s0] = <<b>> \o Deck(s0)]
  BY <1>2, <1>3 DEF Deal
<1>6. \A s \in Index : Deal[s] = Deck(s)
  BY DEF Deal
<1>7. D!Push(s0, b)
  <2>1. \A s \in Index : \A k \in 1..Len(Deal[s]) : Deal[s][k] # b
    BY <1>4, <1>6
  <2>2. Deal' = [Deal EXCEPT ![s0] = <<b>> \o @]
    BY <1>5, <1>6
  <2> QED
    BY <2>1, <2>2, Zenon DEF D!Push, Deal, Deck
<1> QED
  BY <1>7, Zenon DEF D!Next

-----------------------------------------------------------------------------
\* Two places of a sequence without repetitions exchanged.
OnlyAt(d, n, x) == \A k \in 1..n : d[k] = d[x] => k = x
Flipped(d, n, x, y) == [k \in 1..n |-> Flip(d[x], d[y], d[k])]

LEMMA PlacesExchanged ==
  ASSUME NEW T, NEW n \in Nat, NEW d \in [1..n -> T], NEW x \in 1..n, NEW y \in 1..n,
         OnlyAt(d, n, x), OnlyAt(d, n, y)
  PROVE  Flipped(d, n, x, y) = D!Exchanged(d, x, y)
<1>0. PICK e : e = [k \in 1..n |-> Flip(d[x], d[y], d[k])]
  OBVIOUS
<1>1. \A k \in 1..n : e[k] = IF k = x THEN d[y] ELSE IF k = y THEN d[x] ELSE d[k]
  BY <1>0 DEF Flip, OnlyAt
<1>2. PICK f : f = [d EXCEPT ![x] = d[y], ![y] = d[x]]
  OBVIOUS
<1>3. f \in [1..n -> T] /\ \A k \in 1..n : f[k] = IF k = y THEN d[x] ELSE IF k = x THEN d[y] ELSE d[k]
  BY <1>2
<1>4. e \in [1..n -> T]
  BY <1>0, <1>1
<1>5. \A k \in 1..n : e[k] = f[k]
  BY <1>1, <1>3
<1>6. e = f
  BY <1>3, <1>4, <1>5
<1> QED
  BY <1>0, <1>2, <1>6, Zenon DEF Flipped, D!Exchanged

\* The same links make the same decks.
LEMMA SameDeal ==
  ASSUME head' = head, next' = next
  PROVE  UNCHANGED Deal
<1>1. ASSUME NEW s \in Index
      PROVE  Deck(s)' = Deck(s)
  <2>1. At(s)' = At(s) /\ Length(s)' = Length(s)
    BY SameList, Zenon
  <2> QED
    BY <2>1, Zenon DEF Deck
<1> QED
  BY <1>1, Zenon DEF Deal

\* A turn of shuffle_list exchanges two blocks of the deck, below its top.
LEMMA ShuffleExchanges ==
  ASSUME LInv, LInv', NEW j, Shuffle(j)
  PROVE  D!Next \/ UNCHANGED Deal
<1>0. UNCHANGED <<setOf, head, list>> /\ list \in Index /\ N \in Nat /\ pc = "shuffle" /\ LType'
  BY ListsAssumption DEF Shuffle, LInv, LType
<1>1. CASE UNCHANGED <<next, prev>>
  BY <1>0, <1>1, SameDeal, Zenon
<1>2. CASE Exchanges(At(list)[j], At(list)[i])
  <2>1. PICK s0 \in Index : s0 = list
    BY <1>0
  <2>2. PICK a, b, x, y : a = At(s0)[j] /\ b = At(s0)[i] /\ x = j + 1 /\ y = i + 1
    OBVIOUS
  <2>3. Exchanges(a, b)
    BY <1>2, <2>1, <2>2, Zenon
  <2>4. \A s \in Index : At(s)' = [k \in 0..N |-> Flip(a, b, At(s)[k])] /\ Length(s)' = Length(s)
    BY <1>0, <2>3, ExchangedLists, Zenon
  <2>5. PICK n \in 0..N : n = Length(s0)
    BY ListIsWalk, Zenon DEF LInv
  <2>6. x \in 2..n /\ y \in 2..n /\ x \in 1..n /\ y \in 1..n /\ x - 1 = j /\ y - 1 = i
    <3>1. j \in 1..(i - 1) /\ i \in 2..(n - 1)
      BY <2>1, <2>5, TurnExchanges, Zenon
    <3> QED
      BY <1>0, <2>2, <3>1
  <2>7. PICK w : w = At(s0)
    OBVIOUS
  <2>8. PICK d, e : d = Deck(s0) /\ e = Deck(s0)'
    OBVIOUS
  <2>9. d \in [1..n -> Link] /\ Len(d) = n /\ \A k \in 1..n : d[k] = w[k - 1]
    BY <2>5, <2>7, <2>8, DeckOf, Zenon
  <2>10. a = d[x] /\ b = d[y]
    BY <2>2, <2>6, <2>7, <2>9
  <2>11. \A k \in 1..n : (d[k] = d[x] => k = x) /\ (d[k] = d[y] => k = y)
    <3>1. \A k \in 0..N : w[k] # NULL <=> k < n
      BY <2>5, <2>7, ListIsWalk, Zenon DEF LInv
    <3>2. \A p \in 0..N : \A q \in (p + 1)..N : w[q] # NULL => w[p] # w[q]
      BY <2>7, ListIsWalk, Zenon DEF LInv
    <3>3. ASSUME NEW p \in 1..n, NEW q \in 1..n, p < q
          PROVE  d[p] # d[q]
      <4>1. p - 1 \in 0..N /\ q - 1 \in 0..N /\ q - 1 \in ((p - 1) + 1)..N /\ q - 1 < n
        BY <1>0, <3>3
      <4> QED
        BY <2>9, <3>1, <3>2, <4>1
    <3> QED
      BY <2>6, <3>3
  <2>12. e = D!Exchanged(d, x, y)
    <3>1. PICK v : v = [k \in 0..N |-> Flip(a, b, w[k])]
      OBVIOUS
    <3>2. e = [k \in 1..n |-> v[k - 1]]
      BY <2>4, <2>5, <2>7, <2>8, <3>1, Zenon DEF Deck
    <3>3. \A k \in 1..n : v[k - 1] = Flip(a, b, d[k])
      BY <1>0, <2>9, <3>1
    <3>4. e = Flipped(d, n, x, y)
      BY <2>10, <3>2, <3>3, Zenon DEF Flipped
    <3>5. n \in Nat
      BY <1>0
    <3>6. OnlyAt(d, n, x) /\ OnlyAt(d, n, y)
      BY <2>11, Zenon DEF OnlyAt
    <3> QED
      BY <2>6, <2>9, <3>4, <3>5, <3>6, PlacesExchanged, Zenon
  <2>13. ASSUME NEW s \in Index, s # s0
         PROVE  Deck(s)' = Deck(s)
    <3>1. setOf[a] = s0 /\ setOf[b] = s0
      BY <2>1, <2>3 DEF Exchanges
    <3>2. a # NULL /\ b # NULL
      BY <2>3, LinkOrBlock DEF Exchanges, Separate
    <3>3. ASSUME NEW k \in 0..N PROVE Flip(a, b, At(s)[k]) = At(s)[k]
      <4>1. At(s)[k] # NULL => setOf[At(s)[k]] = s
        BY ListInSet, Zenon DEF LInv
      <4>2. At(s)[k] # a /\ At(s)[k] # b
        BY <2>13, <3>1, <3>2, <4>1, Zenon
      <4> QED
        BY <4>2, Zenon DEF Flip
    <3>4. PICK n1 \in 0..N : n1 = Length(s)
      BY ListIsWalk, Zenon DEF LInv
    <3>5. PICK u, v : u = At(s) /\ v = At(s)'
      OBVIOUS
    <3>6. \A k \in 0..N : v[k] = u[k]
      BY <2>4, <3>3, <3>5
    <3>7. \A k \in 1..n1 : v[k - 1] = u[k - 1]
      BY <1>0, <3>6
    <3>8. Deck(s)' = [k \in 1..n1 |-> v[k - 1]] /\ Deck(s) = [k \in 1..n1 |-> u[k - 1]]
      BY <2>4, <3>4, <3>5, Zenon DEF Deck
    <3> QED
      BY <3>7, <3>8, Zenon
  <2>14. Deal' = [Deal EXCEPT ![s0] = D!Exchanged(d, x, y)]
    <3>1. Deck(s0)' = D!Exchanged(d, x, y)
      BY <2>8, <2>12, Zenon
    <3> QED
      BY <2>13, <3>1 DEF Deal
  <2>15. Deal[s0] = d
    BY <2>8 DEF Deal
  <2>16. D!Exchange(s0, x, y)
    <3>1. x \in 2..Len(Deal[s0]) /\ y \in 2..Len(Deal[s0])
      BY <2>6, <2>9, <2>15, Zenon
    <3>2. Deal' = [Deal EXCEPT ![s0] = D!Exchanged(@, x, y)]
      BY <2>14, <2>15, Zenon
    <3> QED
      BY <3>1, <3>2, Zenon DEF D!Exchange, Deal, Deck
  <2>17. x \in 2..Len(Deal[s0]) /\ y \in 2..Len(Deal[s0])
    BY <2>6, <2>9, <2>15, Zenon
  <2> QED
    BY <2>16, <2>17, Zenon DEF D!Next, Deal, Deck
<1> QED
  BY <1>1, <1>2, TurnExchanges, Zenon

\* Every step does what Decks allows, or nothing to the decks.
LEMMA DealKept == LInv /\ LInv' /\ [Next]_vars => [D!Next]_Deal
<1> SUFFICES ASSUME LInv, LInv', [Next]_vars PROVE D!Next \/ UNCHANGED Deal
  OBVIOUS
<1>1. ASSUME head' = head, next' = next
      PROVE  UNCHANGED Deal
  BY <1>1, SameDeal, Zenon
<1>2. CASE Fill
  BY <1>2, FillPushes, Zenon
<1>3. CASE Filled \/ NextList
  BY <1>1, <1>3 DEF Filled, NextList
<1>4. ASSUME NEW j \in 0..N, Shuffle(j)
      PROVE  D!Next \/ UNCHANGED Deal
  BY <1>4, ShuffleExchanges, Zenon
<1>5. CASE UNCHANGED vars
  BY <1>1, <1>5 DEF vars
<1> QED
  BY <1>2, <1>3, <1>4, <1>5, Zenon DEF Next

\* init_lists does what Decks says, pointers and all: each block goes on top of the deck
\* of its set, and then two blocks of a deck change places, never its top
\* (lists.c:98-120), for any number of blocks and sets.
THEOREM ListsAreDecks == Spec => ImplementsDecks
<1>1. Init => D!Init
  BY DealBegins
<1>2. LInv /\ LInv' /\ [Next]_vars => [D!Next]_Deal
  BY DealKept
<1> QED
  BY <1>1, <1>2, ListsInvariant, PTL DEF Spec, ImplementsDecks, D!Spec, Deal, Deck

-----------------------------------------------------------------------------
\* Who frees a buffer: the first block of a list for the set all its blocks share, of
\* L2 <<2, s, 0>> and of L3 <<3, s, 0>>, and block k of a list of L3 for its own,
\* <<3, s, k>>.
Owner ==
  {<<2, s, 0>> : s \in DOMAIN lists.l2}
    \cup UNION {{<<3, s, k>> : k \in 0..Len(lists.l3[s])} : s \in L3}

\* The buffer of the set a list shares, and that of the own set of block k of list s.
HeadBuffer(chain) == IF chain = <<>> THEN NoBuffer ELSE evict1[chain[1]].buf
OwnBuffer(s, k) == evict2[lists.l3[s][k]].buf

\* The buffer of each owner, as main.c:839-846 and clean_l3_set look it up.
Buffers ==
  [o \in Owner |-> IF o[1] = 2 THEN HeadBuffer(lists.l2[o[2]])
                   ELSE IF o[3] = 0 THEN HeadBuffer(lists.l3[o[2]]) ELSE OwnBuffer(o[2], o[3])]

\* Those that have freed theirs.
Done ==
  {o \in Owner : IF o[1] = 2 THEN stage \in {"clean3", "gone"} \/ (stage = "clean2" /\ o[2] < row)
                 ELSE stage = "gone" \/ (stage = "clean3" /\ o[2] < row)}

\* The book on the buffers: owners F, those that are done Z, the buffers hp, lists excused X.
Apart(F) == \A o, p \in DOMAIN F : F[o] = F[p] => o = p \/ F[o] = NoBuffer

\* What an owner still has to free is not freed.
Pending(F, Z, hp) == \A o \in DOMAIN F : o \notin Z /\ F[o] # NoBuffer => hp[F[o]].freed = 0

\* Each buffer is freed, or somebody will free it, or it is excused.
Owed(F, Z, h) == \E o \in DOMAIN F : o \notin Z /\ F[o] = h

Accounted(F, Z, hp, X) ==
  \A h \in DOMAIN hp : hp[h].late \/ hp[h].list \in X \/ hp[h].freed = 1 \/ Owed(F, Z, h)

\* None is freed twice.
Once(hp) == \A h \in DOMAIN hp : hp[h].freed \in {0, 1}

\* The buffers are in the heap.
InHeap(F, hp) == \A o \in DOMAIN F : F[o] \in 0..Len(hp)

IsBuffer(r) == r = [slots |-> r.slots, freed |-> r.freed, list |-> r.list, late |-> r.late]
IsHeap(hp) == IsSeq(hp) /\ \A h \in DOMAIN hp : IsBuffer(hp[h])

Book(F, Z, hp, X) ==
  Apart(F) /\ InHeap(F, hp) /\ Pending(F, Z, hp) /\ Accounted(F, Z, hp, X) /\ Once(hp)

BookKept == Book(Buffers, Done, heap, raced \cup refused)

\* Places.
Lists3 == {s \in L3 : lists.l3[s] # <<>>}

Stages == {"init3", "init2", "loaded", "clean2", "clean3", "gone", "oops"}

\* The list under way is there.
Rows ==
  /\ row \in Nat \ {0}
  /\ stage \in {"init3", "clean3"} => row \in L3
  /\ stage \in {"init2", "clean2"} => row \in DOMAIN lists.l2

\* Init has been at a list of L3, of L2.
Passed3(s) == stage \notin {"init3", "oops"} \/ (stage = "init3" /\ s < row)
Passed2(s) == stage \notin {"init3", "init2", "oops"} \/ (stage = "init2" /\ s < row)

\* Init goes on past a list only if it has a block.
HeadsThere ==
  /\ \A s \in L3 : IF Passed3(s) THEN lists.l3[s] # <<>> ELSE HeadBuffer(lists.l3[s]) = NoBuffer
  /\ \A s \in DOMAIN lists.l2 :
       IF Passed2(s) THEN lists.l2[s] # <<>> ELSE HeadBuffer(lists.l2[s]) = NoBuffer

Entries == [buf : Nat, size : Nat]

\* The ranges of the variables.
Types ==
  /\ lists \in Arrangements /\ stage \in Stages
  /\ evict1 \in [Blocks -> Entries] /\ evict2 \in [Blocks -> Entries]
  /\ IsHeap(heap)
  /\ doing \in [Client -> {"idle", "check", "walk", "write", "use"}]
  /\ set \in [Client -> L3] /\ tmp \in [Client -> Nat \ {0}] /\ count \in [Client -> Nat]

\* Calls walk only after the load, and inside their list.
InWalk(c) == doing[c] \in {"walk", "write"}

InPlace ==
  /\ stage \in {"init3", "init2"} => \A c \in Client : doing[c] = "idle"
  /\ \A c \in Client : InWalk(c) => tmp[c] \in DOMAIN lists.l3[set[c]]

\* The buffers of a list are made for it.
MadeFor == \A s \in L3 : \A k \in DOMAIN lists.l3[s] :
  OwnBuffer(s, k) # NoBuffer => heap[OwnBuffer(s, k)].list = s

\* A list no two calls met in, and whose kmallocs all gave something: blocks that are
\* ahead of a walk, or all of a list that is not walked, have no buffer yet.
Ahead(c, k) == k > tmp[c] \/ (k = tmp[c] /\ doing[c] = "walk")

Alone(s) == \A c, d \in Walking(s) : c = d

AheadUnmade(s) ==
  \A c \in Walking(s) :
    /\ \A k \in DOMAIN lists.l3[s] : Ahead(c, k) => OwnBuffer(s, k) = NoBuffer
    /\ tmp[c] > 1 \/ doing[c] = "write" => OwnBuffer(s, 1) # NoBuffer

AllUnmade(s) ==
  Walking(s) = {} /\ OwnBuffer(s, 1) = NoBuffer => \A k \in DOMAIN lists.l3[s] : OwnBuffer(s, k) = NoBuffer

Steady(s) ==
  /\ s \notin raced => Alone(s)
  /\ s \notin raced \cup refused => AheadUnmade(s) /\ AllUnmade(s)

\* What a buffer has.
Written(hp, e, blocks, n) ==
  \A j \in 1..n : e.buf # NoBuffer /\ j \in DOMAIN hp[e.buf].slots /\ hp[e.buf].slots[j] = blocks[j]

Up == stage \in {"init3", "init2", "loaded"}

Unfreed == Up => \A h \in DOMAIN heap : heap[h].freed = 0

Top(s) == lists.l3[s][1]

\* kmalloc gave nothing only where nothing was wanted.
RefusedNone == refused \subseteq Lists3 /\ \A s \in refused : L2Set(Top(s)) = <<>>

\* Where nothing was wanted the sizes stay 0.
NoSizes == \A s \in Lists3 : L2Set(Top(s)) = <<>> =>
  \A k \in DOMAIN lists.l3[s] : evict2[lists.l3[s][k]].size = 0

\* The set of a block is written up, size and all.
Complete(b) == evict2[b].size = Len(L2Set(b)) /\ Written(heap, evict2[b], L2Set(b), Len(L2Set(b)))

\* A walk leaves complete sets behind, and has written what it counted.
Behind(s) ==
  \A c \in Walking(s) :
    /\ \A k \in DOMAIN lists.l3[s] : k < tmp[c] => Complete(lists.l3[s][k])
    /\ doing[c] = "write" => /\ OwnBuffer(s, tmp[c]) # NoBuffer
                             /\ Written(heap, evict2[Here(c)], L2Set(Here(c)), count[c])

\* A list that was walked and is not being walked is complete.
Finished(s) ==
  Walking(s) = {} /\ OwnBuffer(s, 1) # NoBuffer => \A k \in DOMAIN lists.l3[s] : Complete(lists.l3[s][k])

\* Code is generated only from such a list.
InUse(s) ==
  (\E c \in Client : doing[c] = "use" /\ set[c] = s) => Walking(s) = {} /\ OwnBuffer(s, 1) # NoBuffer

\* All this, until two calls meet in the walk or the module is unloaded.
Contents(s) ==
  Up /\ s \notin raced /\ L2Set(Top(s)) # <<>> => Behind(s) /\ Finished(s) /\ InUse(s)

\* All blocks of a list share what was found for its head.
Sharing(s) ==
  Up /\ Passed3(s) =>
    /\ \A k \in DOMAIN lists.l3[s] : evict1[lists.l3[s][k]] = evict1[Top(s)]
    /\ evict1[Top(s)].size = Len(L1Set(Top(s)))
    /\ Written(heap, evict1[Top(s)], L1Set(Top(s)), Len(L1Set(Top(s))))

\* What init_evictionsets, the calls and the clean-up keep while nothing was
\* dereferenced that is not there: the book and the walks; and what the sets are.
EInv ==
  /\ Types /\ Rows /\ HeadsThere /\ InPlace
  /\ BookKept /\ MadeFor /\ Unfreed
  /\ \A s \in Lists3 : Steady(s)

CInv == RefusedNone /\ NoSizes /\ \A s \in Lists3 : Contents(s) /\ Sharing(s)


\* A table over 1..n is a sequence of length n.
LEMMA TableLength ==
  ASSUME NEW n \in Nat, NEW V, NEW f \in [1..n -> V]
  PROVE  f \in Seq(V) /\ Len(f) = n
<1>1. f \in Seq(V)
  OBVIOUS
<1>2. Len(f) \in Nat /\ DOMAIN f = 1..Len(f)
  BY <1>1, LenProperties
<1>3. 1..Len(f) = 1..n
  BY <1>2
<1> QED BY <1>1, <1>2, <1>3

\* The places of a pool are finitely many.
LEMMA SpotsFinite ==
  ASSUME NEW pool, IsSeq(pool), \A s \in DOMAIN pool : IsSeq(pool[s])
  PROVE  IsFiniteSet(Spots(pool))
<1> DEFINE Row(q) == {<<q, k>> : k \in DOMAIN pool[q]}
<1>1. ASSUME NEW q \in DOMAIN pool
      PROVE  IsFiniteSet(Row(q))
  <2>1. PICK n \in Nat : DOMAIN pool[q] = 1..n
    BY <1>1, LenProperties DEF IsSeq
  <2>2. IsFiniteSet(1..n)
    BY FS_Interval
  <2>3. Row(q) = {q} \X (1..n)
    BY <2>1
  <2>4. IsFiniteSet({q})
    BY FS_Singleton
  <2>5. IsFiniteSet({q} \X (1..n))
    BY <2>2, <2>4, FS_Product
  <2> QED BY <2>3, <2>5, Zenon
<1>2. IsFiniteSet(DOMAIN pool)
  <2>1. PICK n \in Nat : DOMAIN pool = 1..n
    BY LenProperties DEF IsSeq
  <2> QED BY <2>1, FS_Interval
<1>3. IsFiniteSet({Row(q) : q \in DOMAIN pool})
  <2> DEFINE f == [q \in DOMAIN pool |-> Row(q)]
             R == {Row(q) : q \in DOMAIN pool}
  <2>1. f \in Surjection(DOMAIN pool, R)
    BY DEF Surjection
  <2> QED BY <1>2, <2>1, FS_Surjection
<1>4. \A x \in {Row(q) : q \in DOMAIN pool} : IsFiniteSet(x)
  BY <1>1
<1>5. IsFiniteSet(UNION {Row(q) : q \in DOMAIN pool})
  BY <1>3, <1>4, FS_UNION
<1> QED BY <1>5 DEF Spots

\* What is found in a pool is a sequence.
LEMMA FirstIsSeq ==
  ASSUME NEW pool, NEW spots, IsFiniteSet(spots), NEW cap \in Nat
  PROVE  IsSeq(First(pool, spots, cap))
<1> DEFINE turn(k) == CHOOSE p \in spots : Cardinality({q \in spots : Before(q, p)}) = k - 1
           n == Cardinality(spots)
           m == IF n < cap THEN n ELSE cap
           f == [k \in 1..m |-> pool[turn(k)[1]][turn(k)[2]]]
<1>1. m \in Nat
  BY FS_CardinalityType
<1>2. f = First(pool, spots, cap)
  BY Zenon DEF First
<1>3. DOMAIN f = 1..m
  BY Zenon
<1> HIDE DEF f, m
<1>4. f \in [1..m -> Members(f)]
  <2>1. f = [k \in 1..m |-> f[k]]
    BY SMT DEF f
  <2>2. \A k \in 1..m : f[k] \in Members(f)
    BY <1>3 DEF Members
  <2> QED BY <2>1, <2>2
<1>5. f \in Seq(Members(f))
  BY <1>1, <1>4, TableLength
<1> QED BY <1>2, <1>5, Zenon DEF IsSeq

\* The lists are sequences of sequences.
LEMMA Arrangement ==
  ASSUME lists \in Arrangements
  PROVE  /\ \A l \in {"l1", "l2", "l3"} : IsSeq(lists[l]) /\ \A s \in DOMAIN lists[l] : IsSeq(lists[l][s])
         /\ lists.l2 # <<>> /\ lists.l3 # <<>>
BY EvictionSetsAssumption, Zenon DEF Arranged

\* So are the eviction sets of a block.
LEMMA SetsAreSeqs ==
  ASSUME lists \in Arrangements, NEW b
  PROVE  IsSeq(L1Set(b)) /\ IsSeq(L2Set(b))
<1>1. IsFiniteSet(Spots(lists.l1)) /\ IsFiniteSet(Spots(lists.l2))
  BY Arrangement, SpotsFinite, Zenon
<1>2. IsFiniteSet({p \in Spots(lists.l1) : Evicts1(b, lists.l1[p[1]][p[2]])})
  BY <1>1, FS_Subset
<1>3. IsFiniteSet({p \in Spots(lists.l2) : Evicts2(b, lists.l2[p[1]][p[2]])})
  BY <1>1, FS_Subset
<1>4. Cap1 \in Nat /\ Cap2 \in Nat
  BY EvictionSetsAssumption
<1> QED BY <1>2, <1>3, <1>4, FirstIsSeq, Zenon DEF L1Set, L2Set

\* Length and domain of a sequence.
LEMMA SeqFacts ==
  ASSUME NEW f, IsSeq(f)
  PROVE  /\ Len(f) \in Nat /\ DOMAIN f = 1..Len(f)
         /\ f = <<>> <=> Len(f) = 0
<1>1. Len(f) \in Nat /\ DOMAIN f = 1..Len(f)
  BY LenProperties DEF IsSeq
<1>2. f = <<>> => Len(f) = 0
  OBVIOUS
<1>3. Len(f) = 0 => f = <<>>
  BY EmptySeq, IsSeq(f) DEF IsSeq
<1> QED BY <1>1, <1>2, <1>3

\* The sizes of eviction sets.
LEMMA LengthsNat ==
  ASSUME lists \in Arrangements, NEW b
  PROVE  Len(L1Set(b)) \in Nat /\ Len(L2Set(b)) \in Nat /\ (L2Set(b) = <<>> <=> Len(L2Set(b)) = 0)
BY SetsAreSeqs, SeqFacts, Zenon

\* Congruent blocks have the same eviction sets.
LEMMA CongruentSets ==
  ASSUME NEW b, NEW x, Loc(b) = Loc(x)
  PROVE  L1Set(b) = L1Set(x) /\ L2Set(b) = L2Set(x)
<1>1. b.set3 = x.set3
  BY DEF Loc
<1>2. Set1(b) = Set1(x) /\ Set2(b) = Set2(x)
  BY <1>1 DEF Set1, Set2
<1>3. \A y : (Evicts1(b, y) <=> Evicts1(x, y)) /\ (Evicts2(b, y) <=> Evicts2(x, y))
  BY <1>2, Zenon DEF Evicts1, Evicts2
<1>4. {p \in Spots(lists.l1) : Evicts1(b, lists.l1[p[1]][p[2]])} = {p \in Spots(lists.l1) : Evicts1(x, lists.l1[p[1]][p[2]])}
  BY <1>3
<1>5. {p \in Spots(lists.l2) : Evicts2(b, lists.l2[p[1]][p[2]])} = {p \in Spots(lists.l2) : Evicts2(x, lists.l2[p[1]][p[2]])}
  BY <1>3
<1> QED BY <1>4, <1>5, Zenon DEF L1Set, L2Set

\* The buffers are numbered from 1.
LEMMA HeapDomain ==
  ASSUME NEW hp, IsHeap(hp)
  PROVE  Len(hp) \in Nat /\ DOMAIN hp = 1..Len(hp)
BY SeqFacts, Zenon DEF IsHeap

\* A buffer more.
LEMMA HeapAppended ==
  ASSUME NEW hp, IsHeap(hp), NEW r, IsBuffer(r), NEW hq, hq = Append(hp, r)
  PROVE  /\ IsHeap(hq) /\ Len(hq) = Len(hp) + 1 /\ DOMAIN hq = 1..Len(hp) + 1
         /\ \A h \in DOMAIN hp : hq[h] = hp[h]
         /\ hq[Len(hp) + 1] = r
<1> DEFINE V == Members(hp) \cup {r}
<1>0. Len(hp) \in Nat /\ DOMAIN hp = 1..Len(hp)
  BY HeapDomain
<1>1. hp \in Seq(V)
  <2>1. hp \in Seq(Members(hp)) /\ Members(hp) \subseteq V
    BY DEF IsHeap, IsSeq
  <2> HIDE DEF V
  <2> QED BY <2>1, SeqMonotonic, Zenon
<1>2. r \in V
  OBVIOUS
<1> HIDE DEF V
<1>3. /\ hq \in Seq(V) /\ Len(hq) = Len(hp) + 1
      /\ \A q \in 1..Len(hp) : hq[q] = hp[q]
      /\ hq[Len(hp) + 1] = r
  BY <1>1, <1>2, AppendProperties, Zenon
<1>4. DOMAIN hq = 1..Len(hq) /\ hq \in [1..Len(hq) -> V]
  BY <1>3, LenProperties, Zenon
<1>5. \A h \in DOMAIN hq : IsBuffer(hq[h])
  <2>1. \A h \in DOMAIN hq : h = Len(hp) + 1 \/ h \in 1..Len(hp)
    BY <1>0, <1>3, <1>4
  <2>2. \A h \in DOMAIN hp : IsBuffer(hp[h])
    BY DEF IsHeap
  <2> QED BY <2>1, <2>2, <1>0, <1>3, Zenon
<1>6. hq \in [1..Len(hq) -> Members(hq)]
  BY <1>4 DEF Members
<1>7. IsSeq(hq)
  <2>1. Len(hq) \in Nat
    BY <1>0, <1>3
  <2> QED BY <1>6, <2>1, TableLength, Zenon DEF IsSeq
<1> QED BY <1>0, <1>3, <1>4, <1>5, <1>7, Zenon DEF IsHeap

\* The heap with other entries, as many.
LEMMA HeapChanged ==
  ASSUME NEW hp, IsHeap(hp), NEW hq, hq = [h \in DOMAIN hp |-> hq[h]],
         \A h \in DOMAIN hp : IsBuffer(hq[h])
  PROVE  IsHeap(hq) /\ Len(hq) = Len(hp) /\ DOMAIN hq = DOMAIN hp
<1>1. Len(hp) \in Nat /\ DOMAIN hp = 1..Len(hp)
  BY HeapDomain
<1>2. hq \in [1..Len(hp) -> Members(hq)]
  BY <1>1 DEF Members
<1>3. hq \in Seq(Members(hq)) /\ Len(hq) = Len(hp)
  BY <1>1, <1>2, TableLength
<1>4. DOMAIN hq = DOMAIN hp
  BY <1>1, <1>2
<1> QED BY <1>3, <1>4, Zenon DEF IsHeap, IsSeq

\* An owner gets a new buffer.
LEMMA BookMade ==
  ASSUME NEW O, NEW F \in [O -> Nat], NEW Z, NEW hp, NEW X, Book(F, Z, hp, X), IsHeap(hp),
         NEW r, IsBuffer(r), NEW hq, hq = Append(hp, r), r.freed = 0,
         NEW o \in O, o \in Z => r.late,
         F[o] # NoBuffer => hp[F[o]].list \in X,
         NEW G, G = [F EXCEPT ![o] = Len(hp) + 1]
  PROVE  Book(G, Z, hq, X)
<1>0. Len(hp) \in Nat /\ DOMAIN hp = 1..Len(hp) /\ DOMAIN F = O /\ DOMAIN G = O
  BY HeapDomain
<1>1. /\ IsHeap(hq) /\ Len(hq) = Len(hp) + 1 /\ DOMAIN hq = 1..Len(hp) + 1
      /\ \A h \in DOMAIN hp : hq[h] = hp[h]
      /\ hq[Len(hp) + 1] = r
  <2>1. IsHeap(hq) /\ Len(hq) = Len(hp) + 1 /\ DOMAIN hq = 1..Len(hp) + 1
    BY HeapAppended, Zenon
  <2>2. \A h \in DOMAIN hp : hq[h] = hp[h]
    BY HeapAppended
  <2>3. hq[Len(hp) + 1] = r
    BY HeapAppended
  <2> QED BY <2>1, <2>2, <2>3
<1>2. G[o] = Len(hp) + 1 /\ \A p \in O : p # o => G[p] = F[p]
  OBVIOUS
<1>3. Apart(G) /\ InHeap(G, hq)
  BY <1>0, <1>1, <1>2 DEF Book, Apart, InHeap
<1>4. Pending(G, Z, hq)
  <2> SUFFICES ASSUME NEW p \in O, p \notin Z, G[p] # NoBuffer
               PROVE  hq[G[p]].freed = 0
    BY <1>0, Zenon DEF Pending
  <2>1. CASE p = o
    BY <2>1, <1>1, <1>2, Zenon
  <2>2. CASE p # o
    BY <2>2, <1>0, <1>1, <1>2 DEF Book, Pending, InHeap, NoBuffer
  <2> QED BY <2>1, <2>2
<1>5. Accounted(G, Z, hq, X)
  <2> SUFFICES ASSUME NEW h \in DOMAIN hq
               PROVE  hq[h].late \/ hq[h].list \in X \/ hq[h].freed = 1 \/ Owed(G, Z, h)
    BY Zenon DEF Accounted
  <2>1. CASE h = Len(hp) + 1
    <3>1. CASE o \in Z
      BY <2>1, <3>1, <1>1, Zenon
    <3>2. CASE o \notin Z
      BY <2>1, <3>2, <1>0, <1>2, Zenon DEF Owed
    <3> QED BY <3>1, <3>2
  <2>2. CASE h \in DOMAIN hp
    <3>1. hq[h] = hp[h] /\ h # NoBuffer
      BY <2>2, <1>0, <1>1 DEF NoBuffer
    <3>2. CASE Owed(F, Z, h)
      <4>1. PICK p \in O : p \notin Z /\ F[p] = h
        BY <3>2, <1>0, Zenon DEF Owed
      <4>2. CASE p = o
        BY <4>1, <4>2, <3>1, Zenon
      <4>3. CASE p # o
        BY <4>1, <4>3, <1>0, <1>2, Zenon DEF Owed
      <4> QED BY <4>2, <4>3
    <3> QED BY <2>2, <3>1, <3>2, Zenon DEF Book, Accounted
  <2> QED BY <1>0, <1>1, <2>1, <2>2
<1>6. Once(hq)
  <2>1. \A h \in DOMAIN hq : h \in DOMAIN hp \/ h = Len(hp) + 1
    BY <1>0, <1>1
  <2>2. Once(hp)
    BY DEF Book
  <2> QED BY <1>1, <2>1, <2>2 DEF Once
<1> QED BY <1>3, <1>4, <1>5, <1>6, Zenon DEF Book

\* An owner gets none.
LEMMA BookNone ==
  ASSUME NEW O, NEW F \in [O -> Nat], NEW Z, NEW hp, NEW X, Book(F, Z, hp, X), IsHeap(hp),
         NEW o \in O, F[o] # NoBuffer => hp[F[o]].list \in X,
         NEW G, G = [F EXCEPT ![o] = NoBuffer]
  PROVE  Book(G, Z, hp, X)
<1>0. Len(hp) \in Nat /\ DOMAIN hp = 1..Len(hp) /\ DOMAIN F = O /\ DOMAIN G = O
  BY HeapDomain
<1>2. G[o] = NoBuffer /\ \A p \in O : p # o => G[p] = F[p]
  OBVIOUS
<1>3. Apart(G) /\ InHeap(G, hp)
  BY <1>0, <1>2 DEF Book, Apart, InHeap, NoBuffer
<1>4. Pending(G, Z, hp)
  BY <1>0, <1>2 DEF Book, Pending
<1>5. Accounted(G, Z, hp, X)
  <2> SUFFICES ASSUME NEW h \in DOMAIN hp
               PROVE  hp[h].late \/ hp[h].list \in X \/ hp[h].freed = 1 \/ Owed(G, Z, h)
    BY Zenon DEF Accounted
  <2>1. h # NoBuffer
    BY <1>0 DEF NoBuffer
  <2>2. CASE Owed(F, Z, h)
    <3>1. PICK p \in O : p \notin Z /\ F[p] = h
      BY <2>2, <1>0, Zenon DEF Owed
    <3>2. CASE p = o
      BY <3>1, <3>2, <2>1, Zenon
    <3>3. CASE p # o
      BY <3>1, <3>3, <1>0, <1>2, Zenon DEF Owed
    <3> QED BY <3>2, <3>3
  <2> QED BY <2>2, Zenon DEF Book, Accounted
<1> QED BY <1>3, <1>4, <1>5, Zenon DEF Book

\* More lists are excused.
LEMMA BookExcuses ==
  ASSUME NEW F, NEW Z, NEW hp, NEW X, NEW Y, X \subseteq Y, Book(F, Z, hp, X)
  PROVE  Book(F, Z, hp, Y)
BY DEF Book, Accounted

\* What the buffers contain does not matter.
LEMMA BookContents ==
  ASSUME NEW F, NEW Z, NEW hp, NEW X, Book(F, Z, hp, X), IsHeap(hp),
         NEW hq, Len(hq) = Len(hp), DOMAIN hq = DOMAIN hp,
         \A h \in DOMAIN hp : hq[h].freed = hp[h].freed /\ hq[h].list = hp[h].list /\ hq[h].late = hp[h].late
  PROVE  Book(F, Z, hq, X)
<1>1. Len(hp) \in Nat /\ DOMAIN hp = 1..Len(hp)
  BY HeapDomain
<1>2. InHeap(F, hq) /\ Once(hq) /\ Accounted(F, Z, hq, X)
  BY DEF Book, InHeap, Once, Accounted
<1>3. Pending(F, Z, hq)
  BY <1>1 DEF Book, InHeap, Pending, NoBuffer
<1> QED BY <1>2, <1>3 DEF Book

\* Owners E free what they have, and nothing else happens.
FreedBy(F, E, hp, hq) ==
  /\ Len(hq) = Len(hp) /\ DOMAIN hq = DOMAIN hp
  /\ \A h \in DOMAIN hp :
       /\ hq[h].list = hp[h].list /\ hq[h].late = hp[h].late
       /\ (\E e \in E : F[e] = h) => hq[h].freed = hp[h].freed + 1
       /\ ~(\E e \in E : F[e] = h) => hq[h].freed = hp[h].freed

\* They had not freed theirs.
NotYetOwed(E, Z) == \A e \in E : e \notin Z

\* The book after some owners freed theirs.
LEMMA BookFreed ==
  ASSUME NEW O, NEW F \in [O -> Nat], NEW Z, NEW hp, NEW X, Book(F, Z, hp, X), IsHeap(hp),
         NEW E, E \subseteq O, NotYetOwed(E, Z),
         NEW hq, FreedBy(F, E, hp, hq),
         NEW ZZ, ZZ = Z \cup E
  PROVE  Book(F, ZZ, hq, X)
<1> USE DEF FreedBy, NotYetOwed
<1>0. Len(hp) \in Nat /\ DOMAIN hp = 1..Len(hp) /\ DOMAIN F = O
  BY HeapDomain
<1>1. \A h \in DOMAIN hp : h # NoBuffer
  BY <1>0 DEF NoBuffer
<1>2. ASSUME NEW h \in DOMAIN hp, NEW e \in E, F[e] = h
      PROVE  hp[h].freed = 0 /\ hq[h].freed = 1
  <2>1. hp[h].freed = 0
    BY <1>0, <1>1, <1>2, Zenon DEF Book, Pending
  <2>2. hq[h].freed = hp[h].freed + 1
    BY <1>2, Zenon
  <2> QED BY <2>1, <2>2
<1>3. Apart(F) /\ InHeap(F, hq)
  BY DEF Book, InHeap
<1>4. Pending(F, Z \cup E, hq)
  <2> SUFFICES ASSUME NEW p \in O, p \notin Z, p \notin E, F[p] # NoBuffer
               PROVE  hq[F[p]].freed = 0
    BY <1>0, Zenon DEF Pending
  <2>1. hp[F[p]].freed = 0
    BY <1>0, Zenon DEF Book, Pending
  <2>2. F[p] \in DOMAIN hp
    BY <1>0 DEF Book, InHeap, NoBuffer
  <2>3. ~\E e \in E : F[e] = F[p]
    BY <1>0, Zenon DEF Book, Apart
  <2> QED BY <2>1, <2>2, <2>3, Zenon
<1>5. Accounted(F, Z \cup E, hq, X)
  <2> SUFFICES ASSUME NEW h \in DOMAIN hp
               PROVE  hq[h].late \/ hq[h].list \in X \/ hq[h].freed = 1 \/ Owed(F, Z \cup E, h)
    BY Zenon DEF Accounted
  <2>1. CASE \E e \in E : F[e] = h
    BY <2>1, <1>2, Zenon
  <2>2. CASE ~\E e \in E : F[e] = h
    <3>1. Owed(F, Z, h) => Owed(F, Z \cup E, h)
      BY <2>2, <1>0, Zenon DEF Owed
    <3>2. hq[h].freed = hp[h].freed
      BY <2>2, Zenon
    <3> QED BY <3>1, <3>2, Zenon DEF Book, Accounted
  <2> QED BY <2>1, <2>2
<1>6. Once(hq)
  <2> SUFFICES ASSUME NEW h \in DOMAIN hp PROVE hq[h].freed \in {0, 1}
    BY Zenon DEF Once
  <2>1. hp[h].freed \in {0, 1}
    BY Zenon DEF Book, Once
  <2> QED BY <2>1, <1>2, Zenon
<1> QED BY <1>3, <1>4, <1>5, <1>6 DEF Book

\* kfree of some buffers, none of them twice.
Twice(bufs, h) == \E j, k \in DOMAIN bufs : bufs[j] = h /\ bufs[k] = h /\ j # k

Times(bufs, h) == Cardinality({k \in DOMAIN bufs : bufs[k] = h})

\* Then each of them is freed one time more.
LEMMA FreedEach ==
  ASSUME NEW bufs, NEW h, ~Twice(bufs, h)
  PROVE  Times(bufs, h) = IF h \in Members(bufs) THEN 1 ELSE 0
<1> DEFINE K == {k \in DOMAIN bufs : bufs[k] = h}
<1>1. CASE h \in Members(bufs)
  <2>1. PICK k \in DOMAIN bufs : bufs[k] = h
    BY <1>1 DEF Members
  <2>2. K = {k}
    BY <2>1 DEF Twice
  <2>3. Cardinality(K) = 1
    BY <2>2, FS_Singleton, Zenon
  <2> QED BY <1>1, <2>3, Zenon DEF Times
<1>2. CASE h \notin Members(bufs)
  <2>1. K = {}
    BY <1>2 DEF Members
  <2>2. Cardinality(K) = 0
    BY <2>1, FS_EmptySet, Zenon
  <2> QED BY <1>2, <2>2, Zenon DEF Times
<1> QED BY <1>1, <1>2

\* Lengths and domains of the lists.
LEMMA PlaceFacts ==
  ASSUME lists \in Arrangements
  PROVE  /\ Len(lists.l2) \in Nat \ {0} /\ DOMAIN lists.l2 = 1..Len(lists.l2)
         /\ Len(lists.l3) \in Nat \ {0} /\ L3 = 1..Len(lists.l3)
         /\ \A s \in DOMAIN lists.l2 : /\ Len(lists.l2[s]) \in Nat
                                       /\ DOMAIN lists.l2[s] = 1..Len(lists.l2[s])
                                       /\ lists.l2[s] # <<>> <=> 1 \in DOMAIN lists.l2[s]
         /\ \A s \in L3 : /\ Len(lists.l3[s]) \in Nat
                          /\ DOMAIN lists.l3[s] = 1..Len(lists.l3[s])
                          /\ lists.l3[s] # <<>> <=> 1 \in DOMAIN lists.l3[s]
<1>1. ASSUME NEW f, IsSeq(f)
      PROVE  /\ Len(f) \in Nat /\ DOMAIN f = 1..Len(f)
             /\ f # <<>> <=> 1 \in DOMAIN f
             /\ f # <<>> <=> Len(f) # 0
  BY <1>1, SeqFacts
<1>2. IsSeq(lists.l2) /\ IsSeq(lists.l3) /\ lists.l2 # <<>> /\ lists.l3 # <<>>
  BY Arrangement, Zenon
<1>3. \A s \in DOMAIN lists.l2 : IsSeq(lists.l2[s])
  BY Arrangement, Zenon
<1>4. \A s \in DOMAIN lists.l3 : IsSeq(lists.l3[s])
  BY Arrangement, Zenon
<1>5. Len(lists.l2) \in Nat \ {0} /\ DOMAIN lists.l2 = 1..Len(lists.l2)
  BY <1>1, <1>2
<1>6. Len(lists.l3) \in Nat \ {0} /\ L3 = 1..Len(lists.l3)
  BY <1>1, <1>2 DEF L3
<1>7. \A s \in DOMAIN lists.l2 : /\ Len(lists.l2[s]) \in Nat
                                 /\ DOMAIN lists.l2[s] = 1..Len(lists.l2[s])
                                 /\ lists.l2[s] # <<>> <=> 1 \in DOMAIN lists.l2[s]
  BY <1>1, <1>3, Zenon
<1>8. \A s \in L3 : /\ Len(lists.l3[s]) \in Nat
                    /\ DOMAIN lists.l3[s] = 1..Len(lists.l3[s])
                    /\ lists.l3[s] # <<>> <=> 1 \in DOMAIN lists.l3[s]
  BY <1>1, <1>4, Zenon DEF L3
<1> QED BY <1>5, <1>6, <1>7, <1>8, Zenon

\* The blocks of the lists have eviction sets.
LEMMA InBlocks ==
  /\ \A s \in DOMAIN lists.l2 : \A k \in DOMAIN lists.l2[s] : lists.l2[s][k] \in Blocks
  /\ \A s \in L3 : \A k \in DOMAIN lists.l3[s] : lists.l3[s][k] \in Blocks
BY DEF Blocks, L3, Members

\* A block is in one place.
LEMMA OnePlace ==
  ASSUME lists \in Arrangements
  PROVE  /\ \A s, t \in L3 : \A j \in DOMAIN lists.l3[s], k \in DOMAIN lists.l3[t] :
              lists.l3[s][j] = lists.l3[t][k] => s = t /\ j = k
         /\ \A s, t \in DOMAIN lists.l2 : \A j \in DOMAIN lists.l2[s], k \in DOMAIN lists.l2[t] :
              lists.l2[s][j] = lists.l2[t][k] => s = t /\ j = k
         /\ \A s \in DOMAIN lists.l2, t \in L3 : \A j \in DOMAIN lists.l2[s], k \in DOMAIN lists.l3[t] :
              lists.l2[s][j] # lists.l3[t][k]
<1>1. \A l, m \in {"l2", "l3"} : \A s \in DOMAIN lists[l], t \in DOMAIN lists[m] :
        \A j \in DOMAIN lists[l][s], k \in DOMAIN lists[m][t] :
          lists[l][s][j] = lists[m][t][k] => l = m /\ s = t /\ j = k
  BY EvictionSetsAssumption, Zenon DEF Arranged
<1>2. \A s, t \in L3 : \A j \in DOMAIN lists.l3[s], k \in DOMAIN lists.l3[t] :
        lists.l3[s][j] = lists.l3[t][k] => s = t /\ j = k
  BY <1>1 DEF L3
<1>3. \A s, t \in DOMAIN lists.l2 : \A j \in DOMAIN lists.l2[s], k \in DOMAIN lists.l2[t] :
        lists.l2[s][j] = lists.l2[t][k] => s = t /\ j = k
  BY <1>1
<1>4. \A s \in DOMAIN lists.l2, t \in L3 : \A j \in DOMAIN lists.l2[s], k \in DOMAIN lists.l3[t] :
        lists.l2[s][j] # lists.l3[t][k]
  <2>1. "l2" # "l3"
    OBVIOUS
  <2> QED BY <1>1, <2>1, Zenon DEF L3
<1> QED BY <1>2, <1>3, <1>4, Zenon

\* The blocks of a list of L3 are congruent.
LEMMA Congruent ==
  ASSUME lists \in Arrangements, NEW s \in L3, NEW j \in DOMAIN lists.l3[s], NEW k \in DOMAIN lists.l3[s]
  PROVE  /\ L1Set(lists.l3[s][j]) = L1Set(lists.l3[s][k])
         /\ L2Set(lists.l3[s][j]) = L2Set(lists.l3[s][k])
<1>1. Loc(lists.l3[s][j]) = Loc(lists.l3[s][k])
  BY EvictionSetsAssumption DEF Arranged, L3
<1> QED BY <1>1, CongruentSets, Zenon

\* Who owns, and what.
LEMMA Owners ==
  ASSUME lists \in Arrangements
  PROVE  /\ \A s \in DOMAIN lists.l2 : <<2, s, 0>> \in Owner /\ Buffers[<<2, s, 0>>] = HeadBuffer(lists.l2[s])
         /\ \A s \in L3 : <<3, s, 0>> \in Owner /\ Buffers[<<3, s, 0>>] = HeadBuffer(lists.l3[s])
         /\ \A s \in L3 : \A k \in DOMAIN lists.l3[s] :
              <<3, s, k>> \in Owner /\ Buffers[<<3, s, k>>] = OwnBuffer(s, k)
         /\ \A o \in Owner :
              \/ \E s \in DOMAIN lists.l2 : o = <<2, s, 0>>
              \/ \E s \in L3 : o = <<3, s, 0>>
              \/ \E s \in L3 : \E k \in DOMAIN lists.l3[s] : o = <<3, s, k>>
<1>0. \A s \in L3 : Len(lists.l3[s]) \in Nat /\ DOMAIN lists.l3[s] = 1..Len(lists.l3[s])
  BY PlaceFacts, Zenon
<1>1. \A s \in DOMAIN lists.l2 : <<2, s, 0>> \in Owner
  BY DEF Owner
<1>2. \A s \in L3 : <<3, s, 0>> \in Owner
  BY <1>0 DEF Owner
<1>3. \A s \in L3 : \A k \in DOMAIN lists.l3[s] : <<3, s, k>> \in Owner
  BY <1>0 DEF Owner
<1>4. \A o \in Owner :
        \/ \E s \in DOMAIN lists.l2 : o = <<2, s, 0>>
        \/ \E s \in L3 : o = <<3, s, 0>>
        \/ \E s \in L3 : \E k \in DOMAIN lists.l3[s] : o = <<3, s, k>>
  <2> SUFFICES ASSUME NEW o \in Owner, NEW s \in L3, NEW k \in 0..Len(lists.l3[s]), o = <<3, s, k>>
               PROVE  \/ \E t \in L3 : o = <<3, t, 0>>
                      \/ \E t \in L3 : \E j \in DOMAIN lists.l3[t] : o = <<3, t, j>>
    BY DEF Owner
  <2>1. k = 0 \/ k \in DOMAIN lists.l3[s]
    BY <1>0
  <2> QED BY <2>1, Zenon
<1>5. \A s \in DOMAIN lists.l2 : Buffers[<<2, s, 0>>] = HeadBuffer(lists.l2[s])
  <2> SUFFICES ASSUME NEW s \in DOMAIN lists.l2 PROVE Buffers[<<2, s, 0>>] = HeadBuffer(lists.l2[s])
    OBVIOUS
  <2>1. <<2, s, 0>>[1] = 2 /\ <<2, s, 0>>[2] = s
    OBVIOUS
  <2> QED BY <1>1, <2>1, Zenon DEF Buffers
<1>6. \A s \in L3 : Buffers[<<3, s, 0>>] = HeadBuffer(lists.l3[s])
  <2> SUFFICES ASSUME NEW s \in L3 PROVE Buffers[<<3, s, 0>>] = HeadBuffer(lists.l3[s])
    OBVIOUS
  <2>1. <<3, s, 0>>[1] # 2 /\ <<3, s, 0>>[2] = s /\ <<3, s, 0>>[3] = 0
    OBVIOUS
  <2> QED BY <1>2, <2>1, Zenon DEF Buffers
<1>7. \A s \in L3 : \A k \in DOMAIN lists.l3[s] : Buffers[<<3, s, k>>] = OwnBuffer(s, k)
  <2> SUFFICES ASSUME NEW s \in L3, NEW k \in DOMAIN lists.l3[s] PROVE Buffers[<<3, s, k>>] = OwnBuffer(s, k)
    OBVIOUS
  <2>1. <<3, s, k>>[1] # 2 /\ <<3, s, k>>[2] = s /\ <<3, s, k>>[3] = k /\ k # 0
    BY <1>0
  <2> QED BY <1>3, <2>1, Zenon DEF Buffers
<1> QED BY <1>1, <1>2, <1>3, <1>4, <1>5, <1>6, <1>7, Zenon

\* Buffers are numbers.
LEMMA HeadBufferNat ==
  ASSUME Types, NEW chain, chain = <<>> \/ chain[1] \in Blocks
  PROVE  HeadBuffer(chain) \in Nat
BY DEF Types, Entries, HeadBuffer, NoBuffer

LEMMA OwnBufferNat ==
  ASSUME Types, NEW s \in L3, NEW k \in DOMAIN lists.l3[s]
  PROVE  OwnBuffer(s, k) \in Nat
BY InBlocks DEF Types, Entries, OwnBuffer

LEMMA BuffersTyped == Types => Buffers \in [Owner -> Nat]
<1> SUFFICES ASSUME Types PROVE \A o \in Owner : Buffers[o] \in Nat
  BY DEF Buffers
<1>0. lists \in Arrangements
  BY DEF Types
<1>1. \A s \in DOMAIN lists.l2 : Buffers[<<2, s, 0>>] \in Nat
  BY <1>0, Owners, InBlocks, PlaceFacts, HeadBufferNat, Zenon
<1>2. \A s \in L3 : Buffers[<<3, s, 0>>] \in Nat
  BY <1>0, Owners, InBlocks, PlaceFacts, HeadBufferNat, Zenon
<1>3. \A s \in L3 : \A k \in DOMAIN lists.l3[s] : Buffers[<<3, s, k>>] \in Nat
  BY <1>0, Owners, OwnBufferNat, Zenon
<1> QED BY <1>0, <1>1, <1>2, <1>3, Owners, Zenon

\* The arrangement stays.
LEMMA Arrangement_Stays ==
  ASSUME lists' = lists
  PROVE  /\ Blocks' = Blocks /\ L3' = L3 /\ Owner' = Owner /\ Lists3' = Lists3
         /\ \A b : L1Set(b)' = L1Set(b) /\ L2Set(b)' = L2Set(b)
         /\ \A s : Top(s)' = Top(s)
<1>1. Blocks' = Blocks /\ L3' = L3
  BY DEF Blocks, L3
<1>2. Owner' = Owner /\ Lists3' = Lists3
  BY <1>1 DEF Owner, Lists3
<1>3. \A b : L1Set(b)' = L1Set(b) /\ L2Set(b)' = L2Set(b)
  BY DEF L1Set, L2Set
<1>4. \A s : Top(s)' = Top(s)
  BY DEF Top
<1> QED BY <1>1, <1>2, <1>3, <1>4, Zenon

LEMMA BuffersTable == DOMAIN Buffers = Owner /\ Buffers = [o \in Owner |-> Buffers[o]]
BY DEF Buffers

\* Who owns what after a step.
LEMMA OwnersThen ==
  lists' \in Arrangements =>
    /\ \A s \in DOMAIN lists'.l2 : Buffers'[<<2, s, 0>>] = HeadBuffer(lists.l2[s])'
    /\ \A s \in L3' : Buffers'[<<3, s, 0>>] = HeadBuffer(lists.l3[s])'
    /\ \A s \in L3' : \A k \in DOMAIN lists'.l3[s] : Buffers'[<<3, s, k>>] = OwnBuffer(s, k)'
<1>1. lists \in Arrangements =>
        /\ \A s \in DOMAIN lists.l2 : Buffers[<<2, s, 0>>] = HeadBuffer(lists.l2[s])
        /\ \A s \in L3 : Buffers[<<3, s, 0>>] = HeadBuffer(lists.l3[s])
        /\ \A s \in L3 : \A k \in DOMAIN lists.l3[s] : Buffers[<<3, s, k>>] = OwnBuffer(s, k)
  BY Owners, Zenon
<1>2. (lists \in Arrangements =>
         /\ \A s \in DOMAIN lists.l2 : Buffers[<<2, s, 0>>] = HeadBuffer(lists.l2[s])
         /\ \A s \in L3 : Buffers[<<3, s, 0>>] = HeadBuffer(lists.l3[s])
         /\ \A s \in L3 : \A k \in DOMAIN lists.l3[s] : Buffers[<<3, s, k>>] = OwnBuffer(s, k))'
  BY <1>1, PTL
<1> QED BY <1>2

\* One owner's buffer changes.
LEMMA OneBuffer ==
  ASSUME lists \in Arrangements, lists' = lists, NEW o \in Owner, NEW v,
         \A s \in DOMAIN lists.l2 : <<2, s, 0>> # o => HeadBuffer(lists.l2[s])' = HeadBuffer(lists.l2[s]),
         \A s \in L3 : <<3, s, 0>> # o => HeadBuffer(lists.l3[s])' = HeadBuffer(lists.l3[s]),
         \A s \in L3 : \A k \in DOMAIN lists.l3[s] : <<3, s, k>> # o => OwnBuffer(s, k)' = OwnBuffer(s, k),
         Buffers'[o] = v
  PROVE  Buffers' = [Buffers EXCEPT ![o] = v]
<1>0. Owner' = Owner /\ L3' = L3 /\ lists' \in Arrangements
  BY Arrangement_Stays, Zenon
<1>1. /\ \A s \in DOMAIN lists.l2 : Buffers'[<<2, s, 0>>] = HeadBuffer(lists.l2[s])'
      /\ \A s \in L3 : Buffers'[<<3, s, 0>>] = HeadBuffer(lists.l3[s])'
      /\ \A s \in L3 : \A k \in DOMAIN lists.l3[s] : Buffers'[<<3, s, k>>] = OwnBuffer(s, k)'
  BY <1>0, OwnersThen
<1>2. \A p \in Owner : p # o => Buffers'[p] = Buffers[p]
  <2>1. \A s \in DOMAIN lists.l2 : <<2, s, 0>> # o => Buffers'[<<2, s, 0>>] = Buffers[<<2, s, 0>>]
    BY <1>1, Owners, Zenon
  <2>2. \A s \in L3 : <<3, s, 0>> # o => Buffers'[<<3, s, 0>>] = Buffers[<<3, s, 0>>]
    BY <1>1, Owners, Zenon
  <2>3. \A s \in L3 : \A k \in DOMAIN lists.l3[s] :
          <<3, s, k>> # o => Buffers'[<<3, s, k>>] = Buffers[<<3, s, k>>]
    BY <1>1, Owners
  <2>4. \A p \in Owner :
          \/ \E s \in DOMAIN lists.l2 : p = <<2, s, 0>>
          \/ \E s \in L3 : p = <<3, s, 0>>
          \/ \E s \in L3 : \E k \in DOMAIN lists.l3[s] : p = <<3, s, k>>
    BY Owners, Zenon
  <2> QED BY <2>1, <2>2, <2>3, <2>4
<1>3. DOMAIN Buffers = Owner /\ Buffers = [p \in Owner |-> Buffers[p]]
  BY BuffersTable, Zenon
<1>4. DOMAIN Buffers' = Owner /\ Buffers' = [p \in Owner |-> Buffers'[p]]
  <2>1. DOMAIN Buffers' = Owner' /\ Buffers' = [p \in Owner' |-> Buffers'[p]]
    BY DEF Buffers
  <2> QED BY <2>1, <1>0
<1> QED BY <1>2, <1>3, <1>4

\* None does.
LEMMA NoBufferChanges ==
  ASSUME lists \in Arrangements, lists' = lists,
         \A s \in DOMAIN lists.l2 : HeadBuffer(lists.l2[s])' = HeadBuffer(lists.l2[s]),
         \A s \in L3 : HeadBuffer(lists.l3[s])' = HeadBuffer(lists.l3[s]),
         \A s \in L3 : \A k \in DOMAIN lists.l3[s] : OwnBuffer(s, k)' = OwnBuffer(s, k)
  PROVE  Buffers' = Buffers
<1>0. PICK s \in L3 : TRUE
  BY PlaceFacts
<1> DEFINE o == <<3, s, 0>>
<1>1. o \in Owner
  BY Owners, Zenon
<1>2. L3' = L3 /\ lists' \in Arrangements
  BY Arrangement_Stays, Zenon
<1>3. Buffers'[o] = Buffers[o]
  BY <1>2, OwnersThen, Owners
<1> HIDE DEF o
<1>4. Buffers' = [Buffers EXCEPT ![o] = Buffers[o]]
  BY <1>1, <1>3, OneBuffer, Zenon
<1> QED BY <1>4, BuffersTable

LEMMA HeapKnown ==
  ASSUME EInv
  PROVE  /\ lists \in Arrangements /\ IsHeap(heap) /\ Len(heap) \in Nat /\ DOMAIN heap = 1..Len(heap)
         /\ Buffers \in [Owner -> Nat]
         /\ \A o \in Owner : Buffers[o] \in 0..Len(heap)
         /\ \A s \in L3 : \A k \in DOMAIN lists.l3[s] : OwnBuffer(s, k) \in 0..Len(heap)
<1>1. Types /\ lists \in Arrangements /\ IsHeap(heap)
  BY DEF EInv, Types
<1>2. Len(heap) \in Nat /\ DOMAIN heap = 1..Len(heap)
  BY <1>1, HeapDomain, Zenon
<1>3. Buffers \in [Owner -> Nat]
  BY <1>1, BuffersTyped
<1>4. \A o \in Owner : Buffers[o] \in 0..Len(heap)
  <2>1. DOMAIN Buffers = Owner
    BY BuffersTable
  <2> QED BY <2>1 DEF EInv, BookKept, Book, InHeap
<1>5. \A s \in L3 : \A k \in DOMAIN lists.l3[s] : OwnBuffer(s, k) \in 0..Len(heap)
  BY <1>1, <1>4, Owners, Zenon
<1> QED BY <1>1, <1>2, <1>3, <1>4, <1>5, Zenon

\* While the module is being loaded or in use no one has freed anything.
LEMMA NoneDone ==
  ASSUME Up
  PROVE  Done = {}
BY DEF Up, Done

LEMMA NoneDoneThen ==
  ASSUME Up'
  PROVE  Done' = {}
BY DEF Up, Done

\* What a kmalloc does to the heap.
LEMMA Allocated ==
  ASSUME EInv, NEW buf, NEW wanted, NEW slots, NEW s, Kmalloc(buf, wanted, slots, s)
  PROVE  /\ IsHeap(heap') /\ Len(heap') \in Nat /\ buf \in Nat
         /\ DOMAIN heap' = 1..Len(heap') /\ Len(heap') >= Len(heap)
         /\ \A h \in DOMAIN heap : h \in DOMAIN heap' /\ heap'[h] = heap[h]
         /\ \/ /\ buf = Len(heap) + 1 /\ Len(heap') = Len(heap) + 1
               /\ heap'[buf].slots = slots /\ heap'[buf].freed = 0 /\ heap'[buf].list = s
               /\ \A h \in DOMAIN heap' : h \in DOMAIN heap \/ h = buf
            \/ buf = NoBuffer /\ wanted = <<>> /\ heap' = heap
<1>0. IsHeap(heap) /\ Len(heap) \in Nat /\ DOMAIN heap = 1..Len(heap)
  BY HeapKnown, Zenon
<1>1. CASE /\ buf = New
           /\ heap' = Append(heap, [slots |-> slots, freed |-> 0, list |-> s,
                                    late |-> stage \in {"clean2", "clean3", "gone"}])
  <2> DEFINE r == [slots |-> slots, freed |-> 0, list |-> s, late |-> stage \in {"clean2", "clean3", "gone"}]
  <2>1. IsBuffer(r) /\ r.slots = slots /\ r.freed = 0 /\ r.list = s
    BY DEF IsBuffer
  <2>2. heap' = Append(heap, r) /\ buf = Len(heap) + 1
    BY <1>1, Zenon DEF New
  <2> HIDE DEF r
  <2>3. IsHeap(heap') /\ Len(heap') = Len(heap) + 1 /\ DOMAIN heap' = 1..Len(heap) + 1
    BY <1>0, <2>1, <2>2, HeapAppended
  <2>4. \A h \in DOMAIN heap : heap'[h] = heap[h]
    BY <1>0, <2>1, <2>2, HeapAppended
  <2>5. heap'[Len(heap) + 1] = r
    BY <1>0, <2>1, <2>2, HeapAppended
  <2>6. /\ Len(heap') \in Nat /\ buf \in Nat /\ Len(heap') >= Len(heap)
        /\ DOMAIN heap' = 1..Len(heap')
        /\ \A h \in DOMAIN heap : h \in DOMAIN heap'
        /\ \A h \in DOMAIN heap' : h \in DOMAIN heap \/ h = buf
    BY <1>0, <2>2, <2>3
  <2>7. heap'[buf] = r
    BY <2>2, <2>5, Zenon
  <2>8. heap'[buf].slots = slots /\ heap'[buf].freed = 0 /\ heap'[buf].list = s
    BY <2>1, <2>7, Zenon
  <2> QED BY <2>2, <2>3, <2>4, <2>6, <2>8, Zenon
<1>2. CASE buf = NoBuffer /\ wanted = <<>> /\ heap' = heap
  BY <1>0, <1>2 DEF NoBuffer
<1> QED BY <1>1, <1>2, Zenon DEF Kmalloc

\* The book after an owner got what kmalloc gave.
LEMMA BookAllocated ==
  ASSUME EInv, NEW buf, NEW wanted, NEW slots, NEW s, Kmalloc(buf, wanted, slots, s),
         NEW o \in Owner, Buffers' = [Buffers EXCEPT ![o] = buf], Done' = Done,
         o \in Done => stage \in {"clean2", "clean3", "gone"},
         Buffers[o] # NoBuffer => heap[Buffers[o]].list \in raced \cup refused,
         raced \subseteq raced', refused \subseteq refused'
  PROVE  BookKept'
<1>0. IsHeap(heap) /\ Buffers \in [Owner -> Nat]
  BY HeapKnown, Zenon
<1>1. Book(Buffers, Done, heap, raced \cup refused)
  BY DEF EInv, BookKept
<1>2. CASE /\ buf = New
           /\ heap' = Append(heap, [slots |-> slots, freed |-> 0, list |-> s,
                                    late |-> stage \in {"clean2", "clean3", "gone"}])
  <2> DEFINE r == [slots |-> slots, freed |-> 0, list |-> s, late |-> stage \in {"clean2", "clean3", "gone"}]
  <2>1. IsBuffer(r) /\ r.freed = 0 /\ (o \in Done => r.late)
    BY DEF IsBuffer
  <2>2. heap' = Append(heap, r) /\ buf = Len(heap) + 1
    BY <1>2, Zenon DEF New
  <2> HIDE DEF r
  <2>3. Book(Buffers', Done, heap', raced \cup refused)
    BY <1>0, <1>1, <2>1, <2>2, BookMade
  <2> QED BY <2>3, BookExcuses DEF BookKept
<1>3. CASE buf = NoBuffer /\ heap' = heap
  <2>1. Book(Buffers', Done, heap', raced \cup refused)
    BY <1>0, <1>1, <1>3, BookNone
  <2> QED BY <2>1, BookExcuses DEF BookKept
<1> QED BY <1>2, <1>3, Zenon DEF Kmalloc

\* A step that moves no call.
LEMMA SteadyStays ==
  ASSUME UNCHANGED <<lists, evict2, doing, set, tmp, raced, refused>>
  PROVE  \A s : Steady(s)' <=> Steady(s)
BY Arrangement_Stays DEF Steady, Alone, AheadUnmade, AllUnmade, Walking, Ahead, OwnBuffer

-----------------------------------------------------------------------------
\* The buffers after init was at one list (lists.c:160-194): only its owner has another.
LEMMA ShareOne ==
  ASSUME EInv, NEW buf, NEW found, NEW chain, NEW m, NEW s,
         IsSeq(found), Kmalloc(buf, found, found, 0),
         evict1' = Shared(chain, [buf |-> buf, size |-> Len(found)]),
         UNCHANGED <<lists, evict2>>, chain # <<>>,
         \/ m = 2 /\ s \in DOMAIN lists.l2 /\ chain = lists.l2[s] /\ ~Passed2(s)
         \/ m = 3 /\ s \in L3 /\ chain = lists.l3[s] /\ ~Passed3(s)
  PROVE  /\ Buffers' = [Buffers EXCEPT ![<<m, s, 0>>] = buf]
         /\ <<m, s, 0>> \in Owner /\ Buffers[<<m, s, 0>>] = NoBuffer
         /\ \A t \in DOMAIN lists.l2 : <<2, t, 0>> # <<m, s, 0>> => HeadBuffer(lists.l2[t])' = HeadBuffer(lists.l2[t])
         /\ \A t \in L3 : <<3, t, 0>> # <<m, s, 0>> => HeadBuffer(lists.l3[t])' = HeadBuffer(lists.l3[t])
         /\ evict1' \in [Blocks -> Entries]
<1>0. lists \in Arrangements /\ Types /\ buf \in Nat /\ Len(found) \in Nat
  BY HeapKnown, Allocated, SeqFacts DEF EInv
<1>1. chain[1] \in Members(chain) /\ Members(chain) \subseteq Blocks
  <2>1. 1 \in DOMAIN chain
    BY <1>0, PlaceFacts, Zenon
  <2> QED BY <2>1, InBlocks DEF Members
<1>2. \A b \in Blocks : evict1'[b] = IF b \in Members(chain) THEN [buf |-> buf, size |-> Len(found)] ELSE evict1[b]
  BY DEF Shared
<1>3. \A t \in DOMAIN lists.l2 : <<2, t, 0>> # <<m, s, 0>> => HeadBuffer(lists.l2[t])' = HeadBuffer(lists.l2[t])
  <2> SUFFICES ASSUME NEW t \in DOMAIN lists.l2, m # 2 \/ s # t, lists.l2[t] # <<>>
               PROVE  evict1'[lists.l2[t][1]] = evict1[lists.l2[t][1]]
    BY DEF HeadBuffer
  <2>1. 1 \in DOMAIN lists.l2[t] /\ lists.l2[t][1] \in Blocks
    BY <1>0, PlaceFacts, InBlocks, Zenon
  <2>2. lists.l2[t][1] \notin Members(chain)
    BY <2>1, <1>0, OnePlace DEF Members
  <2> QED BY <2>1, <2>2, <1>2
<1>4. \A t \in L3 : <<3, t, 0>> # <<m, s, 0>> => HeadBuffer(lists.l3[t])' = HeadBuffer(lists.l3[t])
  <2> SUFFICES ASSUME NEW t \in L3, m # 3 \/ s # t, lists.l3[t] # <<>>
               PROVE  evict1'[lists.l3[t][1]] = evict1[lists.l3[t][1]]
    BY DEF HeadBuffer
  <2>1. 1 \in DOMAIN lists.l3[t] /\ lists.l3[t][1] \in Blocks
    BY <1>0, PlaceFacts, InBlocks, Zenon
  <2>2. lists.l3[t][1] \notin Members(chain)
    BY <2>1, <1>0, OnePlace DEF Members
  <2> QED BY <2>1, <2>2, <1>2
<1>5. \A t \in L3 : \A k \in DOMAIN lists.l3[t] : OwnBuffer(t, k)' = OwnBuffer(t, k)
  BY DEF OwnBuffer
<1>6. <<m, s, 0>> \in Owner
  BY <1>0, Owners
<1>7. HeadBuffer(chain)' = buf
  BY <1>1, <1>2 DEF HeadBuffer
<1>8. Buffers'[<<m, s, 0>>] = buf
  <2>1. lists' \in Arrangements /\ L3' = L3
    BY <1>0, Arrangement_Stays
  <2> QED BY <1>7, <2>1, OwnersThen
<1>9. Buffers' = [Buffers EXCEPT ![<<m, s, 0>>] = buf]
  BY <1>0, <1>3, <1>4, <1>5, <1>6, <1>8, OneBuffer
<1>10. Buffers[<<m, s, 0>>] = NoBuffer
  BY <1>0, Owners DEF EInv, HeadsThere
<1>11. evict1' \in [Blocks -> Entries]
  BY <1>0 DEF Shared, Entries, Types
<1> QED BY <1>3, <1>4, <1>6, <1>9, <1>10, <1>11, Zenon

\* Init keeps the book.
LEMMA ShareKeeps ==
  ASSUME EInv, Share
  PROVE  EInv'
<1> DEFINE chain == InitList
           found == L1Set(InitList[1])
<1>0. stage \in {"init3", "init2"} /\ chain # <<>>
  BY DEF Share
<1>1. PICK buf : Kmalloc(buf, found, found, 0) /\ evict1' = Shared(chain, [buf |-> buf, size |-> Len(found)])
  BY Zenon DEF Share
<1>2. UNCHANGED <<lists, evict2, doing, set, tmp, count, refused, raced>>
  BY DEF Share, calls
<1>3. lists \in Arrangements /\ Types /\ Rows /\ HeadsThere /\ InPlace
  BY DEF EInv, Types
<1>4. IsSeq(found)
  BY <1>3, SetsAreSeqs
<1> DEFINE m == IF stage = "init3" THEN 3 ELSE 2
<1>5. \/ m = 2 /\ row \in DOMAIN lists.l2 /\ chain = lists.l2[row] /\ ~Passed2(row)
      \/ m = 3 /\ row \in L3 /\ chain = lists.l3[row] /\ ~Passed3(row)
  BY <1>0, <1>3 DEF InitList, Rows, Passed2, Passed3
<1>6. /\ m = 2 => stage = "init2"
      /\ m = 3 => stage = "init3"
      /\ stage = "init3" => Advance("init3", lists.l3, "init2")
      /\ stage = "init2" => Advance("init2", lists.l2, "loaded")
  BY <1>0 DEF Share
<1> HIDE DEF chain, found, m
<1>7. /\ Buffers' = [Buffers EXCEPT ![<<m, row, 0>>] = buf]
      /\ <<m, row, 0>> \in Owner /\ Buffers[<<m, row, 0>>] = NoBuffer
      /\ \A t \in DOMAIN lists.l2 : <<2, t, 0>> # <<m, row, 0>> => HeadBuffer(lists.l2[t])' = HeadBuffer(lists.l2[t])
      /\ \A t \in L3 : <<3, t, 0>> # <<m, row, 0>> => HeadBuffer(lists.l3[t])' = HeadBuffer(lists.l3[t])
      /\ evict1' \in [Blocks -> Entries]
  BY <1>0, <1>1, <1>2, <1>4, <1>5, ShareOne
<1>8. /\ IsHeap(heap') /\ Len(heap') \in Nat /\ buf \in Nat
      /\ DOMAIN heap' = 1..Len(heap') /\ Len(heap') >= Len(heap)
      /\ \A h \in DOMAIN heap : h \in DOMAIN heap' /\ heap'[h] = heap[h]
      /\ \/ /\ buf = Len(heap) + 1 /\ Len(heap') = Len(heap) + 1
            /\ heap'[buf].slots = found /\ heap'[buf].freed = 0 /\ heap'[buf].list = 0
            /\ \A h \in DOMAIN heap' : h \in DOMAIN heap \/ h = buf
         \/ buf = NoBuffer /\ found = <<>> /\ heap' = heap
  BY <1>1, Allocated
<1>9. Blocks' = Blocks /\ L3' = L3 /\ Owner' = Owner /\ Lists3' = Lists3
  BY <1>2, Arrangement_Stays
<1>10. Up /\ Up' /\ Done = {} /\ Done' = {}
  <2>1. Up /\ Up'
    BY <1>0, <1>6 DEF Up, Advance
  <2> QED BY <2>1, NoneDone, NoneDoneThen
<1>11. Types'
  <2>1. stage' \in Stages
    BY <1>0, <1>6 DEF Advance, Stages
  <2> QED BY <1>2, <1>3, <1>7, <1>8, <1>9, <2>1 DEF Types
<1>12. Rows'
  <2>1. /\ Len(lists.l2) \in Nat \ {0} /\ DOMAIN lists.l2 = 1..Len(lists.l2)
        /\ Len(lists.l3) \in Nat \ {0} /\ L3 = 1..Len(lists.l3)
    BY <1>3, PlaceFacts
  <2>2. L3' = L3 /\ lists' = lists
    BY <1>2, <1>9
  <2> QED BY <1>0, <1>3, <1>6, <2>1, <2>2 DEF Rows, Advance
<1>13. HeadsThere'
  <2>0. lists' = lists /\ L3' = L3 /\ DOMAIN lists.l2 = 1..Len(lists.l2) /\ L3 = 1..Len(lists.l3)
    BY <1>2, <1>3, <1>9, PlaceFacts
  <2>1. ASSUME NEW s \in L3
        PROVE  IF Passed3(s)' THEN lists.l3[s] # <<>> ELSE HeadBuffer(lists.l3[s])' = NoBuffer
    <3>1. s = row /\ m = 3 => Passed3(s)' /\ lists.l3[s] # <<>>
      BY <1>0, <1>3, <1>5, <1>6, <2>0 DEF Passed3, Advance, Rows
    <3>2. s # row \/ m # 3 => (Passed3(s)' <=> Passed3(s))
      BY <1>0, <1>3, <1>5, <1>6, <2>0 DEF Passed3, Advance, Rows
    <3>3. s # row \/ m # 3 => HeadBuffer(lists.l3[s])' = HeadBuffer(lists.l3[s])
      BY <1>7
    <3> QED BY <1>3, <3>1, <3>2, <3>3 DEF HeadsThere
  <2>2. ASSUME NEW s \in DOMAIN lists.l2
        PROVE  IF Passed2(s)' THEN lists.l2[s] # <<>> ELSE HeadBuffer(lists.l2[s])' = NoBuffer
    <3>1. s = row /\ m = 2 => Passed2(s)' /\ lists.l2[s] # <<>>
      BY <1>0, <1>3, <1>5, <1>6, <2>0 DEF Passed2, Advance, Rows
    <3>2. s # row \/ m # 2 => (Passed2(s)' <=> Passed2(s))
      BY <1>0, <1>3, <1>5, <1>6, <2>0 DEF Passed2, Advance, Rows
    <3>3. s # row \/ m # 2 => HeadBuffer(lists.l2[s])' = HeadBuffer(lists.l2[s])
      BY <1>7
    <3> QED BY <1>3, <3>1, <3>2, <3>3 DEF HeadsThere
  <2> QED BY <2>0, <2>1, <2>2 DEF HeadsThere
<1>14. InPlace'
  BY <1>0, <1>2, <1>3 DEF InPlace, InWalk
<1>15. BookKept'
  BY <1>1, <1>2, <1>7, <1>10, BookAllocated
<1>16. MadeFor'
  <2>1. \A s \in L3 : \A k \in DOMAIN lists.l3[s] : OwnBuffer(s, k)' = OwnBuffer(s, k)
    BY <1>2 DEF OwnBuffer
  <2>2. \A s \in L3 : \A k \in DOMAIN lists.l3[s] : OwnBuffer(s, k) # NoBuffer => OwnBuffer(s, k) \in DOMAIN heap
    BY HeapKnown DEF NoBuffer
  <2> QED BY <1>2, <1>8, <1>9, <2>1, <2>2 DEF EInv, MadeFor
<1>17. Unfreed'
  BY <1>8, <1>10 DEF EInv, Unfreed
<1>18. \A s \in Lists3' : Steady(s)'
  BY <1>2, <1>9, SteadyStays DEF EInv
<1> QED BY <1>11, <1>12, <1>13, <1>14, <1>15, <1>16, <1>17, <1>18 DEF EInv

\* A step that gives no block another buffer.
LEMMA BuffersStay ==
  ASSUME UNCHANGED <<lists, evict1>>, lists \in Arrangements,
         \A s \in L3 : \A k \in DOMAIN lists.l3[s] : OwnBuffer(s, k)' = OwnBuffer(s, k)
  PROVE  Buffers' = Buffers
<1>1. \A t : HeadBuffer(t)' = HeadBuffer(t)
  BY DEF HeadBuffer
<1> QED BY <1>1, NoBufferChanges, Zenon

\* The module begins to be unloaded.
LEMMA UnloadKeeps ==
  ASSUME EInv, Unload
  PROVE  EInv'
<1>1. /\ UNCHANGED <<lists, evict1, evict2, heap, doing, set, tmp, count, refused, raced>>
      /\ stage = "loaded" /\ stage' = "clean2" /\ row' = 1
  BY DEF Unload, calls
<1>2. lists \in Arrangements /\ Types /\ Rows /\ HeadsThere /\ InPlace /\ BookKept
  BY DEF EInv, Types
<1>3. Blocks' = Blocks /\ L3' = L3 /\ Owner' = Owner /\ Lists3' = Lists3
  BY <1>1, Arrangement_Stays
<1>4. /\ Len(lists.l2) \in Nat \ {0} /\ DOMAIN lists.l2 = 1..Len(lists.l2)
  BY <1>2, PlaceFacts
<1>5. Types' /\ Rows' /\ InPlace' /\ Unfreed'
  BY <1>1, <1>2, <1>3, <1>4 DEF Types, Stages, Rows, InPlace, InWalk, Unfreed, Up
<1>6. HeadsThere'
  BY <1>1, <1>2, <1>3 DEF HeadsThere, Passed2, Passed3
<1>7. Buffers' = Buffers
  BY <1>1, <1>2, BuffersStay DEF OwnBuffer
<1>8. Done' = Done
  <2>1. Done = {}
    BY <1>1, NoneDone DEF Up
  <2>2. \A s \in DOMAIN lists.l2 : ~(s < 1)
    BY <1>4
  <2>3. \A o \in Owner : o[1] = 2 => o[2] \in DOMAIN lists.l2
    BY <1>2, Owners
  <2>4. Done' = {}
    BY <1>1, <1>3, <2>2, <2>3 DEF Done
  <2> QED BY <2>1, <2>4
<1>9. BookKept' /\ MadeFor'
  BY <1>1, <1>2, <1>3, <1>7, <1>8 DEF EInv, BookKept, MadeFor, OwnBuffer
<1>10. \A s \in Lists3' : Steady(s)'
  BY <1>1, <1>3, SteadyStays DEF EInv
<1> QED BY <1>5, <1>6, <1>9, <1>10 DEF EInv

\* The buffers of some owners, none twice.
BuffersOf(E, F, bufs) ==
  /\ \A h : h # NoBuffer => ~Twice(bufs, h)
  /\ \A h : h \in Members(bufs) <=> \E e \in E : F[e] = h

\* What kfree does, if the buffers are those of owners that had not freed them.
LEMMA Kfreed ==
  ASSUME EInv, NEW bufs, Kfree(bufs),
         NEW E, E \subseteq Owner, NotYetOwed(E, Done), Done' = Done \cup E,
         BuffersOf(E, Buffers, bufs),
         Buffers' = Buffers, raced' = raced, refused' = refused
  PROVE  BookKept' /\ IsHeap(heap') /\ FreedBy(Buffers, E, heap, heap')
<1>0. /\ IsHeap(heap) /\ Buffers \in [Owner -> Nat] /\ DOMAIN heap = 1..Len(heap) /\ Len(heap) \in Nat
      /\ Book(Buffers, Done, heap, raced \cup refused)
  BY HeapKnown DEF EInv, BookKept
<1>1. heap' = [b \in DOMAIN heap |-> [heap[b] EXCEPT !.freed = @ + Times(bufs, b)]]
  BY Zenon DEF Kfree, Times
<1>2. ASSUME NEW h \in DOMAIN heap
      PROVE  /\ heap'[h].list = heap[h].list /\ heap'[h].late = heap[h].late
             /\ heap'[h].freed = heap[h].freed + IF h \in Members(bufs) THEN 1 ELSE 0
             /\ IsBuffer(heap'[h])
  <2>1. IsBuffer(heap[h])
    BY <1>0 DEF IsHeap
  <2>2. h # NoBuffer
    BY <1>0 DEF NoBuffer
  <2>3. PICK z : z = Times(bufs, h)
    OBVIOUS
  <2>4. z = IF h \in Members(bufs) THEN 1 ELSE 0
    BY <2>2, <2>3, FreedEach, Zenon DEF BuffersOf
  <2>5. heap'[h] = [heap[h] EXCEPT !.freed = @ + z]
    BY <1>1, <2>3
  <2>6. /\ heap'[h].list = heap[h].list /\ heap'[h].late = heap[h].late
        /\ heap'[h].freed = heap[h].freed + z /\ IsBuffer(heap'[h])
    BY <2>1, <2>5 DEF IsBuffer
  <2> QED BY <2>4, <2>6, Zenon
<1>3. heap' = [h \in DOMAIN heap |-> heap'[h]]
  BY <1>1
<1>4. IsHeap(heap') /\ Len(heap') = Len(heap) /\ DOMAIN heap' = DOMAIN heap
  <2>1. \A h \in DOMAIN heap : IsBuffer(heap'[h])
    BY <1>2
  <2> HIDE <1>1
  <2> QED BY <1>0, <1>3, <2>1, HeapChanged
<1>5. FreedBy(Buffers, E, heap, heap')
  <2> SUFFICES ASSUME NEW h \in DOMAIN heap
               PROVE  /\ heap'[h].list = heap[h].list /\ heap'[h].late = heap[h].late
                      /\ (\E e \in E : Buffers[e] = h) => heap'[h].freed = heap[h].freed + 1
                      /\ ~(\E e \in E : Buffers[e] = h) => heap'[h].freed = heap[h].freed
    BY <1>4, Zenon DEF FreedBy
  <2>1. heap[h].freed \in {0, 1}
    BY <1>0 DEF Book, Once
  <2>2. h \in Members(bufs) <=> \E e \in E : Buffers[e] = h
    BY Zenon DEF BuffersOf
  <2> HIDE <1>1
  <2> QED BY <1>2, <2>1, <2>2
<1>6. Book(Buffers, Done \cup E, heap', raced \cup refused)
  <2> HIDE <1>1, <1>2
  <2> QED BY <1>0, <1>5, BookFreed, Zenon
<1> QED BY <1>4, <1>5, <1>6, Zenon DEF BookKept

\* The part of a clean-up step that is not about the heap.
LEMMA CleanRest ==
  ASSUME EInv, UNCHANGED <<lists, evict1, evict2, doing, set, tmp, count, refused, raced>>,
         stage \in {"clean2", "clean3"}, stage' \in {"clean2", "clean3", "gone"}, Rows',
         IsHeap(heap'), DOMAIN heap' = DOMAIN heap, \A h \in DOMAIN heap : heap'[h].list = heap[h].list,
         BookKept'
  PROVE  EInv'
<1>2. lists \in Arrangements /\ Types /\ HeadsThere /\ InPlace
  BY DEF EInv, Types
<1>3. Blocks' = Blocks /\ L3' = L3 /\ Owner' = Owner /\ Lists3' = Lists3
  BY Arrangement_Stays
<1>4. Types' /\ InPlace' /\ Unfreed'
  BY <1>2, <1>3 DEF Types, Stages, InPlace, InWalk, Unfreed, Up
<1>5. HeadsThere'
  BY <1>2, <1>3 DEF HeadsThere, Passed2, Passed3
<1>6. MadeFor'
  <2>1. \A s \in L3 : \A k \in DOMAIN lists.l3[s] : OwnBuffer(s, k)' = OwnBuffer(s, k)
    BY DEF OwnBuffer
  <2>2. \A s \in L3 : \A k \in DOMAIN lists.l3[s] : OwnBuffer(s, k) # NoBuffer => OwnBuffer(s, k) \in DOMAIN heap
    BY HeapKnown DEF NoBuffer
  <2> QED BY <1>3, <2>1, <2>2 DEF EInv, MadeFor
<1>7. \A s \in Lists3' : Steady(s)'
  BY <1>3, SteadyStays DEF EInv
<1> QED BY <1>4, <1>5, <1>6, <1>7 DEF EInv

\* clean_l2_set keeps the book.
LEMMA Clean2Keeps ==
  ASSUME EInv, Clean2
  PROVE  EInv'
<1> DEFINE bufs == <<evict1[lists.l2[row][1]].buf>>
           e == <<2, row, 0>>
           E == {e}
<1>1. /\ UNCHANGED <<lists, evict1, evict2, doing, set, tmp, count, refused, raced>>
      /\ stage = "clean2" /\ Kfree(bufs) /\ Advance("clean2", lists.l2, "clean3")
  BY DEF Clean2, calls
<1>2. lists \in Arrangements /\ Types /\ Rows /\ HeadsThere
  BY DEF EInv, Types
<1>3. /\ Len(lists.l2) \in Nat \ {0} /\ DOMAIN lists.l2 = 1..Len(lists.l2)
      /\ Len(lists.l3) \in Nat \ {0} /\ L3 = 1..Len(lists.l3)
  BY <1>2, PlaceFacts
<1>4. row \in DOMAIN lists.l2 /\ lists.l2[row] # <<>>
  BY <1>1, <1>2 DEF Rows, HeadsThere, Passed2
<1>5. e \in Owner /\ Buffers[e] = evict1[lists.l2[row][1]].buf
  BY <1>2, <1>4, Owners DEF HeadBuffer
<1>6. DOMAIN bufs = 1..1 /\ bufs[1] = Buffers[e]
  BY <1>5
<1>7. Buffers' = Buffers
  BY <1>1, <1>2, BuffersStay DEF OwnBuffer
<1>8. L3' = L3 /\ Owner' = Owner
  BY <1>1, Arrangement_Stays
<1>9. E \subseteq Owner /\ (\A x \in E : x \notin Done) /\ Done' = Done \cup E
  <2>1. \A o \in Owner : /\ o[1] = 2 => o[2] \in DOMAIN lists.l2 /\ o = <<2, o[2], 0>>
                         /\ o[1] # 2 => o[2] \in L3
    BY <1>2, Owners
  <2>2. Done = {o \in Owner : o[1] = 2 /\ o[2] < row}
    BY <1>1 DEF Done
  <2>3. Done' = {o \in Owner : o[1] = 2 /\ o[2] < row + 1}
    <3>1. CASE row < Len(lists.l2)
      BY <1>1, <1>8, <3>1 DEF Done, Advance
    <3>2. CASE ~(row < Len(lists.l2))
      <4>1. stage' = "clean3" /\ row' = 1 /\ row = Len(lists.l2)
        BY <1>1, <1>3, <1>4, <3>2 DEF Advance
      <4>2. Done' = {o \in Owner : o[1] = 2}
        BY <1>3, <1>8, <2>1, <4>1 DEF Done
      <4>3. \A o \in Owner : o[1] = 2 => o[2] < row + 1
        BY <1>3, <2>1, <4>1
      <4> QED BY <4>2, <4>3
    <3> QED BY <3>1, <3>2
  <2>4. e[1] = 2 /\ e[2] = row /\ row \in Nat
    BY <1>3, <1>4
  <2>5. \A o \in Owner : o[1] = 2 => (o[2] < row + 1 <=> o[2] < row \/ o = e)
    <3> SUFFICES ASSUME NEW o \in Owner, o[1] = 2 PROVE o[2] < row + 1 <=> o[2] < row \/ o[2] = row
      BY <2>1, <2>4
    <3> QED BY <1>3, <2>1, <2>4
  <2> HIDE DEF e
  <2> QED BY <1>5, <2>2, <2>3, <2>4, <2>5
<1>10. Rows'
  BY <1>1, <1>2, <1>3, <1>4, <1>8 DEF Rows, Advance
<1>11. stage' \in {"clean2", "clean3", "gone"}
  BY <1>1 DEF Advance
<1>12. BookKept' /\ IsHeap(heap') /\ FreedBy(Buffers, E, heap, heap')
  <2>1. BuffersOf(E, Buffers, bufs)
    <3>1. \A h : ~Twice(bufs, h)
      BY DEF Twice
    <3>2. \A h : h \in Members(bufs) <=> h = Buffers[e]
      BY <1>6 DEF Members
    <3> HIDE DEF e, bufs
    <3> QED BY <3>1, <3>2 DEF BuffersOf
  <2>2. NotYetOwed(E, Done)
    BY <1>9, Zenon DEF NotYetOwed
  <2>3. Kfree(bufs) /\ raced' = raced /\ refused' = refused
    BY <1>1
  <2> HIDE DEF bufs, E
  <2> QED BY <1>7, <1>9, <2>1, <2>2, <2>3, Kfreed, Zenon
<1>13. DOMAIN heap' = DOMAIN heap /\ \A h \in DOMAIN heap : heap'[h].list = heap[h].list
  BY <1>12 DEF FreedBy
<1> QED BY <1>1, <1>10, <1>11, <1>12, <1>13, CleanRest

\* What clean_l3_set frees is what the owners of its list have, none twice.
LEMMA OwnedIs ==
  ASSUME Types, NEW s \in L3, lists.l3[s] # <<>>
  PROVE  /\ DOMAIN Owned(lists.l3[s]) = 1..Len(lists.l3[s]) + 1
         /\ \A k \in DOMAIN lists.l3[s] : Owned(lists.l3[s])[k] = OwnBuffer(s, k)
         /\ Owned(lists.l3[s])[Len(lists.l3[s]) + 1] = HeadBuffer(lists.l3[s])
<1> DEFINE chain == lists.l3[s]
           f == [k \in DOMAIN chain |-> evict2[chain[k]].buf]
           h == HeadBuffer(chain)
<1>0. lists \in Arrangements
  BY DEF Types
<1>1. Len(chain) \in Nat /\ DOMAIN chain = 1..Len(chain) /\ 1 \in DOMAIN chain
  BY <1>0, PlaceFacts
<1>2. \A k \in DOMAIN chain : OwnBuffer(s, k) \in Nat
  BY OwnBufferNat
<1>3. f \in [1..Len(chain) -> Nat]
  BY <1>1, <1>2 DEF OwnBuffer
<1>4. h \in Nat /\ h = evict1[chain[1]].buf
  BY <1>1, InBlocks, HeadBufferNat DEF HeadBuffer
<1>5. Owned(chain) = f \o <<h>>
  BY <1>4, Zenon DEF Owned
<1>6. \A k \in DOMAIN chain : f[k] = OwnBuffer(s, k)
  BY DEF OwnBuffer
<1> HIDE DEF f, h, chain
<1>7. f \in Seq(Nat) /\ Len(f) = Len(chain)
  BY <1>1, <1>3, TableLength
<1>8. <<h>> \in Seq(Nat) /\ Len(<<h>>) = 1 /\ <<h>>[1] = h
  BY <1>4
<1> DEFINE g == <<h>>
<1>9. g \in Seq(Nat) /\ Len(g) = 1 /\ g[1] = h
  BY <1>8
<1> HIDE DEF g
<1>10. /\ f \o g \in Seq(Nat) /\ Len(f \o g) = Len(f) + Len(g)
       /\ \A q \in 1..Len(f) + Len(g) : (f \o g)[q] = IF q <= Len(f) THEN f[q] ELSE g[q - Len(f)]
  BY <1>7, <1>9, ConcatProperties, Zenon
<1>11. DOMAIN (f \o g) = 1..Len(chain) + 1
  BY <1>7, <1>9, <1>10, LenProperties
<1>12. \A k \in DOMAIN chain : (f \o g)[k] = f[k]
  BY <1>1, <1>7, <1>9, <1>10
<1>13. (f \o g)[Len(chain) + 1] = h
  BY <1>1, <1>7, <1>9, <1>10
<1> QED BY <1>5, <1>6, <1>11, <1>12, <1>13, Zenon DEF g, h, chain

\* clean_l3_set keeps the book.
LEMMA Clean3Keeps ==
  ASSUME EInv, Clean3
  PROVE  EInv'
<1> DEFINE chain == lists.l3[row]
           bufs == Owned(chain)
           E == {<<3, row, k>> : k \in 0..Len(chain)}
<1>1. /\ UNCHANGED <<lists, evict1, evict2, doing, set, tmp, count, refused, raced>>
      /\ stage = "clean3" /\ Kfree(bufs) /\ Advance("clean3", lists.l3, "gone")
  BY DEF Clean3, calls
<1>2. lists \in Arrangements /\ Types /\ Rows /\ HeadsThere
  BY DEF EInv, Types
<1>3. Len(lists.l3) \in Nat \ {0} /\ L3 = 1..Len(lists.l3)
  BY <1>2, PlaceFacts
<1>4. row \in L3 /\ chain # <<>>
  BY <1>1, <1>2 DEF Rows, HeadsThere, Passed3
<1>5. Len(chain) \in Nat /\ DOMAIN chain = 1..Len(chain)
  BY <1>2, <1>4, PlaceFacts
<1>6. Buffers' = Buffers
  BY <1>1, <1>2, BuffersStay DEF OwnBuffer
<1>7. L3' = L3 /\ Owner' = Owner
  BY <1>1, Arrangement_Stays
<1>8. \A o \in Owner : o \in E <=> o[1] # 2 /\ o[2] = row
  <2>1. \A o \in Owner : o[1] # 2 => \E s \in L3 : \E k \in 0..Len(lists.l3[s]) : o = <<3, s, k>>
    BY DEF Owner
  <2>2. ASSUME NEW o \in Owner, o[1] # 2, o[2] = row
        PROVE  o \in E
    <3>1. PICK s \in L3 : \E k \in 0..Len(lists.l3[s]) : o = <<3, s, k>>
      BY <2>1, <2>2, Zenon
    <3>2. PICK k \in 0..Len(lists.l3[s]) : o = <<3, s, k>>
      BY <3>1
    <3>3. s = row
      BY <2>2, <3>2
    <3> QED BY <3>2, <3>3
  <2>3. \A o \in E : o[1] # 2 /\ o[2] = row
    OBVIOUS
  <2> QED BY <2>2, <2>3, Zenon
<1>9. E \subseteq Owner
  BY <1>4 DEF Owner
<1>10. NotYetOwed(E, Done) /\ Done' = Done \cup E
  <2>1. \A o \in Owner : o[1] # 2 => o[2] \in L3
    BY <1>2, Owners
  <2>2. Done = {o \in Owner : o[1] = 2 \/ o[2] < row}
    BY <1>1 DEF Done
  <2>3. Done' = {o \in Owner : o[1] = 2 \/ o[2] < row + 1}
    <3>1. CASE row < Len(lists.l3)
      BY <1>1, <1>7, <3>1 DEF Done, Advance
    <3>2. CASE ~(row < Len(lists.l3))
      <4>1. stage' = "gone" /\ row = Len(lists.l3)
        BY <1>1, <1>3, <1>4, <3>2 DEF Advance
      <4>2. Done' = Owner
        BY <1>7, <4>1 DEF Done
      <4>3. \A o \in Owner : o[1] # 2 => o[2] < row + 1
        BY <1>3, <2>1, <4>1
      <4> QED BY <4>2, <4>3
    <3> QED BY <3>1, <3>2
  <2>4. \A o \in Owner : o[1] # 2 => (o[2] < row + 1 <=> o[2] < row \/ o[2] = row) /\ (o[2] = row => ~(o[2] < row))
    BY <1>3, <1>4, <2>1
  <2> HIDE DEF E
  <2>5. Done' = Done \cup E
    BY <1>8, <1>9, <2>2, <2>3, <2>4
  <2>6. NotYetOwed(E, Done)
    BY <1>8, <1>9, <2>2, <2>4 DEF NotYetOwed
  <2> QED BY <2>5, <2>6
<1>11. Rows'
  BY <1>1, <1>2, <1>3, <1>4, <1>7 DEF Rows, Advance
<1>12. stage' \in {"clean2", "clean3", "gone"}
  BY <1>1 DEF Advance
<1>13. BuffersOf(E, Buffers, bufs)
  <2>1. /\ DOMAIN bufs = 1..Len(chain) + 1
        /\ \A k \in DOMAIN chain : bufs[k] = OwnBuffer(row, k)
        /\ bufs[Len(chain) + 1] = HeadBuffer(chain)
    BY <1>2, <1>4, OwnedIs
  <2>2. /\ \A k \in DOMAIN chain : bufs[k] = Buffers[<<3, row, k>>]
        /\ bufs[Len(chain) + 1] = Buffers[<<3, row, 0>>]
    BY <1>2, <1>4, <2>1, Owners
  <2>3. \A j \in DOMAIN bufs : j \in DOMAIN chain \/ j = Len(chain) + 1
    BY <1>5, <2>1
  <2> DEFINE who(j) == IF j = Len(chain) + 1 THEN <<3, row, 0>> ELSE <<3, row, j>>
  <2>4. \A j \in DOMAIN bufs : who(j) \in E /\ bufs[j] = Buffers[who(j)]
    BY <1>5, <2>1, <2>2, <2>3
  <2>5. \A j, k \in DOMAIN bufs : who(j) = who(k) => j = k
    BY <1>5, <2>1
  <2>6. \A e \in E : \E j \in DOMAIN bufs : e = who(j)
    <3> SUFFICES ASSUME NEW k \in 0..Len(chain) PROVE \E j \in DOMAIN bufs : <<3, row, k>> = who(j)
      OBVIOUS
    <3>1. CASE k = 0
      <4>1. Len(chain) + 1 \in DOMAIN bufs /\ <<3, row, k>> = who(Len(chain) + 1)
        BY <3>1, <1>5, <2>1
      <4> HIDE DEF who, bufs
      <4> QED BY <4>1
    <3>2. CASE k # 0
      <4>1. k \in DOMAIN bufs /\ <<3, row, k>> = who(k)
        BY <3>2, <1>5, <2>1
      <4> HIDE DEF who, bufs
      <4> QED BY <4>1
    <3> QED BY <3>1, <3>2
  <2> HIDE DEF who, bufs, E, chain
  <2>7. ASSUME NEW h, h # NoBuffer, Twice(bufs, h)
        PROVE  FALSE
    <3>1. PICK j \in DOMAIN bufs : \E k \in DOMAIN bufs : bufs[j] = h /\ bufs[k] = h /\ j # k
      BY <2>7 DEF Twice
    <3>2. PICK k \in DOMAIN bufs : bufs[j] = h /\ bufs[k] = h /\ j # k
      BY <3>1
    <3>3. who(j) \in Owner /\ who(k) \in Owner /\ Buffers[who(j)] = h /\ Buffers[who(k)] = h
      BY <3>2, <2>4, <1>9
    <3>4. who(j) = who(k)
      BY <2>7, <3>3, BuffersTable, Zenon DEF EInv, BookKept, Book, Apart
    <3> QED BY <3>2, <3>4, <2>5
  <2>8. \A h : h \in Members(bufs) <=> \E e \in E : Buffers[e] = h
    BY <2>4, <2>6 DEF Members
  <2> QED BY <2>7, <2>8, Zenon DEF BuffersOf
<1> HIDE DEF chain, bufs, E
<1>14. BookKept' /\ IsHeap(heap') /\ FreedBy(Buffers, E, heap, heap')
  BY <1>1, <1>6, <1>9, <1>10, <1>13, Kfreed
<1>15. DOMAIN heap' = DOMAIN heap /\ \A h \in DOMAIN heap : heap'[h].list = heap[h].list
  BY <1>14 DEF FreedBy
<1> QED BY <1>1, <1>11, <1>12, <1>14, <1>15, CleanRest

\* The part of a call's step that is not about the heap.
LEMMA CallRest ==
  ASSUME EInv, UNCHANGED <<lists, stage, row, evict1>>,
         evict2' \in [Blocks -> Entries], IsHeap(heap'),
         doing' \in [Client -> {"idle", "check", "walk", "write", "use"}],
         set' \in [Client -> L3], tmp' \in [Client -> Nat \ {0}], count' \in [Client -> Nat],
         stage \notin {"init3", "init2"}, \A c \in Client : InWalk(c)' => tmp'[c] \in DOMAIN lists.l3[set'[c]],
         BookKept', MadeFor', Unfreed', \A s \in Lists3 : Steady(s)'
  PROVE  EInv'
<1>1. Types /\ Rows /\ HeadsThere
  BY DEF EInv
<1>2. Blocks' = Blocks /\ L3' = L3 /\ Owner' = Owner /\ Lists3' = Lists3
  BY Arrangement_Stays
<1>3. Types' /\ Rows' /\ InPlace'
  BY <1>1, <1>2 DEF Types, Rows, InPlace
<1>4. HeadsThere'
  BY <1>1, <1>2 DEF HeadsThere, Passed2, Passed3, HeadBuffer
<1> QED BY <1>2, <1>3, <1>4 DEF EInv

\* A call is not there before there are lists to walk.
LEMMA CallThere ==
  ASSUME EInv, stage # "oops", NEW c \in Client, doing[c] # "idle"
  PROVE  /\ stage \notin {"init3", "init2"} /\ L3 = Lists3
         /\ set[c] \in Lists3 /\ tmp[c] \in Nat \ {0} /\ count[c] \in Nat
         /\ Len(lists.l3[set[c]]) \in Nat /\ DOMAIN lists.l3[set[c]] = 1..Len(lists.l3[set[c]])
         /\ 1 \in DOMAIN lists.l3[set[c]]
<1>1. lists \in Arrangements /\ Types /\ HeadsThere /\ InPlace
  BY DEF EInv, Types
<1>2. stage \notin {"init3", "init2"}
  BY <1>1 DEF InPlace
<1>3. L3 = Lists3
  BY <1>1, <1>2 DEF HeadsThere, Passed3, Lists3
<1>4. set[c] \in L3 /\ tmp[c] \in Nat \ {0} /\ count[c] \in Nat
  BY <1>1 DEF Types
<1>5. lists.l3[set[c]] # <<>>
  BY <1>3, <1>4 DEF Lists3
<1>6. /\ Len(lists.l3[set[c]]) \in Nat /\ DOMAIN lists.l3[set[c]] = 1..Len(lists.l3[set[c]])
      /\ 1 \in DOMAIN lists.l3[set[c]]
  BY <1>1, <1>4, <1>5, PlaceFacts, Zenon
<1> QED BY <1>2, <1>3, <1>4, <1>6, Zenon

\* The step of another list.
Unmoved(s) ==
  /\ Walking(s)' = Walking(s)
  /\ \A d \in Walking(s) : doing'[d] = doing[d] /\ tmp'[d] = tmp[d]
  /\ \A k \in DOMAIN lists.l3[s] : OwnBuffer(s, k)' = OwnBuffer(s, k)

LEMMA SteadySame ==
  ASSUME EInv, lists' = lists, raced \subseteq raced', refused \subseteq refused', NEW s \in Lists3, Unmoved(s)
  PROVE  Steady(s)'
<1>1. Steady(s)
  BY DEF EInv
<1>2. OwnBuffer(s, 1)' = OwnBuffer(s, 1)
  <2>1. 1 \in DOMAIN lists.l3[s]
    BY PlaceFacts DEF EInv, Types, Lists3
  <2> QED BY <2>1 DEF Unmoved
<1>3. Alone(s) => Alone(s)'
  BY DEF Alone, Unmoved
<1>4. AheadUnmade(s) => AheadUnmade(s)'
  BY <1>2 DEF AheadUnmade, Unmoved, Ahead
<1>5. AllUnmade(s) => AllUnmade(s)'
  BY <1>2 DEF AllUnmade, Unmoved
<1> QED BY <1>1, <1>3, <1>4, <1>5 DEF Steady

\* Steps that leave heap and eviction sets alone.
LEMMA BooksAlone ==
  ASSUME EInv, UNCHANGED <<lists, stage, row, evict1, evict2, heap>>, raced \subseteq raced', refused \subseteq refused'
  PROVE  /\ BookKept' /\ MadeFor' /\ Unfreed' /\ IsHeap(heap')
         /\ evict2' \in [Blocks -> Entries]
         /\ \A s, k : OwnBuffer(s, k)' = OwnBuffer(s, k)
<1>1. lists \in Arrangements /\ Types /\ BookKept
  BY DEF EInv, Types
<1>2. L3' = L3 /\ Owner' = Owner
  BY Arrangement_Stays
<1>3. \A s, k : OwnBuffer(s, k)' = OwnBuffer(s, k)
  BY DEF OwnBuffer
<1>4. Buffers' = Buffers
  BY <1>1, <1>3, BuffersStay
<1>5. Done' = Done
  BY <1>2 DEF Done
<1>6. Book(Buffers', Done', heap', raced' \cup refused')
  <2>1. raced \cup refused \subseteq raced' \cup refused'
    OBVIOUS
  <2>2. Book(Buffers', Done', heap', raced \cup refused)
    BY <1>1, <1>4, <1>5, Zenon DEF BookKept
  <2> QED BY <2>1, <2>2, BookExcuses, Zenon
<1>7. MadeFor'
  BY <1>2, <1>3 DEF EInv, MadeFor
<1>8. Unfreed'
  BY DEF EInv, Unfreed, Up
<1> QED BY <1>1, <1>3, <1>6, <1>7, <1>8, Zenon DEF BookKept, Types

\* A read begins.
LEMMA ReadKeeps ==
  ASSUME EInv, NEW c \in Client, NEW s \in L3, Read(c, s)
  PROVE  EInv'
<1>1. /\ stage \notin {"init3", "init2", "gone", "oops"} /\ doing[c] = "idle"
      /\ doing' = [doing EXCEPT ![c] = "check"] /\ set' = [set EXCEPT ![c] = s]
      /\ UNCHANGED <<lists, stage, row, evict1, evict2, heap, tmp, count, refused, raced>>
  BY DEF Read
<1>2. Types /\ InPlace
  BY DEF EInv
<1>3. /\ BookKept' /\ MadeFor' /\ Unfreed' /\ IsHeap(heap')
      /\ evict2' \in [Blocks -> Entries]
  BY <1>1, BooksAlone
<1>4. \A t \in Lists3 : Steady(t)'
  <2> SUFFICES ASSUME NEW t \in Lists3 PROVE Steady(t)'
    OBVIOUS
  <2>1. Walking(t)' = Walking(t)
    BY <1>1, <1>2 DEF Walking, Types
  <2>2. \A d \in Walking(t) : doing'[d] = doing[d] /\ tmp'[d] = tmp[d]
    BY <1>1, <1>2 DEF Walking, Types
  <2>3. Unmoved(t)
    BY <1>1, <2>1, <2>2 DEF Unmoved, OwnBuffer
  <2> QED BY <1>1, <2>3, SteadySame
<1>5. /\ doing' \in [Client -> {"idle", "check", "walk", "write", "use"}]
      /\ set' \in [Client -> L3] /\ tmp' \in [Client -> Nat \ {0}] /\ count' \in [Client -> Nat]
  BY <1>1, <1>2 DEF Types
<1>6. \A d \in Client : InWalk(d)' => tmp'[d] \in DOMAIN lists.l3[set'[d]]
  BY <1>1, <1>2 DEF Types, InPlace, InWalk
<1> QED BY <1>1, <1>3, <1>4, <1>5, <1>6, CallRest

\* Code is generated.
LEMMA UseKeeps ==
  ASSUME EInv, NEW c \in Client, Use(c)
  PROVE  EInv'
<1>1. /\ stage # "oops" /\ doing[c] = "use"
      /\ doing' = [doing EXCEPT ![c] = "idle"] /\ tmp' = [tmp EXCEPT ![c] = 1]
      /\ count' = [count EXCEPT ![c] = 0] /\ set' = [set EXCEPT ![c] = 1]
      /\ UNCHANGED <<lists, stage, row, evict1, evict2, heap, refused, raced>>
  BY DEF Use
<1>2. lists \in Arrangements /\ Types /\ InPlace
  BY DEF EInv, Types
<1>3. /\ BookKept' /\ MadeFor' /\ Unfreed' /\ IsHeap(heap')
      /\ evict2' \in [Blocks -> Entries]
  BY <1>1, BooksAlone
<1>4. \A t \in Lists3 : Steady(t)'
  <2> SUFFICES ASSUME NEW t \in Lists3 PROVE Steady(t)'
    OBVIOUS
  <2>1. Walking(t)' = Walking(t)
    BY <1>1, <1>2 DEF Walking, Types
  <2>2. \A d \in Walking(t) : doing'[d] = doing[d] /\ tmp'[d] = tmp[d]
    BY <1>1, <1>2 DEF Walking, Types
  <2>3. Unmoved(t)
    BY <1>1, <2>1, <2>2 DEF Unmoved, OwnBuffer
  <2> QED BY <1>1, <2>3, SteadySame
<1>5. 1 \in L3
  BY <1>2, PlaceFacts
<1>6. /\ doing' \in [Client -> {"idle", "check", "walk", "write", "use"}]
      /\ set' \in [Client -> L3] /\ tmp' \in [Client -> Nat \ {0}] /\ count' \in [Client -> Nat]
  BY <1>1, <1>2, <1>5 DEF Types
<1>7. \A d \in Client : InWalk(d)' => tmp'[d] \in DOMAIN lists.l3[set'[d]]
  BY <1>1, <1>2 DEF Types, InPlace, InWalk
<1>8. stage \notin {"init3", "init2"}
  BY <1>1, CallThere
<1> QED BY <1>1, <1>3, <1>4, <1>6, <1>7, <1>8, CallRest

\* A call looks whether the list has its sets: it walks, or meets another that does.
LEMMA CheckKeeps ==
  ASSUME EInv, NEW c \in Client, Check(c)
  PROVE  EInv'
<1>0. PICK s : s = set[c]
  OBVIOUS
<1>1. /\ stage # "oops" /\ doing[c] = "check"
      /\ doing' = [doing EXCEPT ![c] = IF Missing(lists.l3[s][1]) THEN "walk" ELSE "use"]
      /\ raced' = IF Walking(s) = {} THEN raced ELSE raced \cup {s}
      /\ tmp' = [tmp EXCEPT ![c] = 1]
      /\ UNCHANGED <<lists, stage, row, evict1, evict2, heap, set, count, refused>>
  BY <1>0, Zenon DEF Check
<1>2. lists \in Arrangements /\ Types /\ InPlace
  BY DEF EInv, Types
<1>3. raced \subseteq raced'
  BY <1>1
<1>4. /\ BookKept' /\ MadeFor' /\ Unfreed' /\ IsHeap(heap')
      /\ evict2' \in [Blocks -> Entries]
      /\ \A t, k : OwnBuffer(t, k)' = OwnBuffer(t, k)
  BY <1>1, <1>3, BooksAlone
<1>5. /\ stage \notin {"init3", "init2"} /\ s \in Lists3 /\ 1 \in DOMAIN lists.l3[s]
  BY <1>0, <1>1, CallThere
<1>6. ASSUME NEW t \in Lists3, t # s \/ ~Missing(lists.l3[s][1])
      PROVE  Steady(t)'
  <2>1. Walking(t)' = Walking(t)
    BY <1>0, <1>1, <1>2, <1>6 DEF Walking, Types
  <2>2. \A d \in Walking(t) : doing'[d] = doing[d] /\ tmp'[d] = tmp[d]
    BY <1>1, <1>2 DEF Walking, Types
  <2>3. Unmoved(t)
    BY <1>4, <2>1, <2>2 DEF Unmoved
  <2> QED BY <1>1, <1>3, <2>3, SteadySame
<1>7. ASSUME Missing(lists.l3[s][1])
      PROVE  Steady(s)'
  <2>1. Walking(s)' = Walking(s) \cup {c} /\ doing'[c] = "walk" /\ tmp'[c] = 1
    BY <1>0, <1>1, <1>2, <1>7 DEF Walking, Types
  <2>2. CASE Walking(s) # {}
    BY <1>1, <2>2 DEF Steady
  <2>3. CASE Walking(s) = {}
    <3>1. Alone(s)'
      BY <2>1, <2>3 DEF Alone
    <3>2. AllUnmade(s)'
      BY <2>1 DEF AllUnmade
    <3>3. s \notin raced' \cup refused' => AheadUnmade(s)'
      <4> SUFFICES ASSUME s \notin raced, s \notin refused PROVE AheadUnmade(s)'
        BY <1>1, <2>3
      <4>1. AllUnmade(s)
        BY <1>5 DEF EInv, Steady
      <4>2. OwnBuffer(s, 1) = NoBuffer
        BY <1>7 DEF Missing, OwnBuffer
      <4>3. \A k \in DOMAIN lists.l3[s] : OwnBuffer(s, k)' = NoBuffer
        BY <1>4, <2>3, <4>1, <4>2 DEF AllUnmade
      <4> QED BY <1>1, <2>1, <2>3, <4>3 DEF AheadUnmade
    <3> QED BY <3>1, <3>2, <3>3 DEF Steady
  <2> QED BY <2>2, <2>3
<1>8. /\ doing' \in [Client -> {"idle", "check", "walk", "write", "use"}]
      /\ set' \in [Client -> L3] /\ tmp' \in [Client -> Nat \ {0}] /\ count' \in [Client -> Nat]
  BY <1>1, <1>2 DEF Types
<1>9. \A d \in Client : InWalk(d)' => tmp'[d] \in DOMAIN lists.l3[set'[d]]
  BY <1>0, <1>1, <1>2, <1>5 DEF Types, InPlace, InWalk
<1> QED BY <1>1, <1>4, <1>5, <1>6, <1>7, <1>8, <1>9, CallRest

\* A call that walks a list no two calls met in is the one that does.
LEMMA TheWalker ==
  ASSUME EInv, stage # "oops", NEW c \in Client, InWalk(c)
  PROVE  /\ c \in Walking(set[c]) /\ tmp[c] \in DOMAIN lists.l3[set[c]]
         /\ set[c] \notin raced => Walking(set[c]) = {c}
         /\ set[c] \notin raced \cup refused => AheadUnmade(set[c])
<1>1. doing[c] # "idle"
  BY DEF InWalk
<1>2. set[c] \in Lists3
  BY <1>1, CallThere
<1>3. c \in Walking(set[c])
  BY DEF Walking, InWalk
<1>4. Steady(set[c])
  BY <1>2 DEF EInv
<1>5. set[c] \notin raced => Walking(set[c]) = {c}
  BY <1>3, <1>4 DEF Steady, Alone
<1> QED BY <1>3, <1>4, <1>5 DEF Steady, EInv, InPlace

\* The buffer of one block changes.
LEMMA OwnChanges ==
  ASSUME lists \in Arrangements, UNCHANGED <<lists, evict1>>,
         NEW s \in L3, NEW k \in DOMAIN lists.l3[s], NEW buf, evict2 \in [Blocks -> Entries],
         evict2' = [evict2 EXCEPT ![lists.l3[s][k]].buf = buf]
  PROVE  /\ OwnBuffer(s, k)' = buf
         /\ \A t \in L3 : \A j \in DOMAIN lists.l3[t] : t # s \/ j # k => OwnBuffer(t, j)' = OwnBuffer(t, j)
         /\ <<3, s, k>> \in Owner /\ Buffers[<<3, s, k>>] = OwnBuffer(s, k)
         /\ Buffers' = [Buffers EXCEPT ![<<3, s, k>>] = buf]
<1>1. OwnBuffer(s, k)' = buf
  BY InBlocks DEF OwnBuffer, Entries
<1>2. \A t \in L3 : \A j \in DOMAIN lists.l3[t] : t # s \/ j # k => OwnBuffer(t, j)' = OwnBuffer(t, j)
  <2> SUFFICES ASSUME NEW t \in L3, NEW j \in DOMAIN lists.l3[t], t # s \/ j # k
               PROVE  OwnBuffer(t, j)' = OwnBuffer(t, j)
    OBVIOUS
  <2>1. lists.l3[t][j] # lists.l3[s][k]
    BY OnePlace
  <2>2. lists.l3[t][j] \in Blocks
    BY InBlocks
  <2> QED BY <2>1, <2>2 DEF OwnBuffer
<1>3. <<3, s, k>> \in Owner /\ Buffers[<<3, s, k>>] = OwnBuffer(s, k)
  BY Owners
<1>4. \A t : HeadBuffer(t)' = HeadBuffer(t)
  BY DEF HeadBuffer
<1>5. Buffers'[<<3, s, k>>] = buf
  <2>1. lists' \in Arrangements /\ L3' = L3
    BY Arrangement_Stays
  <2> QED BY <1>1, <2>1, OwnersThen
<1>6. \A t \in L3 : \A j \in DOMAIN lists.l3[t] : <<3, t, j>> # <<3, s, k>> => OwnBuffer(t, j)' = OwnBuffer(t, j)
  BY <1>2
<1>7. Buffers' = [Buffers EXCEPT ![<<3, s, k>>] = buf]
  BY <1>3, <1>4, <1>5, <1>6, OneBuffer
<1> QED BY <1>1, <1>2, <1>3, <1>7, Zenon

\* A block gets a buffer.  Ahead of the walk of a list no two calls met in it had none.
LEMMA AllocateKeeps ==
  ASSUME EInv, NEW c \in Client, Allocate(c)
  PROVE  EInv'
<1>0. PICK s : s = set[c]
  OBVIOUS
<1>k. PICK k : k = tmp[c]
  OBVIOUS
<1>1. PICK buf : /\ Kmalloc(buf, L2Set(Here(c)), <<>>, s)
                 /\ evict2' = [evict2 EXCEPT ![lists.l3[s][k]].buf = buf]
                 /\ refused' = IF buf = NoBuffer THEN refused \cup {s} ELSE refused
  BY <1>0, <1>k, Zenon DEF Allocate, Here
<1>2. /\ stage # "oops" /\ doing[c] = "walk"
      /\ doing' = [doing EXCEPT ![c] = "write"] /\ count' = [count EXCEPT ![c] = 0]
      /\ UNCHANGED <<lists, stage, row, evict1, set, tmp, raced>>
  BY DEF Allocate
<1>3. lists \in Arrangements /\ Types /\ InPlace
  BY DEF EInv, Types
<1>4. refused \subseteq refused'
  BY <1>1
<1>5. /\ stage \notin {"init3", "init2"} /\ s \in Lists3 /\ s \in L3
      /\ 1 \in DOMAIN lists.l3[s] /\ DOMAIN lists.l3[s] = 1..Len(lists.l3[s])
  BY <1>0, <1>2, CallThere DEF Lists3
<1>6. /\ c \in Walking(s) /\ k \in DOMAIN lists.l3[s]
      /\ s \notin raced => Walking(s) = {c}
      /\ s \notin raced \cup refused => AheadUnmade(s)
  BY <1>0, <1>k, <1>2, TheWalker DEF InWalk
<1>7. evict2 \in [Blocks -> Entries] /\ lists.l3[s][k] \in Blocks
  BY <1>3, <1>5, <1>6, InBlocks DEF Types
<1>8. /\ OwnBuffer(s, k)' = buf
      /\ \A t \in L3 : \A j \in DOMAIN lists.l3[t] : t # s \/ j # k => OwnBuffer(t, j)' = OwnBuffer(t, j)
      /\ <<3, s, k>> \in Owner /\ Buffers[<<3, s, k>>] = OwnBuffer(s, k)
      /\ Buffers' = [Buffers EXCEPT ![<<3, s, k>>] = buf]
  <2>0. /\ lists \in Arrangements /\ UNCHANGED <<lists, evict1>> /\ s \in L3 /\ k \in DOMAIN lists.l3[s]
        /\ evict2 \in [Blocks -> Entries] /\ evict2' = [evict2 EXCEPT ![lists.l3[s][k]].buf = buf]
    BY <1>1, <1>2, <1>3, <1>5, <1>6, <1>7
  <2>1. OwnBuffer(s, k)' = buf
    BY ONLY <2>0, OwnChanges
  <2>2. \A t \in L3 : \A j \in DOMAIN lists.l3[t] : t # s \/ j # k => OwnBuffer(t, j)' = OwnBuffer(t, j)
    BY ONLY <2>0, OwnChanges
  <2>3. <<3, s, k>> \in Owner /\ Buffers[<<3, s, k>>] = OwnBuffer(s, k)
    BY ONLY <2>0, OwnChanges
  <2>4. Buffers' = [Buffers EXCEPT ![<<3, s, k>>] = buf]
    BY ONLY <2>0, OwnChanges
  <2> QED BY <2>1, <2>2, <2>3, <2>4
<1>9. /\ IsHeap(heap') /\ Len(heap') \in Nat /\ buf \in Nat
      /\ DOMAIN heap' = 1..Len(heap') /\ Len(heap') >= Len(heap)
      /\ \A h \in DOMAIN heap : h \in DOMAIN heap' /\ heap'[h] = heap[h]
      /\ \/ /\ buf = Len(heap) + 1 /\ Len(heap') = Len(heap) + 1
            /\ heap'[buf].slots = <<>> /\ heap'[buf].freed = 0 /\ heap'[buf].list = s
            /\ \A h \in DOMAIN heap' : h \in DOMAIN heap \/ h = buf
         \/ buf = NoBuffer /\ L2Set(Here(c)) = <<>> /\ heap' = heap
  BY <1>1, Allocated
<1>10. L3' = L3 /\ Owner' = Owner
  BY <1>2, Arrangement_Stays
<1>11. BookKept'
  <2>1. Done' = Done
    BY <1>2, <1>10 DEF Done
  <2>2. <<3, s, k>> \in Done => stage \in {"clean2", "clean3", "gone"}
    BY DEF Done
  <2>3. Buffers[<<3, s, k>>] # NoBuffer => heap[Buffers[<<3, s, k>>]].list \in raced \cup refused
    <3>1. s \notin raced \cup refused => OwnBuffer(s, k) = NoBuffer
      BY <1>k, <1>2, <1>6 DEF AheadUnmade, Ahead
    <3>2. OwnBuffer(s, k) # NoBuffer => heap[OwnBuffer(s, k)].list = s
      BY <1>5, <1>6 DEF EInv, MadeFor
    <3> QED BY <1>8, <3>1, <3>2
  <2>4. raced \subseteq raced' /\ refused \subseteq refused'
    BY <1>2, <1>4
  <2> DEFINE o == <<3, s, k>>
  <2>5. o \in Owner /\ Buffers' = [Buffers EXCEPT ![o] = buf]
    BY <1>8
  <2> HIDE DEF o
  <2> QED BY <1>1, <2>1, <2>2, <2>3, <2>4, <2>5, BookAllocated DEF o
<1>12. MadeFor'
  <2> SUFFICES ASSUME NEW t \in L3, NEW j \in DOMAIN lists.l3[t], OwnBuffer(t, j)' # NoBuffer
               PROVE  heap'[OwnBuffer(t, j)'].list = t
    BY <1>2, <1>10 DEF MadeFor
  <2>1. CASE t = s /\ j = k
    BY <2>1, <1>8, <1>9
  <2>2. CASE t # s \/ j # k
    <3>1. OwnBuffer(t, j)' = OwnBuffer(t, j)
      BY <2>2, <1>8
    <3>2. OwnBuffer(t, j) \in DOMAIN heap
      BY <3>1, HeapKnown DEF NoBuffer
    <3> QED BY <3>1, <3>2, <1>9 DEF EInv, MadeFor
  <2> QED BY <2>1, <2>2
<1>13. Unfreed'
  BY <1>2, <1>9 DEF EInv, Unfreed, Up
<1>14. ASSUME NEW t \in Lists3, t # s
       PROVE  Steady(t)'
  <2>1. Walking(t)' = Walking(t)
    BY <1>0, <1>2, <1>3, <1>14 DEF Walking, Types
  <2>2. \A d \in Walking(t) : doing'[d] = doing[d] /\ tmp'[d] = tmp[d]
    BY <1>0, <1>2, <1>3, <1>14 DEF Walking, Types
  <2>3. Unmoved(t)
    BY <1>8, <1>14, <2>1, <2>2 DEF Unmoved, Lists3
  <2> QED BY <1>2, <1>4, <2>3, SteadySame
<1>15. Steady(s)'
  <2>1. Walking(s)' = Walking(s) /\ doing'[c] = "write" /\ tmp'[c] = k
    BY <1>0, <1>k, <1>2, <1>3 DEF Walking, Types
  <2>2. s \notin raced' => Alone(s)'
    BY <1>2, <1>6, <2>1 DEF Alone
  <2>3. AllUnmade(s)'
    BY <1>6, <2>1 DEF AllUnmade
  <2>4. s \notin raced' \cup refused' => AheadUnmade(s)'
    <3> SUFFICES ASSUME s \notin raced, s \notin refused' PROVE AheadUnmade(s)'
      BY <1>2
    <3>1. buf # NoBuffer /\ s \notin refused /\ Walking(s)' = {c} /\ AheadUnmade(s)
      BY <1>1, <1>4, <1>6, <2>1
    <3>2. \A j \in DOMAIN lists.l3[s] : j > k => OwnBuffer(s, j)' = NoBuffer
      BY <1>k, <1>5, <1>6, <1>8, <3>1 DEF AheadUnmade, Ahead
    <3>3. OwnBuffer(s, 1)' # NoBuffer
      <4>1. CASE k = 1
        BY <4>1, <1>8, <3>1
      <4>2. CASE k # 1
        BY <4>2, <1>3, <1>k, <1>5, <1>6, <1>8, <3>1 DEF AheadUnmade, Types
      <4> QED BY <4>1, <4>2
    <3> QED BY <1>k, <1>2, <2>1, <3>1, <3>2, <3>3 DEF AheadUnmade, Ahead
  <2> QED BY <2>2, <2>3, <2>4 DEF Steady
<1>16. /\ doing' \in [Client -> {"idle", "check", "walk", "write", "use"}]
       /\ set' \in [Client -> L3] /\ tmp' \in [Client -> Nat \ {0}] /\ count' \in [Client -> Nat]
  BY <1>2, <1>3 DEF Types
<1>17. \A d \in Client : InWalk(d)' => tmp'[d] \in DOMAIN lists.l3[set'[d]]
  BY <1>0, <1>k, <1>2, <1>3, <1>6 DEF Types, InPlace, InWalk
<1>18. evict2' \in [Blocks -> Entries]
  BY <1>1, <1>7, <1>9 DEF Entries
<1> QED BY <1>2, <1>5, <1>9, <1>11, <1>12, <1>13, <1>14, <1>15, <1>16, <1>17, <1>18, CallRest

\* A block written to buffer b.
With(f, n, x) == [j \in DOMAIN f \cup {n} |-> IF j = n THEN x ELSE f[j]]
Put(b, n, x) == heap' = [heap EXCEPT ![b].slots = With(@, n, x)]

Elsewhere(b) == \A h \in DOMAIN heap : h # b => heap'[h] = heap[h]

\* What a write changes: the slots of that buffer.
LEMMA PutIs ==
  ASSUME IsHeap(heap), NEW b, NEW n, NEW x, Put(b, n, x)
  PROVE  /\ IsHeap(heap') /\ Len(heap') = Len(heap) /\ DOMAIN heap' = DOMAIN heap
         /\ \A h \in DOMAIN heap : /\ heap'[h].freed = heap[h].freed /\ heap'[h].list = heap[h].list
                                   /\ heap'[h].late = heap[h].late
         /\ Elsewhere(b)
         /\ b \in DOMAIN heap => heap'[b].slots = With(heap[b].slots, n, x)
<1>1. \A h \in DOMAIN heap : IsBuffer(heap[h])
  BY DEF IsHeap
<1> DEFINE z == With(heap[b].slots, n, x)
<1>2. heap' = [heap EXCEPT ![b].slots = z]
  BY DEF Put
<1> HIDE DEF z
<1>3. heap' = [h \in DOMAIN heap |-> heap'[h]]
  BY <1>2
<1>4. ASSUME NEW h \in DOMAIN heap
      PROVE  /\ heap'[h].freed = heap[h].freed /\ heap'[h].list = heap[h].list
             /\ heap'[h].late = heap[h].late /\ IsBuffer(heap'[h])
             /\ h # b => heap'[h] = heap[h]
             /\ h = b => heap'[b].slots = z
  <2>1. CASE h # b
    BY <1>1, <1>2, <2>1
  <2>2. CASE h = b
    <3>1. heap'[h] = [heap[h] EXCEPT !.slots = z]
      BY <1>2, <2>2
    <3> QED BY <1>1, <2>2, <3>1 DEF IsBuffer
  <2> QED BY <2>1, <2>2
<1>5. IsHeap(heap') /\ Len(heap') = Len(heap) /\ DOMAIN heap' = DOMAIN heap
  <2>1. \A h \in DOMAIN heap : IsBuffer(heap'[h])
    BY <1>4
  <2> QED BY <1>3, <2>1, HeapChanged
<1>6. \A h \in DOMAIN heap : /\ heap'[h].freed = heap[h].freed /\ heap'[h].list = heap[h].list
                             /\ heap'[h].late = heap[h].late
  BY <1>4
<1>7. Elsewhere(b)
  BY <1>4 DEF Elsewhere
<1>8. b \in DOMAIN heap => heap'[b].slots = z
  BY <1>4
<1> QED BY <1>5, <1>6, <1>7, <1>8 DEF z

\* A block is written to a buffer.
LEMMA WriteKeeps ==
  ASSUME EInv, NEW c \in Client, Write(c)
  PROVE  EInv'
<1> DEFINE b == evict2[Here(c)].buf
           n == count[c] + 1
           x == L2Set(Here(c))[n]
<1>1. /\ stage # "oops" /\ doing[c] = "write" /\ count' = [count EXCEPT ![c] = @ + 1]
      /\ UNCHANGED <<lists, stage, row, evict1, evict2, doing, set, tmp, refused, raced>>
  BY DEF Write
<1>2. Put(b, n, x)
  BY Zenon DEF Write, Put, With
<1>3. lists \in Arrangements /\ Types /\ InPlace /\ IsHeap(heap)
  BY DEF EInv, Types
<1>4. /\ IsHeap(heap') /\ Len(heap') = Len(heap) /\ DOMAIN heap' = DOMAIN heap
      /\ \A h \in DOMAIN heap : /\ heap'[h].freed = heap[h].freed /\ heap'[h].list = heap[h].list
                                /\ heap'[h].late = heap[h].late
  <2> HIDE DEF b, n, x
  <2>1. IsHeap(heap') /\ Len(heap') = Len(heap) /\ DOMAIN heap' = DOMAIN heap
    BY <1>2, <1>3, PutIs
  <2>2. \A h \in DOMAIN heap : /\ heap'[h].freed = heap[h].freed /\ heap'[h].list = heap[h].list
                               /\ heap'[h].late = heap[h].late
    BY <1>2, <1>3, PutIs
  <2> QED BY <2>1, <2>2
<1>5. L3' = L3 /\ Owner' = Owner /\ Lists3' = Lists3
  BY <1>1, Arrangement_Stays
<1>6. Buffers' = Buffers /\ Done' = Done
  BY <1>1, <1>3, <1>5, BuffersStay DEF OwnBuffer, Done
<1>7. BookKept'
  <2>1. Book(Buffers, Done, heap, raced \cup refused)
    BY DEF EInv, BookKept
  <2>2. Book(Buffers, Done, heap', raced \cup refused)
    BY <1>3, <1>4, <2>1, BookContents
  <2> QED BY <1>1, <1>6, <2>2 DEF BookKept
<1>8. MadeFor'
  <2>1. \A s \in L3 : \A k \in DOMAIN lists.l3[s] : OwnBuffer(s, k)' = OwnBuffer(s, k)
    BY <1>1 DEF OwnBuffer
  <2>2. \A s \in L3 : \A k \in DOMAIN lists.l3[s] : OwnBuffer(s, k) # NoBuffer => OwnBuffer(s, k) \in DOMAIN heap
    BY HeapKnown DEF NoBuffer
  <2> QED BY <1>1, <1>4, <1>5, <2>1, <2>2 DEF EInv, MadeFor
<1>9. Unfreed'
  BY <1>1, <1>4 DEF EInv, Unfreed, Up
<1>10. \A s \in Lists3 : Steady(s)'
  BY <1>1, SteadyStays DEF EInv
<1>11. stage \notin {"init3", "init2"} /\ count[c] \in Nat
  BY <1>1, CallThere
<1>12. /\ evict2' \in [Blocks -> Entries]
       /\ doing' \in [Client -> {"idle", "check", "walk", "write", "use"}]
       /\ set' \in [Client -> L3] /\ tmp' \in [Client -> Nat \ {0}] /\ count' \in [Client -> Nat]
  BY <1>1, <1>3, <1>11 DEF Types
<1>13. \A d \in Client : InWalk(d)' => tmp'[d] \in DOMAIN lists.l3[set'[d]]
  BY <1>1, <1>3 DEF InPlace, InWalk
<1> QED BY <1>1, <1>4, <1>7, <1>8, <1>9, <1>10, <1>11, <1>12, <1>13, CallRest

\* A set gets its size, and the walk goes on.
LEMMA SizeKeeps ==
  ASSUME EInv, NEW c \in Client, Size(c)
  PROVE  EInv'
<1>0. PICK s : s = set[c]
  OBVIOUS
<1>k. PICK k : k = tmp[c]
  OBVIOUS
<1>1. /\ stage # "oops" /\ doing[c] = "write"
      /\ evict2' = [evict2 EXCEPT ![lists.l3[s][k]].size = count[c]]
      /\ IF k = Len(lists.l3[s]) THEN doing' = [doing EXCEPT ![c] = "use"] /\ UNCHANGED tmp
         ELSE doing' = [doing EXCEPT ![c] = "walk"] /\ tmp' = [tmp EXCEPT ![c] = @ + 1]
      /\ UNCHANGED <<lists, stage, row, evict1, heap, set, count, refused, raced>>
  BY <1>0, <1>k, Zenon DEF Size, Here, AtEnd
<1>2. lists \in Arrangements /\ Types /\ InPlace /\ IsHeap(heap)
  BY DEF EInv, Types
<1>3. /\ stage \notin {"init3", "init2"} /\ s \in Lists3 /\ s \in L3 /\ count[c] \in Nat
      /\ 1 \in DOMAIN lists.l3[s] /\ DOMAIN lists.l3[s] = 1..Len(lists.l3[s]) /\ Len(lists.l3[s]) \in Nat
  BY <1>0, <1>1, CallThere DEF Lists3
<1>4. /\ c \in Walking(s) /\ k \in DOMAIN lists.l3[s]
      /\ s \notin raced => Walking(s) = {c}
      /\ s \notin raced \cup refused => AheadUnmade(s)
  BY <1>0, <1>k, <1>1, TheWalker DEF InWalk
<1>5. evict2 \in [Blocks -> Entries] /\ lists.l3[s][k] \in Blocks
  BY <1>2, <1>3, <1>4, InBlocks DEF Types
<1>6. evict2' \in [Blocks -> Entries] /\ \A x \in Blocks : evict2'[x].buf = evict2[x].buf
  BY <1>1, <1>3, <1>5 DEF Entries
<1>7. \A t \in L3 : \A j \in DOMAIN lists.l3[t] : OwnBuffer(t, j)' = OwnBuffer(t, j)
  BY <1>1, <1>6, InBlocks DEF OwnBuffer
<1>8. L3' = L3 /\ Owner' = Owner /\ Lists3' = Lists3
  BY <1>1, Arrangement_Stays
<1>9. Buffers' = Buffers
  BY <1>1, <1>2, <1>7, BuffersStay
<1>10. BookKept' /\ Unfreed' /\ IsHeap(heap')
  BY <1>1, <1>2, <1>8, <1>9 DEF EInv, BookKept, Done, Unfreed, Up
<1>11. MadeFor'
  BY <1>1, <1>7, <1>8 DEF EInv, MadeFor
<1>12. ASSUME NEW t \in Lists3, t # s
       PROVE  Steady(t)'
  <2>1. Walking(t)' = Walking(t)
    BY <1>0, <1>1, <1>2, <1>12 DEF Walking, Types
  <2>2. \A d \in Walking(t) : doing'[d] = doing[d] /\ tmp'[d] = tmp[d]
    BY <1>0, <1>1, <1>2, <1>12 DEF Walking, Types
  <2>3. Unmoved(t)
    BY <1>7, <2>1, <2>2 DEF Unmoved, Lists3
  <2> QED BY <1>1, <2>3, SteadySame
<1>13. Steady(s)'
  <2>1. /\ k = Len(lists.l3[s]) => Walking(s)' = Walking(s) \ {c}
        /\ k # Len(lists.l3[s]) => Walking(s)' = Walking(s) /\ doing'[c] = "walk" /\ tmp'[c] = k + 1
    BY <1>0, <1>k, <1>1, <1>2 DEF Walking, Types
  <2>2. s \notin raced' => Alone(s)'
    BY <1>1, <1>4, <2>1 DEF Alone
  <2>3. s \notin raced' \cup refused' => AheadUnmade(s)' /\ AllUnmade(s)'
    <3> SUFFICES ASSUME s \notin raced, s \notin refused PROVE AheadUnmade(s)' /\ AllUnmade(s)'
      BY <1>1
    <3>1. Walking(s) = {c} /\ OwnBuffer(s, 1)' # NoBuffer
      BY <1>1, <1>3, <1>4, <1>7 DEF AheadUnmade
    <3>2. \A j \in DOMAIN lists.l3[s] : j > k => OwnBuffer(s, j)' = NoBuffer
      BY <1>k, <1>3, <1>4, <1>7 DEF AheadUnmade, Ahead
    <3>3. AllUnmade(s)'
      BY <3>1 DEF AllUnmade
    <3>4. AheadUnmade(s)'
      <4>1. CASE k = Len(lists.l3[s])
        BY <2>1, <3>1, <4>1 DEF AheadUnmade
      <4>2. CASE k # Len(lists.l3[s])
        <5>1. ASSUME NEW j \in DOMAIN lists.l3[s], Ahead(c, j)'
              PROVE  OwnBuffer(s, j)' = NoBuffer
          <6>1. j >= k + 1
            BY <1>3, <1>4, <2>1, <4>2, <5>1 DEF Ahead
          <6> QED BY <1>3, <1>4, <3>2, <6>1
        <5>2. Walking(s)' = {c}
          BY <2>1, <3>1, <4>2
        <5> QED BY <1>1, <3>1, <5>1, <5>2 DEF AheadUnmade
      <4> QED BY <4>1, <4>2
    <3> QED BY <3>3, <3>4
  <2> QED BY <2>2, <2>3 DEF Steady
<1>14. /\ doing' \in [Client -> {"idle", "check", "walk", "write", "use"}]
       /\ set' \in [Client -> L3] /\ tmp' \in [Client -> Nat \ {0}] /\ count' \in [Client -> Nat]
  <2>1. doing' \in [Client -> {"idle", "check", "walk", "write", "use"}]
    BY <1>1, <1>2 DEF Types
  <2>2. tmp' \in [Client -> Nat \ {0}]
    <3>1. tmp \in [Client -> Nat \ {0}] /\ tmp[c] + 1 \in Nat \ {0}
      BY <1>2 DEF Types
    <3> QED BY <1>1, <3>1
  <2> QED BY <1>1, <1>2, <2>1, <2>2 DEF Types
<1>15. \A d \in Client : InWalk(d)' => tmp'[d] \in DOMAIN lists.l3[set'[d]]
  BY <1>0, <1>k, <1>1, <1>2, <1>3, <1>4 DEF Types, InPlace, InWalk
<1> QED BY <1>1, <1>3, <1>6, <1>10, <1>11, <1>12, <1>13, <1>14, <1>15, CallRest

\* The inductive invariant of FreedOnce: after a dereference of what is not there,
\* where everything stops, no more than that nothing was freed twice.
BooksRight == Once(heap) /\ (stage # "oops" => EInv)

\* It holds at the load,
LEMMA BooksBegin == EvictInit => BooksRight
<1> SUFFICES ASSUME EvictInit PROVE BooksRight
  OBVIOUS
<1>1. /\ lists \in Arrangements /\ stage = "init3" /\ row = 1 /\ heap = <<>>
      /\ evict1 = [b \in Blocks |-> Unmade] /\ evict2 = [b \in Blocks |-> Unmade]
      /\ doing = [c \in Client |-> "idle"] /\ set = [c \in Client |-> 1]
      /\ tmp = [c \in Client |-> 1] /\ count = [c \in Client |-> 0] /\ refused = {} /\ raced = {}
  BY DEF EvictInit
<1>2. /\ Len(lists.l3) \in Nat \ {0} /\ L3 = 1..Len(lists.l3)
  BY <1>1, PlaceFacts
<1>3. IsHeap(heap) /\ DOMAIN heap = {} /\ Len(heap) = 0
  <2>1. heap \in Seq(Members(heap)) /\ DOMAIN heap = {} /\ Len(heap) = 0
    BY <1>1
  <2> QED BY <2>1 DEF IsHeap, IsSeq
<1>4. Unmade \in Entries
  BY DEF Unmade, Entries, NoBuffer
<1>5. Types
  BY <1>1, <1>2, <1>3, <1>4 DEF Types, Stages
<1>6. Rows /\ InPlace /\ Unfreed
  BY <1>1, <1>2, <1>3 DEF Rows, InPlace, InWalk, Unfreed
<1>7. /\ \A s \in L3 : lists.l3[s] # <<>> => HeadBuffer(lists.l3[s]) = NoBuffer
      /\ \A s \in DOMAIN lists.l2 : lists.l2[s] # <<>> => HeadBuffer(lists.l2[s]) = NoBuffer
      /\ \A s \in L3 : \A k \in DOMAIN lists.l3[s] : OwnBuffer(s, k) = NoBuffer
  <2>1. \A b \in Blocks : evict1[b].buf = NoBuffer /\ evict2[b].buf = NoBuffer
    BY <1>1 DEF Unmade
  <2>2. \A s \in L3 : lists.l3[s] # <<>> => lists.l3[s][1] \in Blocks
    BY <1>1, PlaceFacts, InBlocks
  <2>3. \A s \in DOMAIN lists.l2 : lists.l2[s] # <<>> => lists.l2[s][1] \in Blocks
    BY <1>1, PlaceFacts, InBlocks
  <2> QED BY <2>1, <2>2, <2>3, InBlocks DEF HeadBuffer, OwnBuffer
<1>8. /\ \A s \in L3 : HeadBuffer(lists.l3[s]) = NoBuffer
      /\ \A s \in DOMAIN lists.l2 : HeadBuffer(lists.l2[s]) = NoBuffer
  BY <1>7 DEF HeadBuffer
<1>9. HeadsThere
  <2>1. \A s : ~Passed2(s)
    BY <1>1 DEF Passed2
  <2>2. \A s \in L3 : ~Passed3(s)
    BY <1>1, <1>2 DEF Passed3
  <2> QED BY <1>8, <2>1, <2>2 DEF HeadsThere
<1>10. BookKept
  <2>1. \A o \in Owner : Buffers[o] = NoBuffer
    BY <1>1, <1>7, <1>8, Owners
  <2>2. DOMAIN Buffers = Owner
    BY BuffersTable
  <2> QED BY <1>3, <2>1, <2>2 DEF BookKept, Book, Apart, InHeap, Pending, Accounted, Once, NoBuffer
<1>11. MadeFor
  BY <1>7 DEF MadeFor
<1>12. \A s \in Lists3 : Steady(s)
  <2>1. \A s : Walking(s) = {}
    BY <1>1 DEF Walking
  <2>2. \A s \in Lists3 : \A k \in DOMAIN lists.l3[s] : OwnBuffer(s, k) = NoBuffer
    BY <1>7 DEF Lists3
  <2> QED BY <2>1, <2>2 DEF Steady, Alone, AheadUnmade, AllUnmade
<1> QED BY <1>3, <1>5, <1>6, <1>9, <1>10, <1>11, <1>12 DEF BooksRight, EInv, Once

\* every step keeps it,
LEMMA BooksStay == BooksRight /\ [EvictNext]_evictVars => BooksRight'
<1> SUFFICES ASSUME BooksRight, [EvictNext]_evictVars PROVE BooksRight'
  OBVIOUS
<1>1. EInv' => Once(heap)'
  BY DEF EInv, BookKept, Book
<1>2. CASE Share \/ Unload \/ Clean2 \/ Clean3
  <2>1. EInv
    BY <1>2 DEF BooksRight, Share, Unload, Clean2, Clean3
  <2> QED BY <1>1, <1>2, <2>1, ShareKeeps, UnloadKeeps, Clean2Keeps, Clean3Keeps, Zenon DEF BooksRight
<1>3. CASE Oops
  BY <1>3 DEF Oops, BooksRight, Once
<1>4. ASSUME NEW c \in Client, NEW s \in L3, Read(c, s)
      PROVE  BooksRight'
  <2>1. EInv
    BY <1>4 DEF BooksRight, Read
  <2> QED BY <1>1, <1>4, <2>1, ReadKeeps, Zenon DEF BooksRight
<1>5. ASSUME NEW c \in Client, Check(c) \/ Allocate(c) \/ Write(c) \/ Size(c) \/ Use(c)
      PROVE  BooksRight'
  <2>1. EInv
    BY <1>5 DEF BooksRight, Check, Allocate, Write, Size, Use
  <2> QED BY <1>1, <1>5, <2>1, CheckKeeps, AllocateKeeps, WriteKeeps, SizeKeeps, UseKeeps, Zenon DEF BooksRight
<1>6. CASE UNCHANGED evictVars
  <2>1. UNCHANGED <<lists, stage, row, evict1, evict2, heap, doing, set, tmp, count, refused, raced>>
    BY <1>6 DEF evictVars, calls
  <2>2. EInv => EInv'
    <3> SUFFICES ASSUME EInv PROVE EInv'
      OBVIOUS
    <3>1. Blocks' = Blocks /\ L3' = L3 /\ Owner' = Owner /\ Lists3' = Lists3
      BY <2>1, Arrangement_Stays
    <3>2. BookKept' /\ MadeFor' /\ Unfreed'
      BY <2>1, BooksAlone
    <3>3. Types' /\ Rows' /\ InPlace' /\ HeadsThere'
      BY <2>1, <3>1 DEF EInv, Types, Rows, InPlace, InWalk, HeadsThere, Passed2, Passed3, HeadBuffer
    <3>4. \A s \in Lists3' : Steady(s)'
      BY <2>1, <3>1, SteadyStays DEF EInv
    <3> QED BY <3>2, <3>3, <3>4 DEF EInv
  <2> QED BY <2>1, <2>2 DEF BooksRight, Once
<1> QED BY <1>2, <1>3, <1>4, <1>5, <1>6 DEF EvictNext, Call, InitOops, Refused

\* so it always holds.
LEMMA BooksInvariant == EvictSpec => []BooksRight
BY BooksBegin, BooksStay, PTL DEF EvictSpec

\* No eviction set is freed twice, and once the module is unloaded all are freed, but
\* for those a call made meanwhile and those of lists that were walked twice, whatever
\* lists the pools gave and however calls interleave with each other and with the
\* unloading (lists.c:196-211, main.c:839-846).
THEOREM FreedCorrect == EvictSpec => []FreedOnce
<1>1. BooksRight => FreedOnce
  <2> SUFFICES ASSUME BooksRight PROVE FreedOnce
    OBVIOUS
  <2>1. \A b \in DOMAIN heap : heap[b].freed \in {0, 1}
    BY DEF BooksRight, Once
  <2>2. ASSUME stage = "gone", NEW b \in DOMAIN heap
        PROVE  heap[b].freed = 1 \/ heap[b].late \/ heap[b].list \in raced \cup refused
    <3>1. Done = Owner
      BY <2>2 DEF Done
    <3>2. DOMAIN Buffers = Owner
      BY BuffersTable
    <3>3. Book(Buffers, Done, heap, raced \cup refused)
      BY <2>2 DEF BooksRight, EInv, BookKept
    <3>4. ~Owed(Buffers, Done, b)
      BY <3>1, <3>2 DEF Owed
    <3> QED BY <3>3, <3>4, Zenon DEF Book, Accounted
  <2> QED BY <2>1, <2>2 DEF FreedOnce
<1> QED BY <1>1, BooksInvariant, PTL

\* The contents of a set whose slots stay.
LEMMA WrittenSame ==
  ASSUME NEW hp, NEW hq, NEW e, NEW blocks, NEW n, Written(hp, e, blocks, n),
         e.buf # NoBuffer => hq[e.buf].slots = hp[e.buf].slots
  PROVE  Written(hq, e, blocks, n)
BY DEF Written

\* A step that is not about the eviction sets of a list, nor its calls.
Undisturbed(s) ==
  /\ Walking(s)' = Walking(s)
  /\ \A d \in Walking(s) : doing'[d] = doing[d] /\ tmp'[d] = tmp[d] /\ count'[d] = count[d] /\ Here(d)' = Here(d)
  /\ \A k \in DOMAIN lists.l3[s] : evict2'[lists.l3[s][k]] = evict2[lists.l3[s][k]]
  /\ \A k \in DOMAIN lists.l3[s] : OwnBuffer(s, k) # NoBuffer =>
       heap'[OwnBuffer(s, k)].slots = heap[OwnBuffer(s, k)].slots
  /\ \A d \in Client : doing'[d] = "use" /\ set'[d] = s => doing[d] = "use" /\ set[d] = s

\* Such a step leaves complete sets complete,
LEMMA CompleteSame ==
  ASSUME lists' = lists, NEW s \in Lists3, Undisturbed(s), NEW k \in DOMAIN lists.l3[s], Complete(lists.l3[s][k])
  PROVE  Complete(lists.l3[s][k])'
<1> DEFINE b == lists.l3[s][k]
<1>1. evict2'[b] = evict2[b] /\ (evict2[b].buf # NoBuffer => heap'[evict2[b].buf].slots = heap[evict2[b].buf].slots)
  BY DEF Undisturbed, OwnBuffer
<1>2. b' = b /\ L2Set(b)' = L2Set(b)
  BY Arrangement_Stays
<1>3. Written(heap, evict2[b], L2Set(b), Len(L2Set(b))) /\ evict2[b].size = Len(L2Set(b))
  BY DEF Complete
<1> HIDE DEF b
<1>4. Written(heap', evict2[b], L2Set(b), Len(L2Set(b)))
  BY <1>1, <1>3, WrittenSame
<1>5. Complete(b)'
  BY <1>1, <1>2, <1>3, <1>4 DEF Complete
<1> QED BY <1>5 DEF b

\* Where the calls of a walk are.
LEMMA WalkPlace ==
  ASSUME EInv, NEW s
  PROVE  \A d \in Walking(s) : /\ d \in Client /\ set[d] = s /\ doing[d] \in {"walk", "write"}
                               /\ tmp[d] \in DOMAIN lists.l3[s] /\ Here(d) = lists.l3[s][tmp[d]]
BY DEF EInv, InPlace, InWalk, Walking, Here

\* and what is known of the list known.
LEMMA ContentsSame ==
  ASSUME EInv, lists' = lists, Up' => Up, raced \subseteq raced', NEW s \in Lists3, Contents(s),
         Undisturbed(s)
  PROVE  Contents(s)'
<1>0. Top(s)' = Top(s) /\ \A b : L2Set(b)' = L2Set(b)
  BY Arrangement_Stays
<1> SUFFICES ASSUME Behind(s), Finished(s), InUse(s)
             PROVE  Behind(s)' /\ Finished(s)' /\ InUse(s)'
  BY <1>0 DEF Contents
<1>1. \A k \in DOMAIN lists.l3[s] : Complete(lists.l3[s][k]) => Complete(lists.l3[s][k])'
  BY CompleteSame
<1>2. \A k \in DOMAIN lists.l3[s] : OwnBuffer(s, k)' = OwnBuffer(s, k)
  BY DEF Undisturbed, OwnBuffer
<1>3. OwnBuffer(s, 1)' = OwnBuffer(s, 1)
  <2>1. 1 \in DOMAIN lists.l3[s]
    BY PlaceFacts DEF EInv, Types, Lists3
  <2> QED BY <1>2, <2>1
<1>4. Finished(s)'
  BY <1>1, <1>3 DEF Finished, Undisturbed
<1>5. InUse(s)'
  BY <1>3 DEF InUse, Undisturbed
<1>6. ASSUME NEW d \in Walking(s)
      PROVE  /\ \A k \in DOMAIN lists.l3[s] : k < tmp'[d] => Complete(lists.l3[s][k])'
             /\ doing'[d] = "write" => /\ OwnBuffer(s, tmp[d])' # NoBuffer
                                       /\ Written(heap', evict2'[Here(d)'], L2Set(Here(d))', count'[d])
  <2>1. doing'[d] = doing[d] /\ tmp'[d] = tmp[d] /\ count'[d] = count[d] /\ Here(d)' = Here(d)
    BY DEF Undisturbed
  <2>2. \A k \in DOMAIN lists.l3[s] : k < tmp'[d] => Complete(lists.l3[s][k])'
    BY <1>1, <2>1 DEF Behind
  <2>3. ASSUME doing[d] = "write"
        PROVE  /\ OwnBuffer(s, tmp[d])' # NoBuffer
               /\ Written(heap', evict2'[Here(d)'], L2Set(Here(d))', count'[d])
    <3>1. tmp[d] \in DOMAIN lists.l3[s] /\ Here(d) = lists.l3[s][tmp[d]]
      BY WalkPlace
    <3>2. OwnBuffer(s, tmp[d]) # NoBuffer /\ Written(heap, evict2[Here(d)], L2Set(Here(d)), count[d])
      BY <2>3 DEF Behind
    <3>3. evict2'[Here(d)] = evict2[Here(d)]
      BY <3>1 DEF Undisturbed
    <3>4. heap'[evict2[Here(d)].buf].slots = heap[evict2[Here(d)].buf].slots
      BY <3>1, <3>2 DEF Undisturbed, OwnBuffer
    <3>5. Written(heap', evict2[Here(d)], L2Set(Here(d)), count[d])
      BY <3>2, <3>4, WrittenSame
    <3>6. L2Set(Here(d))' = L2Set(Here(d))
      BY <1>0, <2>1
    <3>7. OwnBuffer(s, tmp[d])' # NoBuffer
      <4>1. PICK k \in DOMAIN lists.l3[s] : k = tmp[d]
        BY <3>1
      <4>2. OwnBuffer(s, k)' # NoBuffer
        BY <1>2, <3>2, <4>1
      <4> QED BY <2>1, <4>1, <4>2
    <3> QED BY <2>1, <3>3, <3>5, <3>6, <3>7
  <2> QED BY <2>1, <2>2, <2>3
<1>7. Behind(s)'
  BY <1>6 DEF Behind, Undisturbed
<1> QED BY <1>4, <1>5, <1>7

\* The head of a list.
LEMMA HeadPlace ==
  ASSUME lists \in Arrangements, NEW s \in Lists3
  PROVE  /\ s \in L3 /\ 1 \in DOMAIN lists.l3[s] /\ Top(s) = lists.l3[s][1] /\ Top(s) \in Blocks
         /\ <<3, s, 0>> \in Owner /\ Buffers[<<3, s, 0>>] = evict1[Top(s)].buf
<1>1. s \in L3 /\ lists.l3[s] # <<>>
  BY DEF Lists3
<1>2. 1 \in DOMAIN lists.l3[s] /\ lists.l3[s][1] \in Blocks
  BY <1>1, PlaceFacts, InBlocks, Zenon
<1>3. <<3, s, 0>> \in Owner /\ Buffers[<<3, s, 0>>] = HeadBuffer(lists.l3[s])
  BY <1>1, Owners, Zenon
<1> QED BY <1>1, <1>2, <1>3 DEF Top, HeadBuffer

\* A step that is not about what a list shares.
SharesAlike(s) ==
  /\ \A k \in DOMAIN lists.l3[s] : evict1'[lists.l3[s][k]] = evict1[lists.l3[s][k]]
  /\ evict1[Top(s)].buf # NoBuffer => heap'[evict1[Top(s)].buf].slots = heap[evict1[Top(s)].buf].slots

\* Such a step leaves what the list shares.
LEMMA SharingSame ==
  ASSUME lists \in Arrangements, lists' = lists, NEW s \in Lists3, Sharing(s), SharesAlike(s),
         Up' /\ Passed3(s)' => Up /\ Passed3(s)
  PROVE  Sharing(s)'
<1>0. Top(s)' = Top(s) /\ L1Set(Top(s))' = L1Set(Top(s))
  <2>1. PICK b : b = Top(s)
    OBVIOUS
  <2>2. b' = b
    BY <2>1, Arrangement_Stays
  <2> QED BY <2>1, Arrangement_Stays
<1>1. 1 \in DOMAIN lists.l3[s] /\ Top(s) = lists.l3[s][1]
  BY HeadPlace
<1>2. evict1'[Top(s)] = evict1[Top(s)]
  BY <1>1 DEF SharesAlike
<1> SUFFICES ASSUME Up, Passed3(s)
             PROVE  /\ \A k \in DOMAIN lists.l3[s] : evict1'[lists.l3[s][k]] = evict1'[Top(s)]
                    /\ evict1'[Top(s)].size = Len(L1Set(Top(s)))
                    /\ Written(heap', evict1'[Top(s)], L1Set(Top(s)), Len(L1Set(Top(s))))
  BY <1>0 DEF Sharing
<1>3. /\ \A k \in DOMAIN lists.l3[s] : evict1[lists.l3[s][k]] = evict1[Top(s)]
      /\ evict1[Top(s)].size = Len(L1Set(Top(s)))
      /\ Written(heap, evict1[Top(s)], L1Set(Top(s)), Len(L1Set(Top(s))))
  BY DEF Sharing
<1>4. Written(heap', evict1[Top(s)], L1Set(Top(s)), Len(L1Set(Top(s))))
  BY <1>3, WrittenSame DEF SharesAlike
<1> QED BY <1>2, <1>3, <1>4 DEF SharesAlike

\* Steps that change no set of a block.
LEMMA KeptNone ==
  ASSUME UNCHANGED <<lists, evict2, refused>>, RefusedNone, NoSizes
  PROVE  RefusedNone' /\ NoSizes'
<1>1. Lists3' = Lists3
  BY Arrangement_Stays
<1>2. \A s : L2Set(Top(s))' = L2Set(Top(s))
  <2> SUFFICES ASSUME NEW s PROVE L2Set(Top(s))' = L2Set(Top(s))
    OBVIOUS
  <2>1. Top(s)' = Top(s)
    BY DEF Top
  <2> QED BY <2>1 DEF L2Set
<1> QED BY <1>1, <1>2 DEF RefusedNone, NoSizes

\* Steps that leave heap and eviction sets alone.
LEMMA WholeAlone ==
  ASSUME EInv, CInv, UNCHANGED <<lists, evict1, evict2, heap, refused>>,
         \A s \in Lists3 : Up' /\ Passed3(s)' => Up /\ Passed3(s),
         \A s \in Lists3 : Contents(s)'
  PROVE  CInv'
<1>1. lists \in Arrangements
  BY DEF EInv, Types
<1>2. RefusedNone' /\ NoSizes'
  BY KeptNone DEF CInv
<1>3. \A s \in Lists3 : Sharing(s)'
  <2> SUFFICES ASSUME NEW s \in Lists3 PROVE Sharing(s)'
    OBVIOUS
  <2>1. SharesAlike(s)
    BY DEF SharesAlike
  <2> QED BY <1>1, <2>1, SharingSame DEF CInv
<1>4. Lists3' = Lists3
  BY Arrangement_Stays
<1> QED BY <1>2, <1>3, <1>4 DEF CInv

\* Unloading: nothing is claimed of the sets any more.
LEMMA DownWhole ==
  ASSUME EInv, CInv, Unload \/ Clean2 \/ Clean3
  PROVE  CInv'
<1>1. UNCHANGED <<lists, evict2, refused>>
  BY DEF Unload, Clean2, Clean3
<1>2. ~Up'
  BY DEF Unload, Clean2, Clean3, Advance, Up
<1>3. RefusedNone' /\ NoSizes'
  BY <1>1, KeptNone DEF CInv
<1>4. \A s : Contents(s)' /\ Sharing(s)'
  BY <1>2 DEF Contents, Sharing
<1> QED BY <1>3, <1>4 DEF CInv

\* A read begins.
LEMMA ReadWhole ==
  ASSUME EInv, CInv, NEW c \in Client, NEW s \in L3, Read(c, s)
  PROVE  CInv'
<1>1. /\ doing[c] = "idle"
      /\ doing' = [doing EXCEPT ![c] = "check"] /\ set' = [set EXCEPT ![c] = s]
      /\ UNCHANGED <<lists, stage, row, evict1, evict2, heap, tmp, count, refused, raced>>
  BY DEF Read
<1>2. Types
  BY DEF EInv
<1>3. ASSUME NEW t \in Lists3
      PROVE  Contents(t)'
  <2>1. Walking(t)' = Walking(t)
    BY <1>1, <1>2 DEF Walking, Types
  <2>2. \A d \in Walking(t) : doing'[d] = doing[d] /\ tmp'[d] = tmp[d] /\ count'[d] = count[d] /\ Here(d)' = Here(d)
    BY <1>1, <1>2 DEF Walking, Types, Here
  <2>3. \A d \in Client : doing'[d] = "use" /\ set'[d] = t => doing[d] = "use" /\ set[d] = t
    BY <1>1, <1>2 DEF Types
  <2>4. Undisturbed(t)
    BY <1>1, <2>1, <2>2, <2>3 DEF Undisturbed
  <2> QED BY <1>1, <2>4, ContentsSame DEF CInv, Up
<1> QED BY <1>1, <1>3, WholeAlone DEF Up, Passed3

\* Code is generated.
LEMMA UseWhole ==
  ASSUME EInv, CInv, NEW c \in Client, Use(c)
  PROVE  CInv'
<1>1. /\ doing[c] = "use"
      /\ doing' = [doing EXCEPT ![c] = "idle"] /\ tmp' = [tmp EXCEPT ![c] = 1]
      /\ count' = [count EXCEPT ![c] = 0] /\ set' = [set EXCEPT ![c] = 1]
      /\ UNCHANGED <<lists, stage, row, evict1, evict2, heap, refused, raced>>
  BY DEF Use
<1>2. Types
  BY DEF EInv
<1>3. ASSUME NEW t \in Lists3
      PROVE  Contents(t)'
  <2>1. Walking(t)' = Walking(t)
    BY <1>1, <1>2 DEF Walking, Types
  <2>2. \A d \in Walking(t) : doing'[d] = doing[d] /\ tmp'[d] = tmp[d] /\ count'[d] = count[d] /\ Here(d)' = Here(d)
    BY <1>1, <1>2 DEF Walking, Types, Here
  <2>3. \A d \in Client : doing'[d] = "use" /\ set'[d] = t => doing[d] = "use" /\ set[d] = t
    BY <1>1, <1>2 DEF Types
  <2>4. Undisturbed(t)
    BY <1>1, <2>1, <2>2, <2>3 DEF Undisturbed
  <2> QED BY <1>1, <2>4, ContentsSame DEF CInv, Up
<1> QED BY <1>1, <1>3, WholeAlone DEF Up, Passed3

\* A call finds the list complete, or walks it, with nobody else in the walk or with others.
LEMMA CheckWhole ==
  ASSUME EInv, CInv, NEW c \in Client, Check(c)
  PROVE  CInv'
<1>0. PICK s : s = set[c]
  OBVIOUS
<1>1. /\ stage # "oops" /\ doing[c] = "check"
      /\ doing' = [doing EXCEPT ![c] = IF Missing(lists.l3[s][1]) THEN "walk" ELSE "use"]
      /\ raced' = IF Walking(s) = {} THEN raced ELSE raced \cup {s}
      /\ tmp' = [tmp EXCEPT ![c] = 1]
      /\ UNCHANGED <<lists, stage, row, evict1, evict2, heap, set, count, refused>>
  BY <1>0, Zenon DEF Check
<1>2. lists \in Arrangements /\ Types
  BY DEF EInv, Types
<1>3. raced \subseteq raced' /\ Up' = Up
  BY <1>1 DEF Up
<1>4. ASSUME NEW t \in Lists3, t # s
      PROVE  Contents(t)'
  <2>1. Walking(t)' = Walking(t)
    BY <1>0, <1>1, <1>2, <1>4 DEF Walking, Types
  <2>2. \A d \in Walking(t) : doing'[d] = doing[d] /\ tmp'[d] = tmp[d] /\ count'[d] = count[d] /\ Here(d)' = Here(d)
    BY <1>0, <1>1, <1>2, <1>4 DEF Walking, Types, Here
  <2>3. \A d \in Client : doing'[d] = "use" /\ set'[d] = t => doing[d] = "use" /\ set[d] = t
    BY <1>0, <1>1, <1>2, <1>4 DEF Types
  <2>4. Undisturbed(t)
    BY <1>1, <2>1, <2>2, <2>3 DEF Undisturbed
  <2> QED BY <1>1, <1>3, <1>4, <2>4, ContentsSame DEF CInv
<1>5. Contents(s)'
  <2>1. CASE Walking(s) # {}
    BY <1>1, <2>1 DEF Contents
  <2>2. CASE Walking(s) = {}
    <3>0. s \in Lists3 /\ 1 \in DOMAIN lists.l3[s] /\ DOMAIN lists.l3[s] \subseteq Nat \ {0}
      BY <1>0, <1>1, CallThere
    <3>1. Contents(s) /\ (Top(s)' = Top(s)) /\ \A b : L2Set(b)' = L2Set(b)
      BY <3>0, <1>1, Arrangement_Stays DEF CInv
    <3> SUFFICES ASSUME Behind(s), Finished(s), InUse(s)
                 PROVE  Behind(s)' /\ Finished(s)' /\ InUse(s)'
      BY <1>3, <3>1 DEF Contents
    <3>2. \A k : OwnBuffer(s, k)' = OwnBuffer(s, k) /\ (Complete(lists.l3[s][k]) => Complete(lists.l3[s][k])')
      BY <1>1, <3>1 DEF OwnBuffer, Complete
    <3>3. CASE Missing(lists.l3[s][1])
      <4>1. OwnBuffer(s, 1) = NoBuffer
        BY <3>3 DEF Missing, OwnBuffer
      <4>2. Walking(s)' = {c} /\ doing'[c] = "walk" /\ tmp'[c] = 1
        BY <1>0, <1>1, <1>2, <2>2, <3>3 DEF Walking, Types
      <4>3. Behind(s)'
        BY <1>1, <3>0, <4>2 DEF Behind
      <4>4. Finished(s)'
        BY <4>2 DEF Finished
      <4>5. ~\E d \in Client : doing'[d] = "use" /\ set'[d] = s
        BY <1>1, <1>2, <3>3, <4>1 DEF InUse, Types
      <4> QED BY <4>3, <4>4, <4>5 DEF InUse
    <3>4. CASE ~Missing(lists.l3[s][1])
      <4>1. OwnBuffer(s, 1) # NoBuffer
        BY <3>4 DEF Missing, OwnBuffer
      <4>2. Walking(s)' = {}
        BY <1>0, <1>1, <1>2, <2>2, <3>4 DEF Walking, Types
      <4>3. Finished(s)'
        BY <1>1, <2>2, <3>2, <4>1 DEF Finished
      <4> QED BY <3>2, <4>1, <4>2, <4>3 DEF Behind, InUse
    <3> QED BY <3>3, <3>4
  <2> QED BY <2>1, <2>2
<1> QED BY <1>1, <1>4, <1>5, WholeAlone DEF Up, Passed3

\* The buffers of the blocks are different, and no block of a list has that of the list.
LEMMA BuffersApart ==
  ASSUME EInv, NEW s \in L3, NEW k \in DOMAIN lists.l3[s]
  PROVE  /\ \A t \in L3 : \A j \in DOMAIN lists.l3[t] :
              t # s \/ j # k => OwnBuffer(t, j) # OwnBuffer(s, k) \/ OwnBuffer(t, j) = NoBuffer
         /\ \A t \in Lists3 : evict1[Top(t)].buf # OwnBuffer(s, k) \/ evict1[Top(t)].buf = NoBuffer
<1>0. lists \in Arrangements /\ Apart(Buffers) /\ DOMAIN Buffers = Owner
  BY BuffersTable DEF EInv, Types, BookKept, Book
<1>1. <<3, s, k>> \in Owner /\ Buffers[<<3, s, k>>] = OwnBuffer(s, k) /\ k # 0
  BY <1>0, Owners, PlaceFacts
<1>2. ASSUME NEW t \in L3, NEW j \in DOMAIN lists.l3[t], t # s \/ j # k
      PROVE  OwnBuffer(t, j) # OwnBuffer(s, k) \/ OwnBuffer(t, j) = NoBuffer
  <2>1. <<3, t, j>> \in Owner /\ Buffers[<<3, t, j>>] = OwnBuffer(t, j)
    BY <1>0, Owners
  <2>2. <<3, t, j>> # <<3, s, k>>
    BY <1>2
  <2> QED BY <1>0, <1>1, <2>1, <2>2 DEF Apart
<1>3. ASSUME NEW t \in Lists3
      PROVE  evict1[Top(t)].buf # OwnBuffer(s, k) \/ evict1[Top(t)].buf = NoBuffer
  <2>1. <<3, t, 0>> \in Owner /\ Buffers[<<3, t, 0>>] = evict1[Top(t)].buf
    BY <1>0, HeadPlace
  <2>2. <<3, t, 0>> # <<3, s, k>>
    BY <1>1
  <2> QED BY <1>0, <1>1, <2>1, <2>2 DEF Apart
<1> QED BY <1>2, <1>3

\* What the buffers are in the heap.
LEMMA HeadKnown ==
  ASSUME EInv, NEW s \in Lists3
  PROVE  evict1[Top(s)].buf \in 0..Len(heap)
<1>1. <<3, s, 0>> \in Owner /\ Buffers[<<3, s, 0>>] = evict1[Top(s)].buf
  BY HeadPlace DEF EInv, Types
<1> QED BY <1>1, HeapKnown

\* Buffers made later leave those before alone.
LEMMA KnownSlots ==
  ASSUME EInv, \A h \in DOMAIN heap : heap'[h] = heap[h]
  PROVE  /\ \A s \in L3 : \A k \in DOMAIN lists.l3[s] : OwnBuffer(s, k) # NoBuffer =>
              heap'[OwnBuffer(s, k)].slots = heap[OwnBuffer(s, k)].slots
         /\ \A s \in Lists3 : evict1[Top(s)].buf # NoBuffer =>
              heap'[evict1[Top(s)].buf].slots = heap[evict1[Top(s)].buf].slots
<1>1. Len(heap) \in Nat /\ DOMAIN heap = 1..Len(heap)
  BY HeapKnown
<1>2. \A h : h \in 0..Len(heap) /\ h # NoBuffer => h \in DOMAIN heap
  BY <1>1 DEF NoBuffer
<1>3. \A s \in L3 : \A k \in DOMAIN lists.l3[s] : OwnBuffer(s, k) \in 0..Len(heap)
  BY HeapKnown
<1> QED BY <1>2, <1>3, HeadKnown

\* What init finds for the head of a list is written to the buffer its blocks share.
LEMMA ShareWhole ==
  ASSUME EInv, CInv, Share
  PROVE  CInv'
<1> DEFINE chain == InitList
           found == L1Set(InitList[1])
<1>0. stage \in {"init3", "init2"} /\ chain # <<>>
  BY DEF Share
<1>1. PICK buf : Kmalloc(buf, found, found, 0) /\ evict1' = Shared(chain, [buf |-> buf, size |-> Len(found)])
  BY Zenon DEF Share
<1>2. UNCHANGED <<lists, evict2, doing, set, tmp, count, refused, raced>>
  BY DEF Share, calls
<1>3. lists \in Arrangements /\ Types /\ Rows /\ InPlace
  BY DEF EInv, Types
<1>4. IsSeq(found)
  BY <1>3, SetsAreSeqs
<1>5. /\ stage = "init3" => row \in L3 /\ chain = lists.l3[row] /\ Advance("init3", lists.l3, "init2")
      /\ stage = "init2" => row \in DOMAIN lists.l2 /\ chain = lists.l2[row] /\ Advance("init2", lists.l2, "loaded")
  BY <1>0, <1>3 DEF InitList, Rows, Share
<1>6. found = L1Set(chain[1])
  OBVIOUS
<1> HIDE DEF chain, found
<1>7. /\ \A h \in DOMAIN heap : heap'[h] = heap[h]
      /\ buf # NoBuffer => heap'[buf].slots = found
      /\ buf = NoBuffer => found = <<>>
  BY <1>1, Allocated DEF NoBuffer
<1>8. RefusedNone' /\ NoSizes' /\ Lists3' = Lists3
  BY <1>2, KeptNone, Arrangement_Stays DEF CInv
<1>9. Up /\ Up'
  BY <1>0, <1>5 DEF Up, Advance
<1>10. ASSUME NEW t \in Lists3
       PROVE  Contents(t)'
  <2>1. Walking(t)' = Walking(t)
    BY <1>2 DEF Walking
  <2>2. \A d \in Walking(t) : doing'[d] = doing[d] /\ tmp'[d] = tmp[d] /\ count'[d] = count[d] /\ Here(d)' = Here(d)
    BY <1>2 DEF Here
  <2>3. \A k \in DOMAIN lists.l3[t] : OwnBuffer(t, k) # NoBuffer =>
          heap'[OwnBuffer(t, k)].slots = heap[OwnBuffer(t, k)].slots
    BY <1>7, KnownSlots DEF Lists3
  <2>4. Undisturbed(t)
    BY <1>2, <2>1, <2>2, <2>3 DEF Undisturbed
  <2> QED BY <1>2, <1>9, <2>4, ContentsSame DEF CInv
<1>11. \A b \in Blocks : evict1'[b] = IF b \in Members(chain) THEN [buf |-> buf, size |-> Len(found)] ELSE evict1[b]
  BY <1>1 DEF Shared
<1>12. ASSUME NEW t \in Lists3, stage = "init2" \/ t # row
       PROVE  Sharing(t)'
  <2>1. \A k \in DOMAIN lists.l3[t] : lists.l3[t][k] \in Blocks /\ lists.l3[t][k] \notin Members(chain)
    <3>1. ASSUME NEW k \in DOMAIN lists.l3[t], NEW j \in DOMAIN chain, chain[j] = lists.l3[t][k]
          PROVE  FALSE
      <4>1. CASE stage = "init2"
        <5>1. \A s \in DOMAIN lists.l2, r \in L3 : \A q \in DOMAIN lists.l2[s], l \in DOMAIN lists.l3[r] :
              lists.l2[s][q] # lists.l3[r][l]
          BY <1>3, OnePlace
        <5> QED BY <1>5, <3>1, <4>1, <5>1 DEF Lists3
      <4>2. CASE stage = "init3"
        BY <1>3, <1>5, <1>12, <3>1, <4>2, OnePlace DEF Lists3
      <4> QED BY <1>0, <4>1, <4>2
    <3> QED BY <3>1, InBlocks DEF Members, Lists3
  <2>2. SharesAlike(t)
    <3>1. evict1[Top(t)].buf # NoBuffer => heap'[evict1[Top(t)].buf].slots = heap[evict1[Top(t)].buf].slots
      BY <1>7, KnownSlots
    <3> QED BY <1>11, <2>1, <3>1 DEF SharesAlike
  <2>3. Up' /\ Passed3(t)' => Up /\ Passed3(t)
    <3>1. stage = "init3" => /\ t < row' => t < row
                             /\ stage' # "init3" => t < row
      <4>1. L3 = 1..Len(lists.l3) /\ Len(lists.l3) \in Nat /\ t \in L3
        BY <1>3, PlaceFacts DEF Lists3
      <4> QED BY <1>3, <1>5, <1>12, <4>1 DEF Advance, Rows
    <3> QED BY <1>0, <1>9, <3>1 DEF Passed3
  <2> QED BY <1>2, <1>3, <2>2, <2>3, SharingSame DEF CInv
<1>13. ASSUME NEW t \in Lists3, stage = "init3", t = row
       PROVE  Sharing(t)'
  <2>1. /\ 1 \in DOMAIN lists.l3[t] /\ Top(t) = lists.l3[t][1] /\ t \in L3 /\ chain = lists.l3[t]
    BY <1>3, <1>5, <1>13, HeadPlace
  <2>2. found = L1Set(Top(t))
    BY <1>6, <2>1
  <2>3. L1Set(Top(t))' = found /\ Top(t)' = Top(t)
    <3>1. PICK b : b = Top(t)
      OBVIOUS
    <3> QED BY <1>2, <2>2, <3>1, Arrangement_Stays
  <2>4. \A k \in DOMAIN lists.l3[t] : evict1'[lists.l3[t][k]] = [buf |-> buf, size |-> Len(found)]
    BY <1>11, <2>1, InBlocks DEF Members
  <2>5. evict1'[Top(t)] = [buf |-> buf, size |-> Len(found)]
    BY <2>1, <2>4
  <2>6. Written(heap', [buf |-> buf, size |-> Len(found)], found, Len(found))
    <3>1. Len(found) \in Nat /\ DOMAIN found = 1..Len(found) /\ (found = <<>> <=> Len(found) = 0)
      BY <1>4, SeqFacts
    <3> QED BY <1>7, <3>1 DEF Written
  <2> QED BY <1>2, <2>3, <2>4, <2>5, <2>6 DEF Sharing
<1> QED BY <1>0, <1>8, <1>10, <1>12, <1>13 DEF CInv

\* Steps on block k of list s in its walk: the other blocks.
LEMMA OthersComplete ==
  ASSUME EInv, lists' = lists, NEW s \in L3, NEW k \in DOMAIN lists.l3[s], NEW j \in DOMAIN lists.l3[s],
         \A x \in Blocks \ {lists.l3[s][k]} : evict2'[x] = evict2[x],
         OwnBuffer(s, j) # NoBuffer => heap'[OwnBuffer(s, j)].slots = heap[OwnBuffer(s, j)].slots,
         Complete(lists.l3[s][j]), j # k
  PROVE  Complete(lists.l3[s][j])'
<1> DEFINE b == lists.l3[s][j]
<1>1. b \in Blocks /\ b # lists.l3[s][k]
  BY InBlocks, OnePlace DEF EInv, Types
<1>2. evict2'[b] = evict2[b] /\ (evict2[b].buf # NoBuffer => heap'[evict2[b].buf].slots = heap[evict2[b].buf].slots)
  BY <1>1 DEF OwnBuffer
<1>3. b' = b /\ L2Set(b)' = L2Set(b)
  BY Arrangement_Stays
<1>4. Written(heap, evict2[b], L2Set(b), Len(L2Set(b))) /\ evict2[b].size = Len(L2Set(b))
  BY DEF Complete
<1> HIDE DEF b
<1>5. Written(heap', evict2[b], L2Set(b), Len(L2Set(b)))
  BY <1>2, <1>4, WrittenSame
<1>6. Complete(b)'
  BY <1>2, <1>3, <1>4, <1>5 DEF Complete
<1> QED BY <1>6 DEF b

\* Such a step leaves the other lists alone.
LEMMA OthersUndisturbed ==
  ASSUME EInv, lists' = lists, NEW s \in L3, NEW k \in DOMAIN lists.l3[s], NEW t \in Lists3, t # s,
         NEW c \in Client, set[c] = s, set' = set,
         \A d \in Client \ {c} : doing'[d] = doing[d] /\ tmp'[d] = tmp[d] /\ count'[d] = count[d],
         \A x \in Blocks \ {lists.l3[s][k]} : evict2'[x] = evict2[x],
         \A j \in DOMAIN lists.l3[t] : OwnBuffer(t, j) # NoBuffer =>
           heap'[OwnBuffer(t, j)].slots = heap[OwnBuffer(t, j)].slots
  PROVE  Undisturbed(t)
<1>1. Walking(t)' = Walking(t)
  BY DEF Walking
<1>2. \A d \in Walking(t) : doing'[d] = doing[d] /\ tmp'[d] = tmp[d] /\ count'[d] = count[d] /\ Here(d)' = Here(d)
  BY DEF Walking, Here
<1>3. \A j \in DOMAIN lists.l3[t] : evict2'[lists.l3[t][j]] = evict2[lists.l3[t][j]]
  BY InBlocks, OnePlace DEF EInv, Types, Lists3
<1>4. \A d \in Client : doing'[d] = "use" /\ set'[d] = t => doing[d] = "use" /\ set[d] = t
  OBVIOUS
<1> QED BY <1>1, <1>2, <1>3, <1>4 DEF Undisturbed

\* A new buffer, nothing written to it; or none, where nothing is wanted.
LEMMA AllocateWhole ==
  ASSUME EInv, CInv, NEW c \in Client, Allocate(c)
  PROVE  CInv'
<1>0. PICK s : s = set[c]
  OBVIOUS
<1>k. PICK k : k = tmp[c]
  OBVIOUS
<1>1. PICK buf : /\ Kmalloc(buf, L2Set(lists.l3[s][k]), <<>>, s)
                 /\ evict2' = [evict2 EXCEPT ![lists.l3[s][k]].buf = buf]
                 /\ refused' = IF buf = NoBuffer THEN refused \cup {s} ELSE refused
  BY <1>0, <1>k, Zenon DEF Allocate, Here
<1>2. /\ stage # "oops" /\ doing[c] = "walk"
      /\ doing' = [doing EXCEPT ![c] = "write"] /\ count' = [count EXCEPT ![c] = 0]
      /\ UNCHANGED <<lists, stage, row, evict1, set, tmp, raced>>
  BY DEF Allocate
<1>3. lists \in Arrangements /\ Types
  BY DEF EInv, Types
<1>4. /\ s \in Lists3 /\ s \in L3 /\ 1 \in DOMAIN lists.l3[s] /\ DOMAIN lists.l3[s] \subseteq Nat
  BY <1>0, <1>2, CallThere DEF Lists3
<1>5. /\ c \in Walking(s) /\ k \in DOMAIN lists.l3[s]
      /\ s \notin raced => Walking(s) = {c}
  BY <1>0, <1>k, <1>2, TheWalker DEF InWalk
<1>6. lists.l3[s][k] \in Blocks /\ Top(s) = lists.l3[s][1] /\ L2Set(lists.l3[s][k]) = L2Set(Top(s))
  BY <1>3, <1>4, <1>5, InBlocks, Congruent DEF Top
<1>7. /\ \A x \in Blocks : evict2'[x].size = evict2[x].size
      /\ \A x \in Blocks \ {lists.l3[s][k]} : evict2'[x] = evict2[x]
      /\ evict2'[lists.l3[s][k]].buf = buf
  BY <1>1, <1>3, <1>6 DEF Types, Entries
<1>8. /\ \A h \in DOMAIN heap : heap'[h] = heap[h]
      /\ buf # NoBuffer \/ L2Set(Top(s)) = <<>>
  BY <1>1, <1>6, Allocated DEF NoBuffer
<1>9. Lists3' = Lists3 /\ \A t : Top(t)' = Top(t) /\ L2Set(Top(t))' = L2Set(Top(t))
  <2>1. Lists3' = Lists3 /\ \A t : Top(t)' = Top(t)
    BY <1>2, Arrangement_Stays
  <2>2. \A t : L2Set(Top(t))' = L2Set(Top(t))
    BY <1>2, <2>1 DEF L2Set
  <2> QED BY <2>1, <2>2
<1>10. RefusedNone'
  BY <1>1, <1>4, <1>8, <1>9 DEF CInv, RefusedNone
<1>11. NoSizes'
  BY <1>2, <1>7, <1>9, InBlocks DEF CInv, NoSizes, Lists3
<1>12. \A t \in Lists3 : Sharing(t)'
  <2> SUFFICES ASSUME NEW t \in Lists3 PROVE Sharing(t)'
    OBVIOUS
  <2>1. SharesAlike(t)
    BY <1>2, <1>8, KnownSlots DEF SharesAlike
  <2> QED BY <1>2, <1>3, <2>1, SharingSame DEF CInv, Up, Passed3
<1>13. ASSUME NEW t \in Lists3, t # s
       PROVE  Contents(t)'
  <2>1. \A j \in DOMAIN lists.l3[t] : OwnBuffer(t, j) # NoBuffer =>
          heap'[OwnBuffer(t, j)].slots = heap[OwnBuffer(t, j)].slots
    BY <1>8, KnownSlots DEF Lists3
  <2>2. \A d \in Client \ {c} : doing'[d] = doing[d] /\ tmp'[d] = tmp[d] /\ count'[d] = count[d]
    BY <1>2, <1>3 DEF Types
  <2>3. Undisturbed(t)
    BY <1>0, <1>2, <1>4, <1>5, <1>7, <1>13, <2>1, <2>2, OthersUndisturbed
  <2> QED BY <1>2, <2>3, ContentsSame DEF CInv, Up
<1>14. Contents(s)'
  <2> SUFFICES ASSUME Up, s \notin raced, L2Set(Top(s)) # <<>>
               PROVE  Behind(s)' /\ Finished(s)' /\ InUse(s)'
    BY <1>2, <1>9 DEF Contents, Up
  <2>1. Behind(s) /\ InUse(s) /\ buf # NoBuffer /\ Walking(s) = {c}
    BY <1>4, <1>5, <1>8 DEF CInv, Contents
  <2>2. Walking(s)' = {c} /\ doing'[c] = "write" /\ tmp'[c] = k /\ count'[c] = 0
    BY <1>0, <1>k, <1>2, <1>3, <2>1 DEF Walking, Types
  <2>3. \A j \in DOMAIN lists.l3[s] : j < k => Complete(lists.l3[s][j])'
    <3> SUFFICES ASSUME NEW j \in DOMAIN lists.l3[s], j < k PROVE Complete(lists.l3[s][j])'
      OBVIOUS
    <3>1. Complete(lists.l3[s][j]) /\ j # k
      BY <1>k, <1>4, <1>5, <2>1 DEF Behind
    <3>2. OwnBuffer(s, j) # NoBuffer => heap'[OwnBuffer(s, j)].slots = heap[OwnBuffer(s, j)].slots
      BY <1>4, <1>8, KnownSlots
    <3> QED BY <1>2, <1>4, <1>5, <1>7, <3>1, <3>2, OthersComplete
  <2>4. OwnBuffer(s, k)' # NoBuffer
    BY <1>2, <1>7, <2>1 DEF OwnBuffer
  <2>5. \A e, blocks : Written(heap', e, blocks, 0)
    BY DEF Written
  <2>6. Behind(s)'
    BY <1>2, <2>2, <2>3, <2>4, <2>5 DEF Behind
  <2>7. ~\E d \in Client : doing'[d] = "use" /\ set'[d] = s
    BY <1>2, <1>3, <2>1 DEF InUse, Types
  <2>8. Finished(s)' /\ InUse(s)'
    BY <2>2, <2>7 DEF Finished, InUse
  <2> QED BY <2>6, <2>8
<1> QED BY <1>9, <1>10, <1>11, <1>12, <1>13, <1>14 DEF CInv

\* The walk writes to the buffer of the block it is at, which no other block has.
LEMMA WriteWhole ==
  ASSUME EInv, CInv, NEW c \in Client, Write(c)
  PROVE  CInv'
<1>0. PICK s : s = set[c]
  OBVIOUS
<1>k. PICK k : k = tmp[c]
  OBVIOUS
<1>b. PICK b : b = OwnBuffer(s, k)
  OBVIOUS
<1>n. PICK n : n = count[c]
  OBVIOUS
<1>1. /\ stage # "oops" /\ doing[c] = "write" /\ count' = [count EXCEPT ![c] = @ + 1]
      /\ n < Len(L2Set(lists.l3[s][k]))
      /\ UNCHANGED <<lists, stage, row, evict1, evict2, doing, set, tmp, refused, raced>>
  BY <1>0, <1>k, <1>n DEF Write, Here
<1>2. Put(b, n + 1, L2Set(lists.l3[s][k])[n + 1])
  BY <1>0, <1>k, <1>b, <1>n, Zenon DEF Write, Put, With, Here, OwnBuffer
<1>3. lists \in Arrangements /\ Types /\ IsHeap(heap)
  BY DEF EInv, Types
<1>4. /\ s \in Lists3 /\ s \in L3 /\ 1 \in DOMAIN lists.l3[s] /\ DOMAIN lists.l3[s] \subseteq Nat /\ n \in Nat
  BY <1>0, <1>n, <1>1, CallThere DEF Lists3
<1>5. /\ c \in Walking(s) /\ k \in DOMAIN lists.l3[s]
      /\ s \notin raced => Walking(s) = {c}
  BY <1>0, <1>k, <1>1, TheWalker DEF InWalk
<1>6. /\ \A h \in DOMAIN heap : h # b => heap'[h].slots = heap[h].slots
      /\ b \in DOMAIN heap => heap'[b].slots = With(heap[b].slots, n + 1, L2Set(lists.l3[s][k])[n + 1])
  <2>1. PICK x : x = L2Set(lists.l3[s][k])[n + 1]
    OBVIOUS
  <2>2. PICK m : m = n + 1
    OBVIOUS
  <2>3. Put(b, m, x)
    BY <1>2, <2>1, <2>2
  <2>4. Elsewhere(b)
    BY <1>3, <2>3, PutIs
  <2>5. b \in DOMAIN heap => heap'[b].slots = With(heap[b].slots, m, x)
    BY <1>3, <2>3, PutIs
  <2> QED BY <2>1, <2>2, <2>4, <2>5 DEF Elsewhere
<1>7. \A h : h \in 0..Len(heap) /\ h # NoBuffer => h \in DOMAIN heap
  BY HeapKnown DEF NoBuffer
<1>8. /\ \A t \in L3 : \A j \in DOMAIN lists.l3[t] : OwnBuffer(t, j) # NoBuffer /\ (t # s \/ j # k) =>
           heap'[OwnBuffer(t, j)].slots = heap[OwnBuffer(t, j)].slots
      /\ \A t \in Lists3 : evict1[Top(t)].buf # NoBuffer =>
           heap'[evict1[Top(t)].buf].slots = heap[evict1[Top(t)].buf].slots
  <2>1. \A t \in L3 : \A j \in DOMAIN lists.l3[t] : OwnBuffer(t, j) \in 0..Len(heap)
    BY HeapKnown
  <2>2. /\ \A t \in L3 : \A j \in DOMAIN lists.l3[t] :
              t # s \/ j # k => OwnBuffer(t, j) # b \/ OwnBuffer(t, j) = NoBuffer
        /\ \A t \in Lists3 : evict1[Top(t)].buf # b \/ evict1[Top(t)].buf = NoBuffer
    BY <1>b, <1>4, <1>5, BuffersApart
  <2> QED BY <1>6, <1>7, <2>1, <2>2, HeadKnown
<1>9. RefusedNone' /\ NoSizes' /\ Lists3' = Lists3
  BY <1>1, KeptNone, Arrangement_Stays DEF CInv
<1>10. \A t \in Lists3 : Sharing(t)'
  <2> SUFFICES ASSUME NEW t \in Lists3 PROVE Sharing(t)'
    OBVIOUS
  <2>1. SharesAlike(t)
    BY <1>1, <1>8 DEF SharesAlike
  <2> QED BY <1>1, <1>3, <2>1, SharingSame DEF CInv, Up, Passed3
<1>11. \A d \in Client \ {c} : doing'[d] = doing[d] /\ tmp'[d] = tmp[d] /\ count'[d] = count[d]
  BY <1>1, <1>3 DEF Types
<1>12. ASSUME NEW t \in Lists3, t # s
       PROVE  Contents(t)'
  <2>1. \A j \in DOMAIN lists.l3[t] : OwnBuffer(t, j) # NoBuffer =>
          heap'[OwnBuffer(t, j)].slots = heap[OwnBuffer(t, j)].slots
    BY <1>8, <1>12 DEF Lists3
  <2>2. Undisturbed(t)
    BY <1>0, <1>1, <1>4, <1>5, <1>11, <1>12, <2>1, OthersUndisturbed
  <2> QED BY <1>1, <2>2, ContentsSame DEF CInv, Up
<1>13. Contents(s)'
  <2>0. \A x : L2Set(x)' = L2Set(x)
    BY <1>1, Arrangement_Stays
  <2>1. Top(s)' = Top(s) /\ Up' = Up
    BY <1>1 DEF Top, Up
  <2> SUFFICES ASSUME Up, s \notin raced, L2Set(Top(s)) # <<>>
               PROVE  Behind(s)' /\ Finished(s)' /\ InUse(s)'
    BY <1>1, <2>0, <2>1 DEF Contents
  <2>2. Behind(s) /\ InUse(s) /\ Walking(s) = {c}
    BY <1>4, <1>5 DEF CInv, Contents
  <2>3. Walking(s)' = {c} /\ doing'[c] = "write" /\ tmp'[c] = k /\ count'[c] = n + 1
    BY <1>0, <1>k, <1>n, <1>1, <1>3, <2>2 DEF Walking, Types
  <2>4. \A j \in DOMAIN lists.l3[s] : j < k => Complete(lists.l3[s][j])'
    <3> SUFFICES ASSUME NEW j \in DOMAIN lists.l3[s], j < k PROVE Complete(lists.l3[s][j])'
      OBVIOUS
    <3>1. Complete(lists.l3[s][j]) /\ j # k
      BY <1>k, <1>4, <1>5, <2>2 DEF Behind
    <3>2. OwnBuffer(s, j) # NoBuffer => heap'[OwnBuffer(s, j)].slots = heap[OwnBuffer(s, j)].slots
      BY <1>4, <1>8, <3>1
    <3> QED BY <1>1, <1>4, <1>5, <3>1, <3>2, OthersComplete
  <2>5. b # NoBuffer /\ Written(heap, evict2[lists.l3[s][k]], L2Set(lists.l3[s][k]), n)
    BY <1>0, <1>k, <1>b, <1>n, <1>1, <2>2 DEF Behind, Here
  <2>6. b \in DOMAIN heap
    <3>1. b \in 0..Len(heap)
      BY <1>b, <1>4, <1>5, HeapKnown
    <3> QED BY <1>7, <2>5, <3>1
  <2>7. Written(heap', evict2'[lists.l3[s][k]], L2Set(lists.l3[s][k]), n + 1)
    <3>1. PICK e : e = evict2[lists.l3[s][k]]
      OBVIOUS
    <3>2. PICK w : w = L2Set(lists.l3[s][k])
      OBVIOUS
    <3>3. e.buf = b /\ Written(heap, e, w, n) /\ evict2' = evict2
      BY <1>b, <1>1, <2>5, <3>1, <3>2 DEF OwnBuffer
    <3>4. heap'[b].slots = With(heap[b].slots, n + 1, w[n + 1])
      BY <1>6, <2>6, <3>2
    <3>5. Written(heap', e, w, n + 1)
      BY <1>4, <2>5, <3>3, <3>4 DEF Written, With
    <3> QED BY <3>1, <3>2, <3>3, <3>5
  <2>8. OwnBuffer(s, k)' # NoBuffer
    BY <1>b, <1>1, <2>5 DEF OwnBuffer
  <2>9. Here(c)' = lists.l3[s][k] /\ L2Set(Here(c))' = L2Set(lists.l3[s][k])
    <3>1. Here(c)' = lists.l3[s][k]
      BY <1>0, <1>k, <1>1 DEF Here
    <3> QED BY <1>1, <3>1 DEF L2Set
  <2>10. Behind(s)'
    BY <1>1, <2>3, <2>4, <2>7, <2>8, <2>9 DEF Behind
  <2>11. ~\E d \in Client : doing'[d] = "use" /\ set'[d] = s
    BY <1>1, <1>3, <2>2 DEF InUse, Types
  <2>12. Finished(s)' /\ InUse(s)'
    BY <2>3, <2>11 DEF Finished, InUse
  <2> QED BY <2>10, <2>12
<1> QED BY <1>9, <1>10, <1>12, <1>13 DEF CInv

\* The size completes the set; at the end of the list all are complete.
LEMMA SizeWhole ==
  ASSUME EInv, CInv, NEW c \in Client, Size(c)
  PROVE  CInv'
<1>0. PICK s : s = set[c]
  OBVIOUS
<1>k. PICK k : k = tmp[c]
  OBVIOUS
<1>b. PICK b : b = lists.l3[s][k]
  OBVIOUS
<1>1. /\ stage # "oops" /\ doing[c] = "write" /\ count[c] = Len(L2Set(b))
      /\ evict2' = [evict2 EXCEPT ![b].size = count[c]]
      /\ IF k = Len(lists.l3[s]) THEN doing' = [doing EXCEPT ![c] = "use"] /\ UNCHANGED tmp
         ELSE doing' = [doing EXCEPT ![c] = "walk"] /\ tmp' = [tmp EXCEPT ![c] = @ + 1]
      /\ UNCHANGED <<lists, stage, row, evict1, heap, set, count, refused, raced>>
  BY <1>0, <1>k, <1>b, Zenon DEF Size, Here, AtEnd
<1>2. lists \in Arrangements /\ Types
  BY DEF EInv, Types
<1>3. /\ s \in Lists3 /\ s \in L3 /\ Len(lists.l3[s]) \in Nat
      /\ 1 \in DOMAIN lists.l3[s] /\ DOMAIN lists.l3[s] = 1..Len(lists.l3[s])
  BY <1>0, <1>1, CallThere DEF Lists3
<1>4. /\ c \in Walking(s) /\ k \in DOMAIN lists.l3[s]
      /\ s \notin raced => Walking(s) = {c}
  BY <1>0, <1>k, <1>1, TheWalker DEF InWalk
<1>5. b \in Blocks /\ Top(s) = lists.l3[s][1] /\ L2Set(b) = L2Set(Top(s)) /\ Len(L2Set(b)) \in Nat
  BY <1>2, <1>3, <1>4, <1>b, InBlocks, Congruent, LengthsNat DEF Top
<1>6. /\ \A x \in Blocks : evict2'[x].buf = evict2[x].buf
      /\ \A x \in Blocks \ {b} : evict2'[x] = evict2[x]
      /\ evict2'[b].size = Len(L2Set(b))
  BY <1>1, <1>2, <1>5 DEF Types, Entries
<1>7. Lists3' = Lists3 /\ \A t : Top(t)' = Top(t) /\ L2Set(Top(t))' = L2Set(Top(t))
  <2>1. Lists3' = Lists3 /\ \A t : Top(t)' = Top(t)
    BY <1>1, Arrangement_Stays
  <2>2. \A t : L2Set(Top(t))' = L2Set(Top(t))
    BY <1>1, <2>1 DEF L2Set
  <2> QED BY <2>1, <2>2
<1>8. RefusedNone'
  BY <1>1, <1>7 DEF CInv, RefusedNone
<1>9. NoSizes'
  <2> SUFFICES ASSUME NEW t \in Lists3, L2Set(Top(t)) = <<>>, NEW j \in DOMAIN lists.l3[t]
               PROVE  evict2'[lists.l3[t][j]].size = 0
    BY <1>1, <1>7 DEF NoSizes
  <2>1. evict2[lists.l3[t][j]].size = 0 /\ lists.l3[t][j] \in Blocks
    BY InBlocks DEF CInv, NoSizes, Lists3
  <2>2. CASE lists.l3[t][j] = b
    <3>1. t = s
      BY <1>b, <1>2, <1>3, <1>4, <2>2, OnePlace DEF Lists3
    <3> QED BY <1>5, <1>6, <2>2, <3>1
  <2>3. CASE lists.l3[t][j] # b
    BY <1>6, <2>1, <2>3
  <2> QED BY <2>2, <2>3
<1>10. \A t \in Lists3 : Sharing(t)'
  <2> SUFFICES ASSUME NEW t \in Lists3 PROVE Sharing(t)'
    OBVIOUS
  <2>1. SharesAlike(t)
    BY <1>1 DEF SharesAlike
  <2> QED BY <1>1, <1>2, <2>1, SharingSame DEF CInv, Up, Passed3
<1>11. \A d \in Client \ {c} : doing'[d] = doing[d] /\ tmp'[d] = tmp[d] /\ count'[d] = count[d]
  BY <1>1, <1>2 DEF Types
<1>12. ASSUME NEW t \in Lists3, t # s
       PROVE  Contents(t)'
  <2>1. Undisturbed(t)
    BY <1>0, <1>b, <1>1, <1>3, <1>4, <1>6, <1>11, <1>12, OthersUndisturbed
  <2> QED BY <1>1, <2>1, ContentsSame DEF CInv, Up
<1>13. Contents(s)'
  <2> SUFFICES ASSUME Up, s \notin raced, L2Set(Top(s)) # <<>>
               PROVE  Behind(s)' /\ Finished(s)' /\ InUse(s)'
    BY <1>1, <1>7 DEF Contents, Up
  <2>1. Behind(s) /\ InUse(s) /\ Walking(s) = {c}
    BY <1>3, <1>4 DEF CInv, Contents
  <2>2. \A j \in DOMAIN lists.l3[s] : j < k => Complete(lists.l3[s][j])'
    <3> SUFFICES ASSUME NEW j \in DOMAIN lists.l3[s], j < k PROVE Complete(lists.l3[s][j])'
      OBVIOUS
    <3>1. Complete(lists.l3[s][j]) /\ j # k
      BY <1>k, <1>3, <1>4, <2>1 DEF Behind
    <3> QED BY <1>b, <1>1, <1>3, <1>4, <1>6, <3>1, OthersComplete
  <2>3. Complete(lists.l3[s][k])'
    <3>1. Written(heap, evict2[b], L2Set(b), Len(L2Set(b)))
      BY <1>0, <1>k, <1>b, <1>1, <2>1 DEF Behind, Here
    <3>2. Written(heap, evict2'[b], L2Set(b), Len(L2Set(b)))
      BY <1>5, <1>6, <3>1 DEF Written
    <3>3. PICK x : x = b
      OBVIOUS
    <3>4. L2Set(x)' = L2Set(x)
      BY <1>1, Arrangement_Stays
    <3>5. Complete(x)'
      BY <1>1, <1>6, <3>2, <3>3, <3>4 DEF Complete
    <3> QED BY <1>b, <1>1, <3>3, <3>5 DEF Complete, L2Set
  <2>4. \A j \in DOMAIN lists.l3[s] : j <= k => Complete(lists.l3[s][j])'
    BY <1>3, <1>4, <2>2, <2>3
  <2>5. OwnBuffer(s, 1)' # NoBuffer
    <3>1. PICK x : x = lists.l3[s][1]
      OBVIOUS
    <3>2. Complete(x)'
      <4>1. 1 \in DOMAIN lists.l3[s] /\ 1 <= k
        BY <1>3, <1>4
      <4>2. Complete(lists.l3[s][1])'
        BY <2>4, <4>1
      <4> QED BY <1>1, <3>1, <4>2 DEF Complete, L2Set
    <3>3. L2Set(x)' = L2Set(Top(s)) /\ Len(L2Set(Top(s))) \in Nat \ {0}
      BY <1>1, <1>2, <1>5, <3>1, Arrangement_Stays, LengthsNat
    <3>4. evict2'[x].buf # NoBuffer
      BY <3>2, <3>3 DEF Complete, Written
    <3> QED BY <1>1, <3>1, <3>4 DEF OwnBuffer
  <2>6. CASE k = Len(lists.l3[s])
    <3>1. Walking(s)' = {}
      BY <1>0, <1>1, <1>2, <2>1, <2>6 DEF Walking, Types
    <3>2. \A j \in DOMAIN lists.l3[s] : Complete(lists.l3[s][j])'
      BY <1>3, <2>4, <2>6
    <3> QED BY <1>1, <2>5, <3>1, <3>2 DEF Behind, Finished, InUse
  <2>7. CASE k # Len(lists.l3[s])
    <3>1. Walking(s)' = {c} /\ doing'[c] = "walk" /\ tmp'[c] = k + 1
      BY <1>0, <1>k, <1>1, <1>2, <2>1, <2>7 DEF Walking, Types
    <3>2. \A j \in DOMAIN lists.l3[s] : j < k + 1 => Complete(lists.l3[s][j])'
      BY <1>3, <1>4, <2>4
    <3>3. Behind(s)'
      BY <1>1, <3>1, <3>2 DEF Behind
    <3>4. ~\E d \in Client : doing'[d] = "use" /\ set'[d] = s
      BY <1>1, <1>2, <2>1, <2>7 DEF InUse, Types
    <3> QED BY <3>1, <3>3, <3>4 DEF Finished, InUse
  <2> QED BY <2>6, <2>7
<1> QED BY <1>7, <1>8, <1>9, <1>10, <1>12, <1>13 DEF CInv

-----------------------------------------------------------------------------
\* The inductive invariant of SetsWhole, with BooksRight.
SetsRight == stage # "oops" => CInv

\* It holds at the load,
LEMMA SetsBegin == EvictInit => SetsRight
<1> SUFFICES ASSUME EvictInit PROVE CInv
  BY DEF SetsRight
<1>1. /\ lists \in Arrangements /\ stage = "init3" /\ row = 1
      /\ evict2 = [b \in Blocks |-> Unmade] /\ doing = [c \in Client |-> "idle"]
      /\ refused = {}
  BY DEF EvictInit
<1>2. NoSizes
  BY <1>1, InBlocks DEF NoSizes, Lists3, Unmade
<1>3. \A s : Walking(s) = {} /\ ~\E c \in Client : doing[c] = "use" /\ set[c] = s
  BY <1>1 DEF Walking
<1>4. \A s \in Lists3 : OwnBuffer(s, 1) = NoBuffer
  BY <1>1, HeadPlace DEF OwnBuffer, Unmade, Top
<1>5. \A s \in Lists3 : Contents(s)
  BY <1>3, <1>4 DEF Contents, Behind, Finished, InUse
<1>6. \A s \in Lists3 : Sharing(s)
  BY <1>1, PlaceFacts DEF Sharing, Passed3, Lists3
<1> QED BY <1>1, <1>2, <1>5, <1>6 DEF CInv, RefusedNone

\* and every step keeps it.
LEMMA SetsStay == BooksRight /\ SetsRight /\ [EvictNext]_evictVars => SetsRight'
<1> SUFFICES ASSUME BooksRight, SetsRight, [EvictNext]_evictVars PROVE SetsRight'
  OBVIOUS
<1>0. stage # "oops" => EInv /\ CInv
  BY DEF BooksRight, SetsRight
<1>1. CASE Share
  BY <1>0, <1>1, ShareWhole DEF SetsRight, Share
<1>2. CASE Unload \/ Clean2 \/ Clean3
  <2>1. stage # "oops"
    BY <1>2 DEF Unload, Clean2, Clean3
  <2> QED BY <1>0, <1>2, <2>1, DownWhole DEF SetsRight
<1>3. CASE Oops
  BY <1>3 DEF Oops, SetsRight
<1>4. ASSUME NEW c \in Client, NEW s \in L3, Read(c, s)
      PROVE  SetsRight'
  <2>1. stage # "oops"
    BY <1>4 DEF Read
  <2> QED BY <1>0, <1>4, <2>1, ReadWhole DEF SetsRight
<1>5. ASSUME NEW c \in Client, Check(c) \/ Allocate(c) \/ Write(c) \/ Size(c) \/ Use(c)
      PROVE  SetsRight'
  <2>1. stage # "oops"
    BY <1>5 DEF Check, Allocate, Write, Size, Use
  <2> QED BY <1>0, <1>5, <2>1, CheckWhole, AllocateWhole, WriteWhole, SizeWhole, UseWhole, Zenon DEF SetsRight
<1>6. CASE UNCHANGED evictVars
  <2>1. UNCHANGED <<lists, stage, row, evict1, evict2, heap, doing, set, tmp, count, refused, raced>>
    BY <1>6 DEF evictVars, calls
  <2> SUFFICES ASSUME EInv, CInv, stage # "oops" PROVE CInv'
    BY <1>0, <2>1 DEF SetsRight
  <2>2. ASSUME NEW s \in Lists3
        PROVE  Contents(s)'
    <3>1. Undisturbed(s)
      BY <2>1 DEF Undisturbed, Walking, Here
    <3> QED BY <2>1, <3>1, ContentsSame DEF CInv, Up
  <2> QED BY <2>1, <2>2, WholeAlone DEF Up, Passed3
<1> QED BY <1>1, <1>2, <1>3, <1>4, <1>5, <1>6 DEF EvictNext, Call, InitOops, Refused

\* The eviction sets code is generated from are whole and not freed, and those the
\* blocks of a list share evict each of them, whatever lists the pools gave and for any
\* number of calls, unless two of them met in the walk of the list
\* (lists.c:160-194, parser.c:317-327, main.c:346-355).
THEOREM WholeCorrect == EvictSpec => []SetsWhole
<1>1. BooksRight /\ SetsRight => SetsWhole
  <2> SUFFICES ASSUME BooksRight, SetsRight, NEW c \in Client, doing[c] = "use", stage = "loaded",
                      set[c] \notin raced, NEW b \in Members(lists.l3[set[c]])
               PROVE  Whole(evict2[b], L2Set(b)) /\ Whole(evict1[b], L1Set(b))
    BY DEF SetsWhole
  <2>0. EInv /\ CInv /\ lists \in Arrangements /\ Up
    BY DEF BooksRight, SetsRight, EInv, Types, Up
  <2>1. PICK s : s = set[c]
    OBVIOUS
  <2>2. s \in Lists3 /\ s \in L3 /\ 1 \in DOMAIN lists.l3[s]
    BY <2>0, <2>1, CallThere DEF Lists3
  <2>3. PICK k \in DOMAIN lists.l3[s] : b = lists.l3[s][k]
    BY <2>1 DEF Members
  <2>4. Top(s) = lists.l3[s][1] /\ L1Set(b) = L1Set(Top(s)) /\ L2Set(b) = L2Set(Top(s))
    BY <2>0, <2>2, <2>3, Congruent DEF Top
  <2>5. \A h : h \in 0..Len(heap) /\ h # NoBuffer => heap[h].freed = 0
    BY <2>0, HeapKnown DEF EInv, Unfreed, NoBuffer
  <2>6. Whole(evict1[b], L1Set(b))
    <3>1. /\ evict1[b] = evict1[Top(s)] /\ evict1[Top(s)].size = Len(L1Set(Top(s)))
          /\ Written(heap, evict1[Top(s)], L1Set(Top(s)), Len(L1Set(Top(s))))
      BY <2>0, <2>2, <2>3 DEF CInv, Sharing, Passed3
    <3>2. evict1[Top(s)].buf \in 0..Len(heap)
      BY <2>0, <2>2, HeadKnown
    <3> QED BY <2>4, <2>5, <3>1, <3>2 DEF Whole, Written
  <2>7. Whole(evict2[b], L2Set(b))
    <3>1. CASE L2Set(Top(s)) = <<>>
      <4>1. evict2[b].size = 0 /\ Len(L2Set(b)) = 0
        BY <2>0, <2>2, <2>3, <2>4, <3>1 DEF CInv, NoSizes
      <4> QED BY <4>1 DEF Whole
    <3>2. CASE L2Set(Top(s)) # <<>>
      <4>1. Complete(b)
        BY <2>0, <2>1, <2>2, <2>3, <3>2 DEF CInv, Contents, InUse, Finished
      <4>2. evict2[b].buf \in 0..Len(heap)
        BY <2>0, <2>2, <2>3, HeapKnown DEF OwnBuffer
      <4> QED BY <2>5, <4>1, <4>2 DEF Whole, Written, Complete
    <3> QED BY <3>1, <3>2
  <2> QED BY <2>6, <2>7
<1>2. EvictInit => BooksRight /\ SetsRight
  BY BooksBegin, SetsBegin
<1>3. BooksRight /\ SetsRight /\ [EvictNext]_evictVars => (BooksRight /\ SetsRight)'
  BY BooksStay, SetsStay
<1> QED BY <1>1, <1>2, <1>3, PTL DEF EvictSpec
=============================================================================
