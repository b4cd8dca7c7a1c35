-------------------------------- MODULE Lists --------------------------------
(***************************************************************************)
(* buffer_to_cachesets and shuffle_list: the blocks of one pool become one *)
(* doubly linked list per cache set of a level, and every list is shuffled *)
(* by exchanging nodes.  The links live in the blocks themselves, and the  *)
(* code generator, the eviction sets and the clean-up walk them.           *)
(***************************************************************************)
EXTENDS Integers, Sequences, FiniteSets

CONSTANTS
  N,              \* blocks in the pool, numbered in the order of their addresses
  S               \* cache sets of the level

Block == 1..N
Index == 1..S
NULL == 0

ASSUME ListsAssumption == N \in Nat /\ S \in Nat \ {0}

VARIABLES
  pc,             \* fill | shuffle | done
  setOf,          \* the set of each block: where its physical page happens to be
  at,             \* fill: the next block of the pool
  list,           \* shuffle: the list under way
  i,              \* shuffle: the position to exchange
  head,           \* sets[]
  next, prev      \* the links of every block

vars == <<pc, setOf, at, list, i, head, next, prev>>

\* The block k steps from the head, NULL beyond the end.
At(s) ==
  LET walk[k \in 0..N] ==
        IF k = 0 THEN head[s]
        ELSE IF walk[k-1] = NULL THEN NULL ELSE next[walk[k-1]]
  IN  walk

\* list_length, for a list that ends.
Length(s) == Cardinality({k \in 0..N : At(s)[k] # NULL})

-----------------------------------------------------------------------------
\* A block becomes the head of its list.
Fill ==
  /\ pc = "fill" /\ at \in Block
  /\ LET old == head[setOf[at]]
     IN  /\ next' = [next EXCEPT ![at] = old]
         /\ prev' = [b \in Block |-> IF b = at THEN NULL ELSE IF b = old THEN at ELSE prev[b]]
  /\ head' = [head EXCEPT ![setOf[at]] = at]
  /\ at' = at + 1
  /\ UNCHANGED <<pc, setOf, list, i>>

\* list_length(sets[s]) nodes, the last at n - 1.
Begin(s) == list' = s /\ i' = Length(s) - 1

\* The pool is used up; then one list after the other.
Filled ==
  /\ pc = "fill" /\ at \notin Block
  /\ pc' = "shuffle"
  /\ Begin(1)
  /\ UNCHANGED <<setOf, at, head, next, prev>>

\* The loop of shuffle_list is over: i > 1 fails, or the list has at most two.
NextList ==
  /\ pc = "shuffle" /\ i <= 1
  /\ IF list < S THEN Begin(list + 1) /\ UNCHANGED pc
                 ELSE pc' = "done" /\ UNCHANGED <<list, i>>
  /\ UNCHANGED <<setOf, at, head, next, prev>>

SetNext(m, x, v) == IF x = NULL THEN m ELSE [m EXCEPT !.next[x] = v]
SetPrev(m, x, v) == IF x = NULL THEN m ELSE [m EXCEPT !.prev[x] = v]

\* The neighbours are redirected one after the other, then the nodes exchange
\* their links.   Mutant: the successor of b is forgotten.
Swapped_Forget(m, a, b) ==
  LET m1 == SetPrev(m,  m.next[a],  b)
      m2 == SetNext(m1, m1.prev[a], b)
      m3 == SetNext(m2, m2.prev[b], a)
  IN  [next |-> [m3.next EXCEPT ![a] = m3.next[b], ![b] = m3.next[a]],
       prev |-> [m3.prev EXCEPT ![a] = m3.prev[b], ![b] = m3.prev[a]]]

Swapped(m, a, b) ==
  LET m1 == SetPrev(m,  m.next[a],  b)
      m2 == SetNext(m1, m1.prev[a], b)
      m3 == SetPrev(m2, m2.next[b], a)
      m4 == SetNext(m3, m3.prev[b], a)
  IN  [next |-> [m4.next EXCEPT ![a] = m4.next[b], ![b] = m4.next[a]],
       prev |-> [m4.prev EXCEPT ![a] = m4.prev[b], ![b] = m4.prev[a]]]

\* Neighbours, and blocks with one block in between, are left alone.
\* Mutant: neighbours are exchanged as well.
TooClose_Not(a, b) == FALSE
TooClose(a, b) == next[a] = b \/ prev[b] = a \/ next[a] = prev[b]

\* One turn of the loop, with the random position j: never the head.
Positions == 1..i-1

Shuffle(j) ==
  /\ pc = "shuffle" /\ i > 1 /\ j \in Positions
  /\ LET a == At(list)[j]
         b == At(list)[i]
         m == Swapped([next |-> next, prev |-> prev], a, b)
     IN  IF TooClose(a, b) THEN UNCHANGED <<next, prev>>
         ELSE next' = m.next /\ prev' = m.prev
  /\ i' = i - 1
  /\ UNCHANGED <<pc, setOf, at, list, head>>

-----------------------------------------------------------------------------
Init ==
  /\ pc = "fill" /\ at = 1 /\ list = 1 /\ i = 0
  /\ setOf \in [Block -> Index]
  /\ head = [s \in Index |-> NULL]
  /\ next = [b \in Block |-> NULL] /\ prev = [b \in Block |-> NULL]

Next == Fill \/ Filled \/ NextList \/ \E j \in 0..N : Shuffle(j)

Spec == Init /\ [][Next]_vars

-----------------------------------------------------------------------------
\* prev is the inverse of next: exchanging two nodes leaves no link that points
\* at a block whose neighbour it no longer is, and the node to exchange is one
\* of the list (lists.c:98-120).
DoublyLinked ==
  /\ pc = "shuffle" => i < Length(list)
  /\ \A b \in Block : next[b] # NULL => prev[next[b]] = b
  /\ \A b \in Block : prev[b] # NULL => next[prev[b]] = b
  /\ \A s \in Index : head[s] # NULL => prev[head[s]] = NULL

\* The lists, as sequences, do what Decks says: no block is lost, doubled or
\* moved to another set, whatever the random numbers are, and the head, which
\* holds the eviction set shared by the list and is freed through it
\* (lists.c:184-191, 196-211), stays where it is.
D == INSTANCE Decks WITH
  deck <- [s \in Index |-> [k \in 1..Length(s) |-> At(s)[k-1]]]

ImplementsDecks == D!Spec
=============================================================================
