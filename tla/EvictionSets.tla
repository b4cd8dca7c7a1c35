---------------------------- MODULE EvictionSets ----------------------------
(***************************************************************************)
(* The eviction sets of the blocks, on the heap: those against L1 are made *)
(* when the module is loaded, one for each list of L2 and L3, which all    *)
(* its blocks share; those against L2 by the first call that needs a list  *)
(* of L3, one for each block, while other calls run; all are freed when    *)
(* the module is unloaded.  Decks has the lists.                           *)
(***************************************************************************)
EXTENDS Naturals, Sequences, FiniteSets

CONSTANTS
  Client,
  Arrangements,   \* what the pools may give: [l1, l2, l3], each a list of blocks for every set
  S1, S2,         \* sets of L1 and L2
  Cap1, Cap2,     \* MARGIN * EVICTION_SZ of a level: the room of an eviction set
  MaxHeap         \* bound: buffers made

\* A block is [id, set3, slice], its other sets are parts of set3.
Set1(b) == b.set3 % S1
Set2(b) == b.set3 % S2
Loc(b) == <<b.set3, b.slice>>

\* A list for every set.  No block is in two, or twice in one, and those of a list
\* of L3 are congruent: what Lists keeps (buffer_to_cachesets, shuffle_list).
Members(s) == {s[k] : k \in DOMAIN s}
IsSeq(s) == s \in Seq(Members(s))

Arranged(a) ==
  /\ \A l \in {"l1", "l2", "l3"} : a[l] # <<>> /\ IsSeq(a[l]) /\ \A s \in DOMAIN a[l] : IsSeq(a[l][s])
  /\ \A l, m \in {"l2", "l3"} : \A s \in DOMAIN a[l], t \in DOMAIN a[m] :
       \A j \in DOMAIN a[l][s], k \in DOMAIN a[m][t] :
         a[l][s][j] = a[m][t][k] => l = m /\ s = t /\ j = k
  /\ \A s \in DOMAIN a.l3 : \A j, k \in DOMAIN a.l3[s] : Loc(a.l3[s][j]) = Loc(a.l3[s][k])

ASSUME EvictionSetsAssumption ==
  /\ {S1, S2, Cap1, Cap2} \subseteq Nat \ {0}
  /\ S2 % S1 = 0
  /\ \A a \in Arrangements : Arranged(a)

VARIABLES
  lists,          \* the arrangement of this load
  stage, row,      \* init3 | init2 | loaded | clean2 | clean3 | gone | oops; the list under way
  evict1, evict2, \* of each block: its buffer and size, the buffer 0 before there is one
  heap,           \* the buffers, in the order of kmalloc: slots, times freed,
                  \* list it was made for (0 at the load), made during unloading
  doing, set, tmp, count,  \* of each call: idle | check | walk | write | use; list, block, index
  refused,        \* lists with a block for which kmalloc gave nothing (a history)
  raced           \* lists that were asked for while another call walked them (a history)

calls == <<doing, set, tmp, count>>
evictVars == <<lists, stage, row, evict1, evict2, heap, calls, refused, raced>>

NoBuffer == 0
Unmade == [buf |-> NoBuffer, size |-> 0]
Blocks == UNION {UNION {Members(lists[l][s]) : s \in DOMAIN lists[l]} : l \in {"l1", "l2", "l3"}}
L3 == DOMAIN lists.l3

\* The first cap blocks of a pool, list by list, that are as wanted.
Spots(pool) == UNION {{<<i, k>> : k \in DOMAIN pool[i]} : i \in DOMAIN pool}
Before(p, q) == p[1] < q[1] \/ (p[1] = q[1] /\ p[2] < q[2])

First(pool, spots, cap) ==
  LET turn(k) == CHOOSE p \in spots : Cardinality({q \in spots : Before(q, p)}) = k - 1
      n == Cardinality(spots)
  IN  [k \in 1..(IF n < cap THEN n ELSE cap) |-> pool[turn(k)[1]][turn(k)[2]]]

\* find_l1_eviction_set; find_l2_eviction_set, which looks for the same L2 set.
Evicts1(b, x) == Set1(x) = Set1(b) /\ Set2(x) # Set2(b) /\ Loc(x) # Loc(b)
Evicts2(b, x) == Set2(x) = Set2(b) /\ Loc(x) # Loc(b)

L1Set(b) == First(lists.l1, {p \in Spots(lists.l1) : Evicts1(b, lists.l1[p[1]][p[2]])}, Cap1)
L2Set(b) == First(lists.l2, {p \in Spots(lists.l2) : Evicts2(b, lists.l2[p[1]][p[2]])}, Cap2)

\* A buffer for some slots, made for a list of L3; or NULL, with which the code goes
\* on only if nothing is to be written to it.
New == Len(heap) + 1
Kmalloc(buf, wanted, slots, s) ==
  \/ /\ buf = New
     /\ heap' = Append(heap, [slots |-> slots, freed |-> 0, list |-> s,
                              late |-> stage \in {"clean2", "clean3", "gone"}])
  \/ buf = NoBuffer /\ wanted = <<>> /\ UNCHANGED heap
Oops == stage' = "oops" /\ UNCHANGED <<lists, row, evict1, evict2, heap, calls, refused, raced>>

-----------------------------------------------------------------------------
\* init_evictionsets, before there are files: one list after the other.
InitList == CASE stage = "init3" -> lists.l3[row] [] stage = "init2" -> lists.l2[row] [] OTHER -> <<>>

Shared(list, e) == [b \in Blocks |-> IF b \in Members(list) THEN e ELSE evict1[b]]

Advance(here, all, then) ==
  IF row < Len(all) THEN stage' = here /\ row' = row + 1 ELSE stage' = then /\ row' = 1

Share ==
  /\ stage \in {"init3", "init2"} /\ InitList # <<>>
  /\ LET found == L1Set(InitList[1]) IN
       \E buf \in {NoBuffer, New} :
         /\ Kmalloc(buf, found, found, 0)
         /\ evict1' = Shared(InitList, [buf |-> buf, size |-> Len(found)])
  /\ IF stage = "init3" THEN Advance("init3", lists.l3, "init2") ELSE Advance("init2", lists.l2, "loaded")
  /\ UNCHANGED <<lists, evict2, calls, refused, raced>>

\* The head of an empty list is dereferenced; so is what kmalloc did not give, if
\* there is a block to write to it.
InitOops ==
  /\ stage \in {"init3", "init2"}
  /\ InitList # <<>> => L1Set(InitList[1]) # <<>>
  /\ Oops

-----------------------------------------------------------------------------
\* A read of a set of L3, or a calibration, which takes the first.
Read(c, s) ==
  /\ stage \notin {"init3", "init2", "gone", "oops"} /\ doing[c] = "idle"
  /\ doing' = [doing EXCEPT ![c] = "check"] /\ set' = [set EXCEPT ![c] = s]
  /\ UNCHANGED <<lists, stage, row, evict1, evict2, heap, tmp, count, refused, raced>>

Walking(s) == {c \in Client : doing[c] \in {"walk", "write"} /\ set[c] = s}

Missing(b) == evict2[b].buf = NoBuffer

Check(c) ==
  /\ stage # "oops" /\ doing[c] = "check"
  /\ LET s == set[c] IN
       /\ doing' = [doing EXCEPT ![c] = IF Missing(lists.l3[s][1]) THEN "walk" ELSE "use"]
       /\ raced' = IF Walking(s) = {} THEN raced ELSE raced \cup {s}
  /\ tmp' = [tmp EXCEPT ![c] = 1]
  /\ UNCHANGED <<lists, stage, row, evict1, evict2, heap, set, count, refused>>

\* The block the walk of find_l2_eviction_set is at.
Here(c) == lists.l3[set[c]][tmp[c]]

Allocate(c) ==
  /\ stage # "oops" /\ doing[c] = "walk" /\ Len(heap) < MaxHeap
  /\ \E buf \in {NoBuffer, New} :
       /\ Kmalloc(buf, L2Set(Here(c)), <<>>, set[c])
       /\ evict2' = [evict2 EXCEPT ![Here(c)].buf = buf]
       /\ refused' = IF buf = NoBuffer THEN refused \cup {set[c]} ELSE refused
  /\ doing' = [doing EXCEPT ![c] = "write"] /\ count' = [count EXCEPT ![c] = 0]
  /\ UNCHANGED <<lists, stage, row, evict1, set, tmp, raced>>

\* Without memory the first block is written to NULL.
Refused(c) ==
  /\ stage # "oops" /\ doing[c] = "walk" /\ L2Set(Here(c)) # <<>>
  /\ Oops

\* Each block goes to the buffer the block has at that moment.
Write(c) ==
  /\ stage # "oops" /\ doing[c] = "write" /\ count[c] < Len(L2Set(Here(c)))
  /\ LET k == count[c] + 1
         b == evict2[Here(c)].buf
     IN heap' = [heap EXCEPT ![b].slots =
          [j \in DOMAIN @ \cup {k} |-> IF j = k THEN L2Set(Here(c))[k] ELSE @[j]]]
  /\ count' = [count EXCEPT ![c] = @ + 1]
  /\ UNCHANGED <<lists, stage, row, evict1, evict2, doing, set, tmp, refused, raced>>

\* The size, and the next block.   Mutant: the last of the list is left out.
AtEnd_Early(c) == tmp[c] + 1 >= Len(lists.l3[set[c]])
AtEnd(c) == tmp[c] = Len(lists.l3[set[c]])

Size(c) ==
  /\ stage # "oops" /\ doing[c] = "write" /\ count[c] = Len(L2Set(Here(c)))
  /\ evict2' = [evict2 EXCEPT ![Here(c)].size = count[c]]
  /\ IF AtEnd(c) THEN doing' = [doing EXCEPT ![c] = "use"] /\ UNCHANGED tmp
     ELSE doing' = [doing EXCEPT ![c] = "walk"] /\ tmp' = [tmp EXCEPT ![c] = @ + 1]
  /\ UNCHANGED <<lists, stage, row, evict1, heap, set, count, refused, raced>>

\* Code is generated from the eviction sets of the list.
Use(c) ==
  /\ stage # "oops" /\ doing[c] = "use"
  /\ doing' = [doing EXCEPT ![c] = "idle"] /\ tmp' = [tmp EXCEPT ![c] = 1] /\ count' = [count EXCEPT ![c] = 0]
  /\ set' = [set EXCEPT ![c] = 1]
  /\ UNCHANGED <<lists, stage, row, evict1, evict2, heap, refused, raced>>

-----------------------------------------------------------------------------
Unload ==
  /\ stage = "loaded"
  /\ stage' = "clean2" /\ row' = 1
  /\ UNCHANGED <<lists, evict1, evict2, heap, calls, refused, raced>>

\* kfree of each of bufs; of NULL it does nothing.
Kfree(bufs) ==
  heap' = [b \in DOMAIN heap |->
    [heap[b] EXCEPT !.freed = @ + Cardinality({k \in DOMAIN bufs : bufs[k] = b})]]

\* clean_l2_set.
Clean2 ==
  /\ stage = "clean2"
  /\ Kfree(<<evict1[lists.l2[row][1]].buf>>)
  /\ Advance("clean2", lists.l2, "clean3")
  /\ UNCHANGED <<lists, evict1, evict2, calls, refused, raced>>

\* clean_l3_set: the sets of all blocks, and the one they share.
\* Mutant: that one with every block.
Owned_All(list) == [k \in DOMAIN list |-> evict2[list[k]].buf] \o [k \in DOMAIN list |-> evict1[list[k]].buf]
Owned(list) == [k \in DOMAIN list |-> evict2[list[k]].buf] \o <<evict1[list[1]].buf>>

Clean3 ==
  /\ stage = "clean3"
  /\ Kfree(Owned(lists.l3[row]))
  /\ Advance("clean3", lists.l3, "gone")
  /\ UNCHANGED <<lists, evict1, evict2, calls, refused, raced>>

-----------------------------------------------------------------------------
EvictInit ==
  /\ lists \in Arrangements
  /\ stage = "init3" /\ row = 1
  /\ evict1 = [b \in Blocks |-> Unmade] /\ evict2 = [b \in Blocks |-> Unmade]
  /\ heap = <<>>
  /\ doing = [c \in Client |-> "idle"] /\ set = [c \in Client |-> 1]
  /\ tmp = [c \in Client |-> 1] /\ count = [c \in Client |-> 0]
  /\ refused = {} /\ raced = {}

Call(c) == Check(c) \/ Allocate(c) \/ Refused(c) \/ Write(c) \/ Size(c) \/ Use(c)

EvictNext ==
  \/ Share \/ InitOops \/ Unload \/ Clean2 \/ Clean3
  \/ \E c \in Client : Call(c) \/ \E s \in L3 : Read(c, s)

EvictSpec == EvictInit /\ [][EvictNext]_evictVars

-----------------------------------------------------------------------------
\* What the code of a call is generated from: the sets of a block are written up to
\* their size and not freed, and have all that the pool has room and blocks for.
Whole(e, blocks) ==
  /\ e.size = Len(blocks)
  /\ \A k \in 1..e.size :
       /\ e.buf # NoBuffer /\ heap[e.buf].freed = 0
       /\ k \in DOMAIN heap[e.buf].slots /\ heap[e.buf].slots[k] = blocks[k]

\* A call finds all eviction sets of its list whole, made by itself or by an
\* earlier call, unless two calls met in the walk or the module is unloaded; and
\* sharing is right: what was found for the head evicts every block of its list
\* (lists.c:160-194, parser.c:317-327, main.c:346-355).
SetsWhole ==
  \A c \in Client : doing[c] = "use" /\ stage = "loaded" /\ set[c] \notin raced =>
    \A b \in Members(lists.l3[set[c]]) :
      Whole(evict2[b], L2Set(b)) /\ Whole(evict1[b], L1Set(b))

\* No buffer is freed twice, and when the module is gone every buffer has been
\* freed, but for those that a call made while it was unloaded and those of a list
\* in whose walk two calls met or kmalloc gave nothing, so that it was walked again
\* (lists.c:196-211, main.c:839-846).
FreedOnce ==
  /\ \A b \in DOMAIN heap : heap[b].freed <= 1
  /\ stage = "gone" => \A b \in DOMAIN heap :
       heap[b].freed = 1 \/ heap[b].late \/ heap[b].list \in raced \cup refused
=============================================================================
