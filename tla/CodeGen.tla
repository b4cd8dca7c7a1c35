------------------------------- MODULE CodeGen -------------------------------
(***************************************************************************)
(* generate_code and calibrate: a parsed query becomes machine code that accesses        *)
(* blocks of one cache set, times the profiled accesses and, between two   *)
(* accesses, evicts the block from the caches closer to the core.  One     *)
(* action per phase: start, choice of the blocks, priming, one query       *)
(* element, epilogue.  calibrate makes its code in one step.  An           *)
(* instruction of the model stands for the opcodes of one purpose; the set *)
(* of blocks it loads or flushes is kept.                                  *)
(* CodeMeaning says what the code does to a cache.                         *)
(***************************************************************************)
EXTENDS Integers, Sequences, FiniteSets

CONSTANTS
  Block,           \* the blocks of the three pools
  Set3, Slice,     \* L3 set and slice of every block
  S1, S2, SL,      \* numbers of L1 sets, L2 sets and L3 slices
  Or(_, _),        \* bitwise or of two numbers
  Leader,          \* the <<set3, slice>> for which IS_LEADER_SET holds
  L1Pool, L2Pool,  \* the pools the eviction sets are taken from
  Targets,         \* queried sets: [level |-> 1..3, list |-> sequence of blocks]
  Thrash,          \* the blocks of the configured thrash set
  EV1, EV2,        \* EVICTION_SZ(L1), EVICTION_SZ(L2)
  EvictSize,       \* evict_size: blocks loaded to calibrate a miss
  MARGIN,          \* an eviction set holds at most MARGIN * EVICTION_SZ blocks
  CodeAreas,       \* where code may be: sequences of <<set3, slice>>, one per line
  Limit,           \* instructions that fit in the code pages
  AskMax,          \* profiled accesses per query, 63 in the code
  Id,              \* names of blocks in a query
  Queries,         \* what the lexer may hold: sequences of [id, kind]
  Confs            \* configurations: [one |-> only_one_time, thrash |-> thrash_set > -1]

Loc(b) == <<Set3[b], Slice[b]>>
Set2(b) == Set3[b] % S2
Set1(b) == Set3[b] % S1

\* Two blocks of the same set of a level.
Congruent(level, a, b) ==
  CASE level = 1 -> Set1(a) = Set1(b)
    [] level = 2 -> Set2(a) = Set2(b)
    [] level = 3 -> Loc(a) = Loc(b)

ASSUME CodeGenAssumption ==
  /\ Set3 \in [Block -> Nat] /\ Slice \in [Block -> 0..SL-1]
  /\ {S1, S2, SL, EV1, EV2, EvictSize, MARGIN} \subseteq Nat \ {0}
  /\ L1Pool \subseteq Block /\ L2Pool \subseteq Block /\ Thrash \subseteq Block
  /\ \A t \in Targets :
       /\ t.level \in 1..3
       /\ t.list \in Seq(Block) /\ Len(t.list) > 0
       /\ \A i, j \in 1..Len(t.list) :
            /\ t.list[i] = t.list[j] => i = j
            /\ Congruent(t.level, t.list[i], t.list[j])
  /\ Targets # {} /\ Confs # {} /\ CodeAreas # {}
  /\ Limit \in Nat /\ AskMax \in Nat
  /\ Queries \subseteq Seq([id : Id, kind : {"load", "ask", "flush", "inv"}])
  /\ Confs \subseteq [one : BOOLEAN, thrash : BOOLEAN]

VARIABLES
  pc,              \* idle | assign | prime | query | end | done | hit | miss | err
  target, query, conf,
  at,              \* b: position in the query
  next,            \* tmp: position in the list of the target set
  blockOf,         \* query_blocks: the block of each name; static, shared by all sets
  ban3l1, ban3l2,  \* banned_l3_for_l1, banned_l3_for_l2: indices of L3 sets
  ban2l1,          \* banned_l2_for_l1: L2 sets
  evict1,          \* L1 eviction set of each target
  evict2,          \* L2 eviction set of each L3 target queried so far
  area,            \* where the code is
  code,            \* the code generated so far
  profiled,        \* asks, the local counter
  asks             \* code->asks

bans == <<ban3l1, ban3l2, ban2l1>>
inputs == <<target, query, conf, evict1, evict2, area>>
vars == <<pc, inputs, at, next, blockOf, bans, code, profiled, asks>>

-----------------------------------------------------------------------------
\* The index of a block in the tables of banned L3 sets.
L3Index(b) == Set3[b] * SL + Slice[b]

With(f, k, v) == [x \in DOMAIN f \cup {k} |-> IF x = k THEN v ELSE f[x]]
Smaller(a, b) == IF a < b THEN a ELSE b
Capped(X, n) == {Y \in SUBSET X : Cardinality(Y) = Smaller(n, Cardinality(X))}

\* find_l1_eviction_set: same L1 set, another L2 set, another L3 set.
Candidates1(b) ==
  {p \in L1Pool : Set1(p) = Set1(b) /\ Set2(p) # Set2(b) /\ Loc(p) # Loc(b)}

\* find_l2_eviction_set: same L2 set, another L3 set.
Candidates2(b) == {p \in L2Pool : Set2(p) = Set2(b) /\ Loc(p) # Loc(b)}

\* init_evictionsets: a list shares the set found for its head; L1 lists have none.
Evict1Of(t) ==
  IF t.level = 1 THEN {{}} ELSE Capped(Candidates1(Head(t.list)), MARGIN * EV1)

\* On demand: the blocks of an L3 list, being congruent, all find the same set.
Evict2Of(t) ==
  IF t.level = 3 /\ t \notin DOMAIN evict2
  THEN {With(evict2, t, X) : X \in Capped(Candidates2(Head(t.list)), MARGIN * EV2)}
  ELSE {evict2}

Evictors1 == evict1[target]
Evictors2 == IF target \in DOMAIN evict2 THEN evict2[target] ELSE {}

Op(op, on) == [op |-> op, on |-> on]

\* OPCODE: what does not fit is dropped, and the generator gives up.
\* Mutant: an opcode that ends one past the limit is accepted.
Room_OneMore == Limit + 1 - Len(code)
Room == Limit - Len(code)

Emit(ins, then) ==
  /\ code' = code \o SubSeq(ins, 1, Smaller(Room, Len(ins)))
  /\ pc' = IF Len(ins) <= Room THEN then ELSE "err"

\* No code and no call: what only the call used does not matter any more.
NoTarget == CHOOSE t \in Targets : TRUE
NoConf == CHOOSE c \in Confs : TRUE
NoArea == CHOOSE a \in CodeAreas : TRUE

Forgotten ==
  /\ pc' = "idle" /\ code' = <<>> /\ asks' = 0
  /\ target' = NoTarget /\ query' = <<>> /\ conf' = NoConf /\ area' = NoArea
  /\ at' = 1 /\ next' = 1 /\ profiled' = 0

Elem == query[at]
AtLast == at = Len(query)
Tmp == blockOf[Elem.id]

-----------------------------------------------------------------------------
\* memset of query_blocks.
Cleared == <<>>

\* From the entry of generate_code to the choice of the blocks.  The sets of
\* the first line of the code are banned, its L3 set at the index set3 | slice.
Begin(t, q, c) ==
  /\ pc = "idle" /\ q # <<>>
  /\ target' = t /\ query' = q /\ conf' = c
  /\ evict2' \in Evict2Of(t)
  /\ \E a \in CodeAreas :
       /\ area' = a
       /\ ban3l1' = {Or(a[1][1], a[1][2])}
       /\ ban3l2' = {Or(a[1][1], a[1][2])}
       /\ ban2l1' = {a[1][1] % S2}
  /\ blockOf' = Cleared
  /\ code' = <<>> /\ asks' = 0 /\ profiled' = 0
  /\ at' = 1 /\ next' = 1
  /\ pc' = "assign"
  /\ UNCHANGED evict1

\* __vmalloc failed.
NoPages(t, q) ==
  /\ pc = "idle" /\ q # <<>>
  /\ evict2' \in Evict2Of(t)
  /\ UNCHANGED <<pc, target, query, conf, evict1, area, at, next, blockOf, bans,
                 code, profiled, asks>>

\* May block b of the list stand for a name?  The blocks skipped for one name
\* are not looked at again for the next.
Selectable(b) ==
  CASE target.level = 1 -> L3Index(b) \notin ban3l1 /\ Set2(b) \notin ban2l1
    [] target.level = 2 -> Slice[b] = SL - 1 /\ L3Index(b) \notin ban3l2
    [] target.level = 3 -> TRUE

Advance(then) ==
  /\ at' = IF AtLast THEN 1 ELSE at + 1
  /\ pc' = IF AtLast THEN then ELSE pc

\* The name has its block already.
Known ==
  /\ pc = "assign" /\ Elem.id \in DOMAIN blockOf
  /\ Advance("prime")
  /\ UNCHANGED <<inputs, next, blockOf, bans, code, profiled, asks>>

\* tmp = tmp->next.   Mutant: it is missing, the next name gets the same block.
After_Stay(i) == i
After(i) == i + 1

\* The next selectable block becomes that of the name, and its sets are banned
\* if it has eviction sets.
Choose(i) ==
  /\ pc = "assign" /\ Elem.id \notin DOMAIN blockOf
  /\ LET b == target.list[i]
     IN  /\ Selectable(b)
         /\ \A j \in next..i-1 : ~ Selectable(target.list[j])
         /\ blockOf' = With(blockOf, Elem.id, b)
         /\ ban3l1' = ban3l1 \cup (IF Evictors1 # {} THEN {L3Index(b)} ELSE {})
         /\ ban2l1' = ban2l1 \cup (IF Evictors1 # {} THEN {Set2(b)} ELSE {})
         /\ ban3l2' = ban3l2 \cup (IF Evictors2 # {} THEN {L3Index(b)} ELSE {})
  /\ next' = After(i)
  /\ Advance("prime")
  /\ UNCHANGED <<inputs, code, profiled, asks>>

\* No block is left: the code pages are freed ("beach").
Exhausted ==
  /\ pc = "assign" /\ Elem.id \notin DOMAIN blockOf
  /\ \A j \in next..Len(target.list) : ~ Selectable(target.list[j])
  /\ Forgotten
  /\ UNCHANGED <<blockOf, bans, evict1, evict2>>

Each(op) == [i \in 1..Len(target.list) |-> Op(op, {target.list[i]})]

\* Every block of the set is loaded three times, then flushed.
Priming == Each("prime") \o Each("flush")

Prime ==
  /\ pc = "prime"
  /\ Emit(Priming, "query")
  /\ UNCHANGED <<inputs, at, next, blockOf, bans, profiled, asks>>

-----------------------------------------------------------------------------
Continue(ins) ==
  /\ Emit(ins, IF AtLast THEN "end" ELSE "query")
  /\ at' = IF AtLast THEN at ELSE at + 1

\* "!" and "name!".
Flush ==
  /\ pc = "query" /\ Elem.kind \in {"inv", "flush"}
  /\ Continue(IF Elem.kind = "inv" THEN <<Op("wbinvd", {})>> ELSE <<Op("flush", {Tmp})>>)
  /\ UNCHANGED <<inputs, next, blockOf, bans, profiled, asks>>

\* Mutant: `asks <= 63`.
Profiles_Inclusive == (conf.one /\ AtLast) \/ (Elem.kind = "ask" /\ profiled <= AskMax)
Profiles == (conf.one /\ AtLast) \/ (Elem.kind = "ask" /\ profiled < AskMax)

\* The blocks the eviction loops do not skip.
Usable1 == {x \in Evictors1 : /\ L3Index(x) \notin ban3l1
                              /\ Set2(x) \notin ban2l1
                              /\ Loc(x) \notin Leader}
Usable2 == {x \in Evictors2 : /\ L3Index(x) \notin ban3l2
                              /\ Loc(x) \notin Leader \/ Loc(Tmp) \in Leader}

\* The load, with the code that times it.
Timed ==
  IF Profiles THEN <<Op("pre", {}), Op("load", {Tmp}), Op("post", {})>>
              ELSE <<Op("load", {Tmp})>>

\* What follows every load: eviction from L1, from L2, and the thrash set.
\* Mutant: a block with L2 evictors is not evicted from L1.
Eviction_L2Only(X1, X2) ==
     (IF Evictors1 # {} /\ Evictors2 = {} THEN <<Op("evict1", X1)>> ELSE <<>>)
  \o (IF Evictors2 # {} THEN <<Op("evict2", X2)>> ELSE <<>>)
  \o (IF conf.thrash /\ Evictors2 # {} THEN <<Op("thrash", Thrash)>> ELSE <<>>)

Eviction(X1, X2) ==
     (IF Evictors1 # {} THEN <<Op("evict1", X1)>> ELSE <<>>)
  \o (IF Evictors2 # {} THEN <<Op("evict2", X2)>> ELSE <<>>)
  \o (IF conf.thrash /\ Evictors2 # {} THEN <<Op("thrash", Thrash)>> ELSE <<>>)

\* "name" and "name?".
Access ==
  /\ pc = "query" /\ Elem.kind \in {"load", "ask"}
  /\ \E X1 \in Capped(Usable1, EV1), X2 \in Capped(Usable2, 2 * EV2) :
       Continue(Timed \o Eviction(X1, X2))
  /\ profiled' = IF Profiles THEN profiled + 1 ELSE profiled
  /\ UNCHANGED <<inputs, next, blockOf, bans, asks>>

\* MOV rax, rsi ; POP ; POP ; RET, and code->asks is set.
End ==
  /\ pc = "end"
  /\ Emit(<<Op("ret", {})>>, "done")
  /\ asks' = IF pc' = "done" THEN profiled ELSE asks
  /\ UNCHANGED <<inputs, at, next, blockOf, bans, profiled>>

-----------------------------------------------------------------------------
\* calibrate: the head of the list of set 0 is loaded from memory, evicted from
\* the closer levels and, for a miss, from its own by blocks of its list, then
\* loaded again.  Nothing is banned: the filters compare with the head alone.
\* ForMiss is what `c < ways` lets through.
\* Mutant: one block too few is loaded for a miss.
ForMiss_OneLess(blocks) == SubSeq(blocks, 1, Smaller(EvictSize - 1, Len(blocks)))
ForMiss(blocks) == SubSeq(blocks, 1, Smaller(EvictSize, Len(blocks)))

Apart(level, x, b) ==
  /\ level < 3 => Loc(x) # Loc(b)
  /\ level = 1 => Set2(x) # Set2(b)

\* The rest of the list, without the blocks that the loop passes over.
Others(t) ==
  LET b == Head(t.list)
      kept[k \in 1..Len(t.list)] ==
        IF k = 1 THEN <<>>
        ELSE IF Apart(t.level, t.list[k], b) THEN Append(kept[k-1], t.list[k])
        ELSE kept[k-1]
  IN  kept[Len(t.list)]

Loads(blocks) == [i \in DOMAIN blocks |-> Op("load", {blocks[i]})]

CalibrationCode(t, miss, E1, E2, X1, X2) ==
  LET b == Head(t.list)
  IN     <<Op("flush", {b}), Op("load", {b})>>
      \o (IF E1 # {} THEN <<Op("evict1", X1)>> ELSE <<>>)
      \o (IF E2 # {} THEN <<Op("evict2", X2)>> ELSE <<>>)
      \o (IF miss THEN Loads(ForMiss(Others(t))) ELSE <<>>)
      \o <<Op("pre", {}), Op("load", {b}), Op("post", {}), Op("ret", {})>>

\* The static tables of generate_code are left alone.
Calibrate(t, miss) ==
  /\ pc = "idle"
  /\ target' = t
  /\ evict2' \in Evict2Of(t)
  /\ area' \in CodeAreas
  /\ LET b  == Head(t.list)
         E1 == evict1[t]
         E2 == IF t \in DOMAIN evict2' THEN evict2'[t] ELSE {}
     IN  \E X1 \in Capped({x \in E1 : Apart(1, x, b)}, EV1),
            X2 \in Capped({x \in E2 : Loc(x) # Loc(b)}, EV2) :
           Emit(CalibrationCode(t, miss, E1, E2, X1, X2), IF miss THEN "miss" ELSE "hit")
  /\ UNCHANGED <<query, conf, evict1, at, next, blockOf, bans, profiled, asks>>

\* cacheset_store frees the code of a query, calibrate its own; the static
\* tables keep what they hold.
Free ==
  /\ pc \in {"done", "hit", "miss", "err"}
  /\ Forgotten
  /\ UNCHANGED <<blockOf, bans, evict1, evict2>>

-----------------------------------------------------------------------------
Init ==
  /\ pc = "idle"
  /\ target = NoTarget /\ query = <<>>
  /\ conf = NoConf
  /\ at = 1 /\ next = 1
  /\ blockOf = <<>>
  /\ ban3l1 = {} /\ ban3l2 = {} /\ ban2l1 = {}
  /\ evict1 \in {f \in [Targets -> UNION {Evict1Of(t) : t \in Targets}] :
                  \A t \in Targets : f[t] \in Evict1Of(t)}
  /\ evict2 = <<>>
  /\ area = NoArea
  /\ code = <<>> /\ profiled = 0 /\ asks = 0

Next ==
  \/ \E t \in Targets, q \in Queries, c \in Confs : Begin(t, q, c)
  \/ \E t \in Targets, q \in Queries : NoPages(t, q)
  \/ \E t \in Targets, miss \in BOOLEAN : Calibrate(t, miss)
  \/ Known
  \/ \E i \in next..Len(target.list) : Choose(i)
  \/ Exhausted \/ Prime \/ Flush \/ Access \/ End \/ Free

Spec == Init /\ [][Next]_vars
-----------------------------------------------------------------------------
TypeOK ==
  /\ pc \in {"idle", "assign", "prime", "query", "end", "done", "hit", "miss", "err"}
  /\ target \in Targets /\ conf \in Confs
  /\ at \in 1..(Len(query) + 1)
  /\ next \in 1..(Len(target.list) + 1)
  /\ DOMAIN blockOf \subseteq Id
  /\ \A n \in DOMAIN blockOf : blockOf[n] \in Block
  /\ Len(code) <= Limit
  /\ profiled <= Len(query) /\ asks \in 0..profiled

\* While a query is compiled its names stand for different blocks of the set
\* it was sent to, and the table that is static and shared by all cache sets
\* holds no name of an earlier query (parser.c:361, 371-416).
NamesAreBlocks ==
  pc \in {"assign", "prime", "query", "end", "done"} =>
    /\ \A m, n \in DOMAIN blockOf : blockOf[m] = blockOf[n] => m = n
    /\ \A n \in DOMAIN blockOf : \E i \in 1..next-1 : blockOf[n] = target.list[i]
    /\ pc # "assign" => DOMAIN blockOf = {query[i].id : i \in 1..Len(query)}

Count(op) == Cardinality({i \in 1..Len(code) : code[i].op = op})

\* code->asks is the number of bits the code shifts into RSI, at most 63, so
\* val_show unpacks every bit and no other (parser.c:474-476, 505-567, 679).
AsksCounted ==
  pc = "done" => /\ asks = Count("post") /\ Count("pre") = Count("post")
                 /\ ~ conf.one => asks <= AskMax
=============================================================================
