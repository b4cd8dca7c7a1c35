---------------------------- MODULE CodeGenProofs ----------------------------
(***************************************************************************)
(* For any cache geometry, pools, eviction sets and queries: the names of  *)
(* a query stand for different blocks of the set it was sent to; the code  *)
(* has as many pairs of counter readings as answers are expected; run on   *)
(* any cache it measures the query, or what the calibration is named for.  *)
(*                                                                         *)
(* The second part counts the instructions of a purpose (Tally).  What     *)
(* calibrate leaves of a list is a recursive function: Follows says what   *)
(* it computes, by induction over a set of numbers (Upwards).              *)
(*                                                                         *)
(* The third part is about what the code does when it runs (CodeMeaning).  *)
(* It simulates the query on a set of its own: after the code of the first *)
(* elements the target set holds the blocks of the names that the query    *)
(* has left there, and the answers so far are its answers (Matched), while *)
(* no closer level holds a block of the target (Away).  That each element  *)
(* keeps this rests on the eviction sets, of which enough blocks are never *)
(* banned (Pools, Bans).                                                   *)
(***************************************************************************)
EXTENDS CodeMeaning, FiniteSetTheorems, SequenceTheorems, NaturalsInduction,
        WellFoundedInduction, TLAPS

Compiling == {"assign", "prime", "query", "end", "done"}

\* While the names are given blocks, those before position `at` have theirs.
Naming ==
  pc \in Compiling =>
    /\ query \in Queries /\ query # <<>>
    /\ pc \in {"assign", "prime", "query"} => at \in 1..Len(query)
    /\ next \in Nat \ {0}
    /\ pc = "assign" => DOMAIN blockOf = {query[i].id : i \in 1..at-1}

NInv == target \in Targets /\ Naming /\ NamesAreBlocks

\* A query that is compiled has an element.
LEMMA QueryLength ==
  ASSUME NEW q \in Queries, q # <<>>
  PROVE  Len(q) \in Nat \ {0}
BY CodeGenAssumption

\* A block further down the list than all those given is none of them.
LEMMA FreshBlock ==
  ASSUME NInv, pc = "assign", NEW i \in next..Len(target.list)
  PROVE  \A n \in DOMAIN blockOf : blockOf[n] # target.list[i]
<1> SUFFICES ASSUME NEW n \in DOMAIN blockOf PROVE blockOf[n] # target.list[i]
  OBVIOUS
<1>1. PICK j \in 1..next-1 : blockOf[n] = target.list[j]
  BY DEF NInv, NamesAreBlocks
<1>2. target.list \in Seq(Block) /\ next \in Nat \ {0}
  BY CodeGenAssumption DEF NInv, Naming, Compiling
<1>3. i \in 1..Len(target.list) /\ j \in 1..Len(target.list) /\ i # j
  BY <1>1, <1>2
<1> QED BY <1>1, <1>3, CodeGenAssumption DEF NInv

\* The next position, and the names that have blocks when it is reached.
LEMMA Advancing ==
  ASSUME NInv, pc = "assign", Advance("prime"), UNCHANGED query,
         DOMAIN blockOf' = DOMAIN blockOf \cup {Elem.id}
  PROVE  /\ pc' \in {"assign", "prime"} /\ at' \in 1..Len(query)
         /\ pc' = "assign" => DOMAIN blockOf' = {query[i].id : i \in 1..at'-1}
         /\ pc' = "prime" => DOMAIN blockOf' = {query[i].id : i \in 1..Len(query)}
<1>1. /\ Len(query) \in Nat \ {0} /\ at \in 1..Len(query)
      /\ DOMAIN blockOf = {query[i].id : i \in 1..at-1}
  BY QueryLength DEF NInv, Naming, Compiling
<1>2. DOMAIN blockOf' = {query[i].id : i \in 1..at}
  BY <1>1 DEF Elem
<1>3. CASE at = Len(query)
  <2>1. pc' = "prime" /\ at' = 1
    BY <1>3 DEF Advance, AtLast
  <2>2. DOMAIN blockOf' = {query[i].id : i \in 1..Len(query)}
    BY <1>2, <1>3
  <2>3. at' \in 1..Len(query)
    BY <1>1, <2>1
  <2> QED BY <2>1, <2>2, <2>3, Zenon
<1>4. CASE at # Len(query)
  <2>1. pc' = "assign" /\ at' = at + 1
    BY <1>4 DEF Advance, AtLast
  <2>2. at' \in 1..Len(query) /\ at' - 1 = at
    BY <1>1, <1>4, <2>1
  <2> QED BY <1>2, <2>1, <2>2
<1> QED BY <1>3, <1>4

-----------------------------------------------------------------------------
\* At first no query is compiled.
LEMMA InitNames == Init => NInv
BY CodeGenAssumption DEF Init, NInv, Naming, NamesAreBlocks, Compiling, NoTarget

\* A call that gives up or ends, and one that never began.
LEMMA ForgottenNames ==
  ASSUME Forgotten PROVE NInv'
BY CodeGenAssumption DEF Forgotten, NInv, Naming, NamesAreBlocks, Compiling, NoTarget

\* A query whose compilation begins has no names yet.
LEMMA BeginNames ==
  ASSUME NEW t \in Targets, NEW q \in Queries, NEW c \in Confs, Begin(t, q, c)
  PROVE  NInv'
<1>1. /\ target' = t /\ query' = q /\ q # <<>> /\ blockOf' = <<>>
      /\ at' = 1 /\ next' = 1 /\ pc' = "assign"
  BY DEF Begin, Cleared
<1>2. DOMAIN <<>> = {}
  OBVIOUS
<1>3. DOMAIN blockOf' = {}
  BY <1>1, <1>2
<1> QED BY <1>1, <1>3, QueryLength DEF NInv, Naming, NamesAreBlocks, Compiling

\* The code grows and the position moves on; the names keep their blocks.
LEMMA EmitNames ==
  ASSUME NInv, NEW then \in {"query", "end", "done"}, NEW ins, Emit(ins, then),
         pc \in {"prime", "query", "end"}, UNCHANGED <<inputs, next, blockOf>>,
         then = "query" => at' \in 1..Len(query)
  PROVE  NInv'
<1>1. pc' \in {then, "err"}
  BY DEF Emit
<1> QED BY <1>1 DEF NInv, Naming, NamesAreBlocks, Compiling, inputs

\* Every step keeps the names apart.
LEMMA StepNames == NInv /\ [Next]_vars => NInv'
<1> SUFFICES ASSUME NInv, [Next]_vars PROVE NInv'
  OBVIOUS
<1>1. CASE UNCHANGED vars
  BY <1>1 DEF vars, inputs, NInv, Naming, NamesAreBlocks
<1>2. ASSUME NEW t \in Targets, NEW q \in Queries, NEW c \in Confs, Begin(t, q, c)
      PROVE  NInv'
  BY <1>2, BeginNames
<1>3. ASSUME NEW t \in Targets, NEW q \in Queries, NoPages(t, q) PROVE NInv'
  BY <1>3 DEF NoPages, NInv, Naming, NamesAreBlocks, Compiling
<1>4. CASE Known
  <2>1. DOMAIN blockOf' = DOMAIN blockOf \cup {Elem.id}
    BY <1>4 DEF Known
  <2>2. /\ pc' \in {"assign", "prime"} /\ at' \in 1..Len(query)
        /\ pc' = "assign" => DOMAIN blockOf' = {query[i].id : i \in 1..at'-1}
        /\ pc' = "prime" => DOMAIN blockOf' = {query[i].id : i \in 1..Len(query)}
    BY <1>4, <2>1, Advancing DEF Known, inputs
  <2>3. pc = "assign" /\ UNCHANGED <<target, query, next, blockOf>>
    BY <1>4 DEF Known, inputs
  <2>4. target' \in Targets /\ Naming'
    BY <2>2, <2>3 DEF NInv, Naming, Compiling
  <2>5. NamesAreBlocks'
    BY <2>2, <2>3 DEF NInv, NamesAreBlocks
  <2> QED BY <2>4, <2>5 DEF NInv
<1>5. ASSUME NEW i \in next..Len(target.list), Choose(i) PROVE NInv'
  <2> DEFINE b == target.list[i]
  <2>1. /\ pc = "assign" /\ Elem.id \notin DOMAIN blockOf
        /\ blockOf' = With(blockOf, Elem.id, b) /\ next' = i + 1
        /\ Advance("prime") /\ UNCHANGED inputs
    BY <1>5 DEF Choose, After
  <2> DEFINE f == With(blockOf, Elem.id, b)
  <2>0. /\ DOMAIN f = DOMAIN blockOf \cup {Elem.id}
        /\ f[Elem.id] = b
        /\ \A n \in DOMAIN blockOf : f[n] = blockOf[n]
    BY <2>1, Zenon DEF With
  <2>2. /\ DOMAIN blockOf' = DOMAIN blockOf \cup {Elem.id}
        /\ blockOf'[Elem.id] = b
        /\ \A n \in DOMAIN blockOf : blockOf'[n] = blockOf[n]
    BY <2>0, <2>1
  <2>3. /\ pc' \in {"assign", "prime"} /\ at' \in 1..Len(query)
        /\ pc' = "assign" => DOMAIN blockOf' = {query[k].id : k \in 1..at'-1}
        /\ pc' = "prime" => DOMAIN blockOf' = {query[k].id : k \in 1..Len(query)}
    BY <2>1, <2>2, Advancing DEF inputs
  <2>4. \A m, n \in DOMAIN blockOf' : blockOf'[m] = blockOf'[n] => m = n
    BY <2>1, <2>2, FreshBlock DEF NInv, NamesAreBlocks
  <2>5. next \in Nat \ {0} /\ i \in Nat /\ i >= next
    BY <2>1 DEF NInv, Naming, Compiling
  <2>6. \A n \in DOMAIN blockOf' : \E k \in 1..next'-1 : blockOf'[n] = target.list[k]
    <3> SUFFICES ASSUME NEW n \in DOMAIN blockOf'
                 PROVE  \E k \in 1..next'-1 : blockOf'[n] = target.list[k]
      OBVIOUS
    <3>1. CASE n = Elem.id
      BY <2>1, <2>2, <2>5, <3>1
    <3>2. CASE n \in DOMAIN blockOf
      <4>1. PICK k \in 1..next-1 : blockOf[n] = target.list[k]
        BY <2>1, <3>2 DEF NInv, NamesAreBlocks
      <4> QED BY <2>1, <2>2, <2>5, <3>2, <4>1
    <3> QED BY <2>2, <3>1, <3>2
  <2> QED BY <2>1, <2>3, <2>4, <2>5, <2>6
             DEF inputs, NInv, Naming, NamesAreBlocks, Compiling
<1>6. CASE Exhausted \/ Free
  BY <1>6, ForgottenNames DEF Exhausted, Free
<1>7. CASE Prime
  <2>1. at' \in 1..Len(query)
    BY <1>7 DEF Prime, NInv, Naming, Compiling
  <2> QED BY <1>7, <2>1, EmitNames DEF Prime
<1>8. CASE Flush \/ Access
  <2>1. PICK ins : Continue(ins)
    BY <1>8 DEF Flush, Access
  <2>2. pc = "query" /\ UNCHANGED <<inputs, next, blockOf>>
    BY <1>8 DEF Flush, Access
  <2>3. at \in 1..Len(query) /\ Len(query) \in Nat
    BY <2>2, QueryLength DEF NInv, Naming, Compiling
  <2>4. CASE AtLast
    BY <2>1, <2>2, <2>4, EmitNames DEF Continue
  <2>5. CASE ~ AtLast
    BY <2>1, <2>2, <2>3, <2>5, EmitNames DEF Continue, AtLast
  <2> QED BY <2>4, <2>5
<1>9. CASE End
  BY <1>9, EmitNames DEF End
<1>10. ASSUME NEW t \in Targets, NEW miss \in BOOLEAN, Calibrate(t, miss)
       PROVE  NInv'
  <2>1. pc' \in {"hit", "miss", "err"} /\ target' = t
    BY <1>10 DEF Calibrate, Emit
  <2> QED BY <2>1 DEF NInv, Naming, NamesAreBlocks, Compiling
<1> QED BY <1>1, <1>2, <1>3, <1>4, <1>5, <1>6, <1>7, <1>8, <1>9, <1>10 DEF Next

\* The table of blocks, static and shared by all cache sets, is that of the query
\* being compiled: every name has a block of the target set and no other name
\* has it, for any sets, eviction sets, bans and position of the code.
THEOREM NamesCorrect == Spec => []NamesAreBlocks
<1>1. NInv => NamesAreBlocks
  BY DEF NInv
<1> QED BY InitNames, StepNames, <1>1, PTL DEF Spec

-----------------------------------------------------------------------------
\* Instructions, whatever they are.
IsCode(c) == c \in Seq({c[k] : k \in DOMAIN c})

\* Any sequence will do as code.
LEMMA SomeCode ==
  ASSUME NEW T, NEW c \in Seq(T)
  PROVE  IsCode(c)
<1> DEFINE R == {c[k] : k \in DOMAIN c}
<1>1. Len(c) \in Nat /\ c \in [1..Len(c) -> T] /\ DOMAIN c = 1..Len(c)
  BY LenProperties
<1>2. c \in [1..Len(c) -> R]
  BY <1>1
<1> HIDE DEF R
<1>3. c \in Seq(R)
  BY <1>1, <1>2
<1> QED
  BY <1>3 DEF IsCode, R

\* How many instructions have a purpose.
Tally(c, op) == Cardinality({k \in 1..Len(c) : c[k].op = op})

\* No instruction of a purpose.
LEMMA TallyNone ==
  ASSUME NEW c, NEW op, \A k \in 1..Len(c) : c[k].op # op
  PROVE  Tally(c, op) = 0
<1>1. {k \in 1..Len(c) : c[k].op = op} = {}
  OBVIOUS
<1> QED
  BY <1>1, FS_EmptySet DEF Tally

\* One instruction.
LEMMA TallyOne ==
  ASSUME NEW c, NEW op, NEW k \in 1..Len(c), \A j \in 1..Len(c) : c[j].op = op <=> j = k
  PROVE  Tally(c, op) = 1
<1>1. {j \in 1..Len(c) : c[j].op = op} = {k}
  OBVIOUS
<1> QED
  BY <1>1, FS_Singleton DEF Tally

\* Instructions can be counted.
LEMMA TallyNat ==
  ASSUME NEW c, IsCode(c), NEW op
  PROVE  /\ IsFiniteSet({k \in 1..Len(c) : c[k].op = op})
         /\ Tally(c, op) \in Nat
<1> DEFINE K == {k \in 1..Len(c) : c[k].op = op}
<1>1. Len(c) \in Nat
  BY LenProperties DEF IsCode
<1>2. IsFiniteSet(1..Len(c))
  BY <1>1, FS_Interval
<1>3. K \in SUBSET (1..Len(c))
  OBVIOUS
<1> HIDE DEF K
<1>4. IsFiniteSet(K)
  BY <1>2, <1>3, FS_Subset
<1>5. Cardinality(K) \in Nat
  BY <1>4, FS_CardinalityType
<1> QED
  BY <1>4, <1>5 DEF K, Tally

\* Code after code: as many instructions of a purpose as both have.
LEMMA Joined ==
  ASSUME NEW c, IsCode(c), NEW d, IsCode(d)
  PROVE  /\ IsCode(c \o d) /\ Len(c \o d) = Len(c) + Len(d)
         /\ \A op : Tally(c \o d, op) = Tally(c, op) + Tally(d, op)
<1> DEFINE T == {c[k] : k \in DOMAIN c} \cup {d[k] : k \in DOMAIN d}
<1>1. c \in Seq(T) /\ d \in Seq(T)
  BY DEF IsCode
<1> HIDE DEF T
<1>2. PICK e : e = c \o d
  OBVIOUS
<1>3. /\ e \in Seq(T) /\ Len(e) = Len(c) + Len(d) /\ Len(c) \in Nat /\ Len(d) \in Nat
      /\ \A k \in 1..(Len(c) + Len(d)) : e[k] = IF k <= Len(c) THEN c[k] ELSE d[k - Len(c)]
  BY <1>1, <1>2, ConcatProperties, LenProperties
<1>4. IsCode(e)
  BY <1>3, SomeCode, Zenon
<1>5. ASSUME NEW op
      PROVE  Tally(e, op) = Tally(c, op) + Tally(d, op)
  <2>1. PICK m \in Nat, n \in Nat : m = Len(c) /\ n = Len(d)
    BY <1>3
  <2> DEFINE A == {k \in 1..m : c[k].op = op}
             B == {k \in 1..n : d[k].op = op}
             E == {k \in 1..(m + n) : e[k].op = op}
             M == {m + k : k \in B}
  <2>2. E = A \cup M
    <3>1. \A k \in 1..m : e[k] = c[k] /\ k \in 1..(m + n)
      BY <1>3, <2>1
    <3>2. \A k \in 1..n : e[m + k] = d[k] /\ m + k \in 1..(m + n)
      <4> SUFFICES ASSUME NEW k \in 1..n PROVE e[m + k] = d[k] /\ m + k \in 1..(m + n)
        OBVIOUS
      <4>1. m + k \in 1..(m + n) /\ ~(m + k <= m) /\ (m + k) - m = k
        BY <2>1
      <4> QED
        BY <1>3, <2>1, <4>1
    <3>3. A \cup M \subseteq E
      BY <3>1, <3>2
    <3>4. ASSUME NEW k \in E PROVE k \in A \cup M
      <4>1. CASE k <= m
        BY <2>1, <3>1, <3>4, <4>1
      <4>2. CASE ~(k <= m)
        <5>1. k - m \in 1..n /\ m + (k - m) = k
          BY <2>1, <3>4, <4>2
        <5>2. k - m \in B
          BY <3>2, <3>4, <5>1
        <5> QED
          BY <5>1, <5>2
      <4> QED
        BY <4>1, <4>2
    <3> QED
      BY <3>3, <3>4
  <2>3. A \cap M = {}
    BY <2>1
  <2>4. IsFiniteSet(A) /\ IsFiniteSet(B) /\ Cardinality(A) = Tally(c, op) /\ Cardinality(B) = Tally(d, op)
    BY <2>1, TallyNat, Zenon DEF Tally
  <2>5. ExistsBijection(B, M)
    <3>1. [k \in B |-> m + k] \in Bijection(B, M)
      BY <2>1 DEF Bijection, Injection, Surjection, IsInjective
    <3> QED
      BY <3>1, Zenon DEF ExistsBijection
  <2>6. Cardinality(E) = Tally(e, op)
    BY <1>3, <2>1, Zenon DEF Tally
  <2> HIDE DEF A, B, E, M
  <2>7. IsFiniteSet(M) /\ Cardinality(M) = Cardinality(B)
    BY <2>4, <2>5, FS_Bijection, Zenon
  <2>8. Cardinality(E) = Cardinality(A) + Cardinality(M) - Cardinality({})
    BY <2>2, <2>3, <2>4, <2>7, FS_Union, SMT
  <2>9. Cardinality(A) \in Nat /\ Cardinality(M) \in Nat /\ Cardinality({}) = 0
    BY <2>4, <2>7, FS_CardinalityType, FS_EmptySet, Zenon
  <2> QED
    BY <2>4, <2>6, <2>7, <2>8, <2>9
<1> QED
  BY <1>2, <1>3, <1>4, <1>5

\* A part of the code that tells nothing of a purpose.
LEMMA Sole ==
  ASSUME NEW x
  PROVE  /\ IsCode(<<x>>) /\ Len(<<x>>) = 1
         /\ \A op : x.op # op => Tally(<<x>>, op) = 0
<1>1. <<x>> \in Seq({x}) /\ Len(<<x>>) = 1 /\ <<x>>[1] = x
  OBVIOUS
<1>2. ASSUME NEW op, x.op # op
      PROVE  Tally(<<x>>, op) = 0
  <2>1. \A k \in 1..Len(<<x>>) : <<x>>[k].op # op
    BY <1>1, <1>2
  <2> QED
    BY <2>1, TallyNone, Zenon
<1>3. IsCode(<<x>>)
  BY <1>1, SomeCode, Zenon
<1> QED
  BY <1>1, <1>2, <1>3, Zenon

\* No code at all.
LEMMA Nothing ==
  /\ IsCode(<<>>) /\ Len(<<>>) = 0
  /\ \A op : Tally(<<>>, op) = 0
<1>1. << >> \in Seq({}) /\ Len(<<>>) = 0
  OBVIOUS
<1>2. 1..0 = {}
  OBVIOUS
<1> QED
  BY <1>1, <1>2, SomeCode, TallyNone

-----------------------------------------------------------------------------
\* Where a call is, and what the code holds by then.
Typed ==
  /\ TypeOK /\ IsCode(code) /\ profiled \in Nat
  /\ query \in Queries \cup {<<>>}

Progress ==
  /\ pc \in {"assign", "prime", "query"} => at <= Len(query)
  /\ pc \in Compiling => query # <<>>
  /\ pc = "idle" => next = 1
  /\ pc \in {"idle", "assign", "prime"} => code = <<>> /\ profiled = 0
  /\ pc = "query" => profiled < at
  /\ pc # "done" => asks = 0

\* Each profiled access so far has its two readings of the counter.
Measured ==
  /\ pc \in {"query", "end", "done"} =>
       /\ Tally(code, "pre") = profiled /\ Tally(code, "post") = profiled
       /\ ~ conf.one => profiled <= AskMax
  /\ pc = "done" => asks = profiled

GInv == Typed /\ Progress /\ Measured

-----------------------------------------------------------------------------
\* What a query lists.
LEMMA QueryElement ==
  ASSUME NEW q \in Queries \cup {<<>>}
  PROVE  /\ Len(q) \in Nat /\ (q = <<>> <=> Len(q) = 0)
         /\ \A k \in 1..Len(q) : q[k].id \in Id /\ q[k].kind \in {"load", "ask", "flush", "inv"}
<1> DEFINE E == [id : Id, kind : {"load", "ask", "flush", "inv"}]
<1>0. Queries \subseteq Seq(E)
  BY CodeGenAssumption, Zenon
<1> HIDE DEF E
<1>1. q \in Seq(E)
  <2>1. << >> \in Seq(E)
    OBVIOUS
  <2> QED
    BY <1>0, <2>1, Zenon
<1>2. \A k \in 1..Len(q) : q[k] \in E
  BY <1>1
<1>3. Len(q) \in Nat /\ (q = <<>> <=> Len(q) = 0)
  BY <1>1
<1> QED
  BY <1>2, <1>3 DEF E

\* What a target lists.
LEMMA TargetList ==
  ASSUME NEW t \in Targets
  PROVE  /\ t.list \in Seq(Block) /\ Len(t.list) \in Nat \ {0}
         /\ \A k \in 1..Len(t.list) : t.list[k] \in Block
BY CodeGenAssumption

\* The code with what still fits of some instructions.
LEMMA Emitted ==
  ASSUME IsCode(code), Len(code) <= Limit, NEW ins, IsCode(ins), NEW then, Emit(ins, then)
  PROVE  /\ IsCode(code') /\ Len(code') <= Limit
         /\ pc' \in {then, "err"}
         /\ pc' # "err" => code' = code \o ins
<1>0. PICK m \in Nat, n \in Nat : m = Len(code) /\ n = Len(ins)
  BY LenProperties DEF IsCode
<1>1. Limit \in Nat /\ m <= Limit /\ Room = Limit - m
  BY <1>0, CodeGenAssumption DEF Room
<1>2. PICK k \in Nat : k = Smaller(Room, Len(ins)) /\ k <= n /\ m + k <= Limit /\ (n <= Room => k = n)
  BY <1>0, <1>1 DEF Smaller
<1> DEFINE T == {ins[x] : x \in DOMAIN ins}
<1>3. PICK part : part = SubSeq(ins, 1, k)
  OBVIOUS
<1>4. ins \in Seq(T) /\ \A x \in 1..k : ins[x] \in T
  BY <1>0, <1>2, LenProperties DEF IsCode
<1> HIDE DEF T
<1>5. part \in Seq(T) /\ Len(part) = k
  BY <1>2, <1>3, <1>4, SubSeqProperties
<1>6. IsCode(part)
  BY <1>5, SomeCode, Zenon
<1>7. code' = code \o part /\ pc' = IF n <= Room THEN then ELSE "err"
  BY <1>0, <1>2, <1>3, Zenon DEF Emit
<1>8. IsCode(code \o part) /\ Len(code \o part) = m + k
  BY <1>0, <1>5, <1>6, Joined, Zenon
<1>9. n <= Room => part = ins
  BY <1>0, <1>2, <1>3, <1>4, SubSeqFull
<1>10. n <= Room \/ pc' = "err"
  BY <1>7
<1> QED
  BY <1>2, <1>7, <1>8, <1>9, <1>10

-----------------------------------------------------------------------------
\* Instructions that no reading of the counter is among.
Untimed(c) == IsCode(c) /\ Tally(c, "pre") = 0 /\ Tally(c, "post") = 0

\* They are made of instructions that read no counter.
LEMMA UntimedParts ==
  /\ Untimed(<<>>)
  /\ \A op, on : op \notin {"pre", "post"} => Untimed(<<Op(op, on)>>)
  /\ \A c, d : Untimed(c) /\ Untimed(d) => Untimed(c \o d)
<1>1. ASSUME NEW op, NEW on, op \notin {"pre", "post"}
      PROVE  Untimed(<<Op(op, on)>>)
  <2>1. PICK x : x = Op(op, on)
    OBVIOUS
  <2>2. x.op # "pre" /\ x.op # "post"
    BY <1>1, <2>1 DEF Op
  <2> QED
    BY <2>1, <2>2, Sole, Zenon DEF Untimed
<1>2. ASSUME NEW c, NEW d, Untimed(c), Untimed(d)
      PROVE  Untimed(c \o d)
  BY <1>2, Joined DEF Untimed
<1>3. Untimed(<<>>)
  BY Nothing, Zenon DEF Untimed
<1> QED
  BY <1>1, <1>2, <1>3, Zenon

\* One instruction for each block of the set.
LEMMA EachUntimed ==
  ASSUME target \in Targets, NEW op, op \notin {"pre", "post"}
  PROVE  Untimed(Each(op))
<1>1. PICK n \in Nat : n = Len(target.list)
  BY TargetList
<1>2. PICK c : c = Each(op)
  OBVIOUS
<1>3. c = [k \in 1..n |-> Op(op, {target.list[k]})]
  BY <1>1, <1>2, Zenon DEF Each
<1>4. c \in Seq({c[k] : k \in 1..n}) /\ Len(c) = n /\ \A k \in 1..n : c[k].op = op
  <2>1. \A k \in 1..n : c[k] = Op(op, {target.list[k]})
    BY <1>3, Zenon
  <2>0. \A on : Op(op, on).op = op
    BY DEF Op
  <2>2. \A k \in 1..n : c[k].op = op
    BY <2>0, <2>1, Zenon
  <2> DEFINE R == {c[k] : k \in 1..n}
  <2>3. c \in [1..n -> R]
    BY <1>3, Zenon
  <2> HIDE DEF R
  <2>4. c \in Seq(R) /\ Len(c) = n
    BY <2>3
  <2> QED
    BY <2>2, <2>4 DEF R
<1>5. IsCode(c)
  BY <1>4, SomeCode, Zenon
<1>6. Tally(c, "pre") = 0 /\ Tally(c, "post") = 0
  BY <1>4, TallyNone
<1> QED
  BY <1>2, <1>5, <1>6, Zenon DEF Untimed

\* The prologue profiles nothing.
LEMMA PrimingUntimed ==
  ASSUME target \in Targets
  PROVE  Untimed(Priming)
BY EachUntimed, UntimedParts DEF Priming

\* Nor does what follows a load.
LEMMA EvictionUntimed ==
  ASSUME NEW X1, NEW X2
  PROVE  Untimed(Eviction(X1, X2))
<1>1. PICK a, b, c : /\ a = IF Evictors1 # {} THEN <<Op("evict1", X1)>> ELSE <<>>
                     /\ b = IF Evictors2 # {} THEN <<Op("evict2", X2)>> ELSE <<>>
                     /\ c = IF conf.thrash /\ Evictors2 # {} THEN <<Op("thrash", Thrash)>> ELSE <<>>
  OBVIOUS
<1>2. /\ Untimed(<<Op("evict1", X1)>>) /\ Untimed(<<Op("evict2", X2)>>)
      /\ Untimed(<<Op("thrash", Thrash)>>) /\ Untimed(<<>>)
  BY UntimedParts
<1>3. Untimed(a) /\ Untimed(b) /\ Untimed(c)
  BY <1>1, <1>2, Zenon
<1>4. Untimed(a \o b) /\ Untimed((a \o b) \o c)
  BY <1>3, UntimedParts, Zenon
<1>5. Eviction(X1, X2) = (a \o b) \o c
  BY <1>1, Zenon DEF Eviction
<1> QED
  BY <1>4, <1>5, Zenon

\* A load has one reading of the counter before it and one after it, if it is profiled.
LEMMA TimedTally ==
  /\ IsCode(Timed)
  /\ Profiles => Tally(Timed, "pre") = 1 /\ Tally(Timed, "post") = 1
  /\ ~ Profiles => Tally(Timed, "pre") = 0 /\ Tally(Timed, "post") = 0
<1>1. CASE Profiles
  <2>1. PICK x, y, z : x = Op("pre", {}) /\ y = Op("load", {Tmp}) /\ z = Op("post", {})
    OBVIOUS
  <2>2. x.op = "pre" /\ y.op = "load" /\ z.op = "post"
    BY <2>1 DEF Op
  <2>3. PICK c : c = <<x, y, z>>
    OBVIOUS
  <2>4. c \in Seq({x, y, z}) /\ Len(c) = 3 /\ c[1] = x /\ c[2] = y /\ c[3] = z
    BY <2>3
  <2>5. IsCode(c)
    BY <2>4, SomeCode, Zenon
  <2>6. /\ \A j \in 1..Len(c) : c[j].op = "pre" <=> j = 1
        /\ \A j \in 1..Len(c) : c[j].op = "post" <=> j = 3
        /\ 1 \in 1..Len(c) /\ 3 \in 1..Len(c)
    BY <2>2, <2>4
  <2>7. Tally(c, "pre") = 1 /\ Tally(c, "post") = 1
    BY <2>6, TallyOne, Zenon
  <2>8. Timed = c
    BY <1>1, <2>1, <2>3, Zenon DEF Timed
  <2> QED
    BY <1>1, <2>5, <2>7, <2>8, Zenon
<1>2. CASE ~ Profiles
  <2>1. Timed = <<Op("load", {Tmp})>>
    BY <1>2, Zenon DEF Timed
  <2>2. Untimed(<<Op("load", {Tmp})>>)
    BY UntimedParts
  <2> QED
    BY <1>2, <2>1, <2>2, Zenon DEF Untimed
<1> QED
  BY <1>1, <1>2, Zenon

-----------------------------------------------------------------------------
\* At first there is no code.
LEMMA InitCounts == Init => GInv
<1> SUFFICES ASSUME Init PROVE GInv
  OBVIOUS
<1>1. NoTarget \in Targets /\ NoConf \in Confs
  BY CodeGenAssumption DEF NoTarget, NoConf
<1>2. Len(target.list) \in Nat \ {0}
  BY <1>1, TargetList DEF Init
<1>3. Limit \in Nat
  BY CodeGenAssumption
<1>4. IsCode(code) /\ Len(code) = 0 /\ Len(query) = 0
  BY Nothing DEF Init
<1>5. DOMAIN blockOf = {}
  BY DEF Init
<1>6. TypeOK
  BY <1>1, <1>2, <1>3, <1>4, <1>5 DEF Init, TypeOK
<1>7. Typed
  BY <1>4, <1>6 DEF Init, Typed
<1>8. Progress
  BY DEF Init, Progress, Compiling
<1>9. Measured
  BY DEF Init, Measured
<1> QED
  BY <1>7, <1>8, <1>9 DEF GInv

\* Nor is there any when a call has ended.
LEMMA ForgottenCounts ==
  ASSUME GInv, Forgotten, UNCHANGED blockOf
  PROVE  GInv'
<1>1. NoTarget \in Targets /\ NoConf \in Confs
  BY CodeGenAssumption DEF NoTarget, NoConf
<1>2. Len(target'.list) \in Nat \ {0}
  BY <1>1, TargetList DEF Forgotten
<1>3. Limit \in Nat
  BY CodeGenAssumption
<1>4. IsCode(code') /\ Len(code') = 0 /\ Len(query') = 0
  BY Nothing DEF Forgotten
<1>6. TypeOK'
  BY <1>1, <1>2, <1>3, <1>4 DEF Forgotten, TypeOK, GInv, Typed
<1>7. Typed'
  BY <1>4, <1>6 DEF Forgotten, Typed
<1>8. Progress'
  BY DEF Forgotten, Progress, Compiling
<1>9. Measured'
  BY DEF Forgotten, Measured
<1> QED
  BY <1>7, <1>8, <1>9 DEF GInv

\* Nor when one begins.
LEMMA BeginCounts ==
  ASSUME GInv, NEW t \in Targets, NEW q \in Queries, NEW c \in Confs, Begin(t, q, c)
  PROVE  GInv'
<1>1. /\ target' = t /\ query' = q /\ q # <<>> /\ conf' = c /\ blockOf' = <<>>
      /\ code' = <<>> /\ asks' = 0 /\ profiled' = 0 /\ at' = 1 /\ next' = 1 /\ pc' = "assign"
  BY DEF Begin, Cleared
<1>2. Len(t.list) \in Nat \ {0} /\ Len(q) \in Nat \ {0}
  BY <1>1, TargetList, QueryElement
<1>3. IsCode(code') /\ Len(code') = 0 /\ Limit \in Nat
  BY <1>1, Nothing, CodeGenAssumption
<1>4. DOMAIN blockOf' = {}
  BY <1>1
<1>5. TypeOK'
  BY <1>1, <1>2, <1>3, <1>4 DEF TypeOK
<1>6. Typed'
  BY <1>1, <1>3, <1>5 DEF Typed
<1>7. Progress'
  BY <1>1, <1>2 DEF Progress, Compiling
<1>8. Measured'
  BY <1>1 DEF Measured
<1> QED
  BY <1>6, <1>7, <1>8 DEF GInv

\* A name has its block, or gets one: no code yet.
LEMMA AssignedCounts ==
  ASSUME GInv, pc = "assign", Advance("prime"), UNCHANGED <<inputs, code, profiled, asks>>,
         next' \in 1..(Len(target.list) + 1),
         DOMAIN blockOf' \subseteq Id, \A n \in DOMAIN blockOf' : blockOf'[n] \in Block
  PROVE  GInv'
<1>1. UNCHANGED <<target, query, conf, code, profiled, asks>>
  BY DEF inputs
<1>2. Len(query) \in Nat /\ at \in 1..Len(query) /\ query # <<>>
  <2>1. Len(query) \in Nat
    BY QueryElement DEF GInv, Typed
  <2> QED
    BY <2>1 DEF GInv, Typed, TypeOK, Progress, Compiling
<1>3. pc' \in {"assign", "prime"} /\ at' \in 1..Len(query)
  BY <1>2 DEF Advance, AtLast
<1>4. TypeOK'
  BY <1>1, <1>2, <1>3 DEF GInv, Typed, TypeOK
<1>5. Typed'
  BY <1>1, <1>4 DEF GInv, Typed
<1>6. Progress'
  BY <1>1, <1>2, <1>3 DEF GInv, Progress, Compiling
<1>7. Measured'
  BY <1>3 DEF Measured
<1> QED
  BY <1>5, <1>6, <1>7 DEF GInv

\* A name that has its block.
LEMMA KnownCounts ==
  ASSUME GInv, Known
  PROVE  GInv'
BY AssignedCounts DEF Known, GInv, Typed, TypeOK

\* A name that gets one.
LEMMA ChooseCounts ==
  ASSUME GInv, NEW i \in next..Len(target.list), Choose(i)
  PROVE  GInv'
<1> DEFINE b == target.list[i]
<1>1. /\ pc = "assign" /\ blockOf' = With(blockOf, Elem.id, b) /\ next' = i + 1
      /\ Advance("prime") /\ UNCHANGED <<inputs, code, profiled, asks>>
  BY DEF Choose, After
<1>2. Len(target.list) \in Nat /\ next \in 1..(Len(target.list) + 1) /\ target \in Targets
  BY TargetList DEF GInv, Typed, TypeOK
<1>3. i + 1 \in 1..(Len(target.list) + 1) /\ b \in Block
  BY <1>2, TargetList
<1>4. Elem.id \in Id
  <2>1. Len(query) \in Nat /\ query \in Queries \cup {<<>>}
    BY QueryElement DEF GInv, Typed
  <2>2. at \in 1..Len(query)
    BY <1>1, <2>1 DEF GInv, Typed, TypeOK, Progress
  <2> QED
    BY <2>1, <2>2, QueryElement DEF Elem
<1>5. DOMAIN blockOf \subseteq Id /\ \A n \in DOMAIN blockOf : blockOf[n] \in Block
  BY DEF GInv, Typed, TypeOK
<1> HIDE DEF b
<1>6. /\ DOMAIN blockOf' = DOMAIN blockOf \cup {Elem.id}
      /\ \A n \in DOMAIN blockOf' : blockOf'[n] = IF n = Elem.id THEN b ELSE blockOf[n]
  BY <1>1, Zenon DEF With
<1>7. DOMAIN blockOf' \subseteq Id
  BY <1>4, <1>5, <1>6
<1>8. \A n \in DOMAIN blockOf' : blockOf'[n] \in Block
  BY <1>3, <1>5, <1>6
<1> QED
  BY <1>1, <1>3, <1>7, <1>8, AssignedCounts, Zenon

-----------------------------------------------------------------------------
\* Instructions are added, as many of them profile as are counted, and the call goes on.
LEMMA AddedCounts ==
  ASSUME GInv, pc \in {"prime", "query", "end"}, NEW ins, IsCode(ins),
         NEW then \in {"query", "end", "done"}, Emit(ins, then),
         UNCHANGED <<inputs, next, blockOf>>,
         NEW d \in {0, 1}, profiled' = profiled + d,
         pc = "prime" => d = 0,
         Tally(ins, "pre") = d, Tally(ins, "post") = d,
         ~ conf.one /\ d = 1 => profiled < AskMax,
         at' \in 1..(Len(query) + 1), profiled + d <= Len(query),
         then = "query" => profiled + d < at' /\ at' <= Len(query),
         pc' = "done" => asks' = profiled + d, pc' # "done" => asks' = 0
  PROVE  GInv'
<1>0. IsCode(code) /\ Len(code) <= Limit /\ profiled \in Nat /\ query # <<>> /\ AskMax \in Nat
  BY CodeGenAssumption DEF GInv, Typed, TypeOK, Progress, Compiling
<1>1. /\ IsCode(code') /\ Len(code') <= Limit
      /\ pc' \in {then, "err"}
      /\ pc' # "err" => code' = code \o ins
  BY <1>0, Emitted, Zenon
<1>2. UNCHANGED <<target, query, conf, next, blockOf>>
  BY DEF inputs
<1>3. profiled' \in Nat /\ asks' \in 0..profiled' /\ profiled' <= Len(query)
  BY <1>0
<1>4. Len(query) \in Nat
  BY QueryElement DEF GInv, Typed
<1>5. TypeOK'
  BY <1>1, <1>2, <1>3, <1>4 DEF GInv, Typed, TypeOK
<1>6. Typed'
  BY <1>1, <1>2, <1>3, <1>5 DEF GInv, Typed
<1>7. Progress'
  BY <1>0, <1>1, <1>2 DEF Progress, Compiling
<1>8. /\ Tally(code, "pre") = profiled /\ Tally(code, "post") = profiled
      /\ ~ conf.one => profiled <= AskMax
  <2>1. CASE pc = "prime"
    BY <2>1, <1>0, Nothing DEF GInv, Progress
  <2>2. CASE pc # "prime"
    BY <2>2 DEF GInv, Measured
  <2> QED
    BY <2>1, <2>2
<1>9. pc' # "err" => /\ Tally(code', "pre") = profiled' /\ Tally(code', "post") = profiled'
                     /\ ~ conf.one => profiled' <= AskMax
  <2> SUFFICES ASSUME pc' # "err"
               PROVE  /\ Tally(code', "pre") = profiled' /\ Tally(code', "post") = profiled'
                      /\ ~ conf.one => profiled' <= AskMax
    OBVIOUS
  <2>1. /\ Tally(code \o ins, "pre") = Tally(code, "pre") + Tally(ins, "pre")
        /\ Tally(code \o ins, "post") = Tally(code, "post") + Tally(ins, "post")
    BY <1>0, Joined, Zenon
  <2>2. Tally(code', "pre") = profiled' /\ Tally(code', "post") = profiled'
    BY <1>1, <1>8, <2>1
  <2>3. ~ conf.one => profiled' <= AskMax
    BY <1>0, <1>8
  <2> QED
    BY <2>2, <2>3
<1>10. Measured'
  BY <1>1, <1>2, <1>9 DEF Measured
<1> QED
  BY <1>6, <1>7, <1>10, Zenon DEF GInv

-----------------------------------------------------------------------------
\* A set of naturals has a least element.
LEMMA LeastMember ==
  ASSUME NEW T, T \subseteq Nat, T # {}
  PROVE  \E t \in T : \A u \in T : t <= u
<1>1. PICK t \in T : \A u \in T : ~(<<u, t>> \in OpToRel(<, Nat))
  BY NatLessThanWellFounded, WFMin
<1>2. ASSUME NEW u \in T PROVE t <= u
  <2>1. <<u, t>> \notin OpToRel(<, Nat)
    BY <1>1
  <2>2. ~(u < t)
    BY <2>1 DEF OpToRel
  <2> QED BY <2>2
<1> QED BY <1>2

\* What holds of 0 and of each number after those it holds of holds of all.
LEMMA Upwards ==
  ASSUME NEW T, 0 \in T, \A n \in Nat : n \in T => n + 1 \in T
  PROVE  Nat \subseteq T
<1> SUFFICES ASSUME Nat \ T # {} PROVE FALSE
  OBVIOUS
<1>1. PICK t \in Nat \ T : \A u \in Nat \ T : t <= u
  BY LeastMember
<1>2. t # 0 /\ t - 1 \in Nat /\ ~(t <= t - 1) /\ (t - 1) + 1 = t
  BY <1>1
<1>3. t - 1 \in T
  BY <1>1, <1>2
<1> QED
  BY <1>1, <1>2, <1>3

-----------------------------------------------------------------------------
\* What the loop of calibrate has kept after each block of the list.
KeptAt(t, w, k) ==
  IF k = 1 THEN <<>>
  ELSE IF Apart(t.level, t.list[k], Head(t.list)) THEN Append(w[k-1], t.list[k])
  ELSE w[k-1]

Follows(t, n, w) == \A k \in 1..n : w[k] = KeptAt(t, w, k)
KeptTo(t, n, w) == w \in [1..n -> Seq(Block)] /\ Follows(t, n, w)

\* The loop can be run for as many blocks as there are, by induction on them.
LEMMA SomeKept ==
  ASSUME NEW t \in Targets
  PROVE  \E w : KeptTo(t, Len(t.list), w)
<1> DEFINE T == {n \in Nat : n <= Len(t.list) => \E w : KeptTo(t, n, w)}
<1>0. Len(t.list) \in Nat \ {0} /\ \A k \in 1..Len(t.list) : t.list[k] \in Block
  BY TargetList
<1>1. 0 \in T
  <2>1. KeptTo(t, 0, [k \in 1..0 |-> <<>>])
    BY DEF KeptTo, Follows
  <2> QED
    BY <2>1
<1>2. ASSUME NEW n \in Nat, n \in T
      PROVE  n + 1 \in T
  <2> SUFFICES ASSUME n + 1 <= Len(t.list)
               PROVE  \E w : KeptTo(t, n + 1, w)
    OBVIOUS
  <2>1. PICK w : KeptTo(t, n, w)
    BY <1>0, <1>2
  <2>2. PICK last : last = KeptAt(t, w, n + 1)
    OBVIOUS
  <2>3. last \in Seq(Block)
    <3>1. t.list[n + 1] \in Block
      BY <1>0
    <3>2. n + 1 # 1 => w[n] \in Seq(Block)
      BY <2>1 DEF KeptTo, Follows
    <3>3. (n + 1) - 1 = n /\ << >> \in Seq(Block)
      OBVIOUS
    <3> QED
      BY <2>2, <3>1, <3>2, <3>3, AppendProperties, SMT DEF KeptAt
  <2> DEFINE v == [k \in 1..(n + 1) |-> IF k <= n THEN w[k] ELSE last]
  <2>4. v \in [1..(n + 1) -> Seq(Block)]
    BY <2>1, <2>3 DEF KeptTo, Follows
  <2>5. ASSUME NEW k \in 1..(n + 1)
        PROVE  v[k] = KeptAt(t, v, k)
    <3>1. k # 1 => k - 1 \in 1..(n + 1) /\ v[k - 1] = w[k - 1]
      OBVIOUS
    <3>2. KeptAt(t, v, k) = KeptAt(t, w, k)
      BY <3>1, Zenon DEF KeptAt
    <3>3. CASE k <= n
      <4>1. v[k] = w[k] /\ k \in 1..n
        BY <3>3
      <4>2. w[k] = KeptAt(t, w, k)
        BY <2>1, <4>1, Zenon DEF KeptTo, Follows
      <4> QED
        BY <3>2, <4>1, <4>2, Zenon
    <3>4. CASE ~ (k <= n)
      <4>1. v[k] = last /\ k = n + 1
        BY <3>4
      <4> QED
        BY <2>2, <3>2, <4>1, Zenon
    <3> QED
      BY <3>3, <3>4
  <2> HIDE DEF v
  <2> QED
    BY <2>4, <2>5, Zenon DEF KeptTo, Follows
<1> HIDE DEF T
<1>3. Nat \subseteq T
  BY <1>1, <1>2, Upwards
<1> QED
  BY <1>0, <1>3 DEF T

\* And it has no choice.
LEMMA OneKept ==
  ASSUME NEW t \in Targets, NEW n \in Nat, NEW v, Follows(t, n, v), NEW w, Follows(t, n, w)
  PROVE  \A k \in 1..n : v[k] = w[k]
<1> DEFINE T == {k \in Nat : k \in 1..n => v[k] = w[k]}
<1>1. 0 \in T
  OBVIOUS
<1>2. ASSUME NEW k \in Nat, k \in T
      PROVE  k + 1 \in T
  <2> SUFFICES ASSUME k + 1 \in 1..n PROVE v[k + 1] = w[k + 1]
    OBVIOUS
  <2>1. (k + 1) - 1 = k /\ (k + 1 # 1 => k \in 1..n)
    OBVIOUS
  <2>2. k + 1 # 1 => v[k] = w[k]
    BY <1>2, <2>1
  <2>3. KeptAt(t, v, k + 1) = KeptAt(t, w, k + 1)
    BY <2>1, <2>2, Zenon DEF KeptAt
  <2> QED
    BY <2>3 DEF Follows
<1> HIDE DEF T
<1>3. Nat \subseteq T
  BY <1>1, <1>2, Upwards
<1> QED
  BY <1>3 DEF T

\* The loop of calibrate is one run of KeptAt over the list.
LEMMA OthersKept ==
  ASSUME NEW t \in Targets
  PROVE  \E w : KeptTo(t, Len(t.list), w) /\ Others(t) = w[Len(t.list)]
<1>0. PICK n \in Nat : n = Len(t.list) /\ n \in 1..n
  BY TargetList
<1> DEFINE R(x) == [k \in 1..n |-> KeptAt(t, x, k)]
<1>1. PICK w : KeptTo(t, n, w)
  BY <1>0, SomeKept, Zenon
<1>2. w = R(w)
  <2>1. w \in [1..n -> Seq(Block)] /\ \A k \in 1..n : w[k] = KeptAt(t, w, k)
    BY <1>1, Zenon DEF KeptTo, Follows
  <2> QED
    BY <2>1
<1>3. PICK v : v = CHOOSE x : x = R(x)
  OBVIOUS
<1>4. Others(t) = v[n]
  <2>1. Others(t) = (CHOOSE kept : kept = [k \in 1..Len(t.list) |->
                       IF k = 1 THEN <<>>
                       ELSE IF Apart(t.level, t.list[k], Head(t.list)) THEN Append(kept[k-1], t.list[k])
                       ELSE kept[k-1]])[Len(t.list)]
    BY DEF Others
  <2> QED
    BY <1>0, <1>3, <2>1, Zenon DEF KeptAt
<1> HIDE DEF R
<1>5. v = R(v)
  BY <1>2, <1>3, Zenon
<1>6. Follows(t, n, v)
  BY <1>5, Zenon DEF R, Follows
<1>7. w \in [1..n -> Seq(Block)] /\ Follows(t, n, w)
  BY <1>1, Zenon DEF KeptTo
<1>8. v[n] = w[n]
  <2>1. \A k \in 1..n : v[k] = w[k]
    BY <1>6, <1>7, OneKept, SMT
  <2> QED
    BY <1>0, <2>1, Zenon
<1> QED
  BY <1>0, <1>1, <1>4, <1>8, Zenon

\* The blocks that calibrate may load for a miss.
LEMMA OthersTyped ==
  ASSUME NEW t \in Targets
  PROVE  Others(t) \in Seq(Block)
<1>1. PICK n \in Nat : n = Len(t.list) /\ n \in 1..n
  BY TargetList
<1>2. PICK w : KeptTo(t, n, w) /\ Others(t) = w[n]
  BY <1>1, OthersKept
<1> QED
  BY <1>1, <1>2 DEF KeptTo

-----------------------------------------------------------------------------
\* The code that calibrates is a sequence of instructions, so that its length counts.
LEMMA CalibrationIsCode ==
  ASSUME NEW t \in Targets, NEW miss, NEW E1, NEW E2, NEW X1, NEW X2
  PROVE  IsCode(CalibrationCode(t, miss, E1, E2, X1, X2))
<1> DEFINE b == Head(t.list)
<1>1. PICK n \in Nat, k \in Nat : n = Len(Others(t)) /\ k = Smaller(EvictSize, n) /\ k <= n
  <2>1. Len(Others(t)) \in Nat /\ EvictSize \in Nat
    BY OthersTyped, LenProperties, CodeGenAssumption
  <2> QED
    BY <2>1 DEF Smaller
<1>2. PICK q : q = ForMiss(Others(t))
  OBVIOUS
<1>3. q = SubSeq(Others(t), 1, k)
  BY <1>1, <1>2, Zenon DEF ForMiss
<1>4. PICK o \in Seq(Block) : o = Others(t)
  BY OthersTyped
<1>5. q \in Seq(Block)
  <2>1. \A x \in 1..k : o[x] \in Block
    BY <1>1, <1>4
  <2> QED
    BY <1>1, <1>3, <1>4, <2>1, SubSeqProperties
<1>6. IsCode(Loads(q))
  <2>1. PICK m \in Nat : m = Len(q) /\ DOMAIN q = 1..m
    BY <1>5, LenProperties
  <2>2. PICK c : c = Loads(q)
    OBVIOUS
  <2>3. c = [x \in 1..m |-> Op("load", {q[x]})]
    BY <2>1, <2>2, Zenon DEF Loads
  <2> DEFINE R == {Op("load", {q[x]}) : x \in 1..m}
  <2>4. c \in [1..m -> R]
    BY <2>3, Zenon
  <2> HIDE DEF R
  <2>5. c \in Seq(R)
    BY <2>4
  <2> QED
    BY <2>2, <2>5, SomeCode, Zenon
<1>7. PICK c1, c2, c3, c4, c5 :
        /\ c1 = <<Op("flush", {b}), Op("load", {b})>>
        /\ c2 = IF E1 # {} THEN <<Op("evict1", X1)>> ELSE <<>>
        /\ c3 = IF E2 # {} THEN <<Op("evict2", X2)>> ELSE <<>>
        /\ c4 = IF miss THEN Loads(q) ELSE <<>>
        /\ c5 = <<Op("pre", {}), Op("load", {b}), Op("post", {}), Op("ret", {})>>
  OBVIOUS
<1>8. IsCode(c1) /\ IsCode(c2) /\ IsCode(c3) /\ IsCode(c4) /\ IsCode(c5)
  <2>1. \A x, y : IsCode(<<x, y>>)
    <3> SUFFICES ASSUME NEW x, NEW y PROVE IsCode(<<x, y>>)
      OBVIOUS
    <3>1. <<x, y>> \in Seq({x, y})
      OBVIOUS
    <3> QED
      BY <3>1, SomeCode, Zenon
  <2>2. \A x, y, z, u : IsCode(<<x, y, z, u>>)
    <3> SUFFICES ASSUME NEW x, NEW y, NEW z, NEW u PROVE IsCode(<<x, y, z, u>>)
      OBVIOUS
    <3>1. <<x, y, z, u>> \in Seq({x, y, z, u})
      OBVIOUS
    <3> QED
      BY <3>1, SomeCode, Zenon
  <2>3. \A x : IsCode(<<x>>)
    BY Sole, Zenon
  <2>4. IsCode(<<>>)
    BY Nothing, Zenon
  <2> QED
    BY <1>6, <1>7, <2>1, <2>2, <2>3, <2>4, Zenon
<1>9. CalibrationCode(t, miss, E1, E2, X1, X2) = (((c1 \o c2) \o c3) \o c4) \o c5
  BY <1>2, <1>7, Zenon DEF CalibrationCode
<1>10. IsCode(c1 \o c2) /\ IsCode((c1 \o c2) \o c3)
  BY <1>8, Joined, Zenon
<1>11. IsCode(((c1 \o c2) \o c3) \o c4) /\ IsCode((((c1 \o c2) \o c3) \o c4) \o c5)
  BY <1>8, <1>10, Joined, Zenon
<1> QED
  BY <1>9, <1>11, Zenon

\* Code that calibrates has no bits to count.
LEMMA CalibrateCounts ==
  ASSUME GInv, NEW t \in Targets, NEW miss \in BOOLEAN, Calibrate(t, miss)
  PROVE  GInv'
<1>1. /\ pc = "idle" /\ target' = t
      /\ UNCHANGED <<query, conf, at, next, blockOf, profiled, asks>>
  BY DEF Calibrate
<1>2. PICK ins, then : IsCode(ins) /\ then \in {"hit", "miss"} /\ Emit(ins, then)
  <2>1. PICK E1, E2, X1, X2 :
          Emit(CalibrationCode(t, miss, E1, E2, X1, X2), IF miss THEN "miss" ELSE "hit")
    BY Zenon DEF Calibrate
  <2> QED
    BY <2>1, CalibrationIsCode, Zenon
<1>3. IsCode(code) /\ Len(code) <= Limit /\ profiled = 0 /\ asks = 0
  BY <1>1 DEF GInv, Typed, TypeOK, Progress
<1>4. IsCode(code') /\ Len(code') <= Limit /\ pc' \in {"hit", "miss", "err"}
  BY <1>2, <1>3, Emitted
<1>5. next = 1 /\ Len(t.list) \in Nat /\ next \in 1..(Len(t.list) + 1)
  BY <1>1, TargetList DEF GInv, Progress
<1>6. TypeOK'
  BY <1>1, <1>4, <1>5 DEF GInv, Typed, TypeOK
<1>7. Typed'
  BY <1>1, <1>4, <1>6 DEF GInv, Typed
<1>8. Progress'
  BY <1>1, <1>3, <1>4 DEF GInv, Progress, Compiling
<1>9. Measured'
  BY <1>4 DEF Measured
<1> QED
  BY <1>7, <1>8, <1>9 DEF GInv

-----------------------------------------------------------------------------
\* The prologue: still no profiled access.
LEMMA PrimeCounts ==
  ASSUME GInv, Prime
  PROVE  GInv'
<1>1. /\ pc = "prime" /\ Emit(Priming, "query")
      /\ UNCHANGED <<inputs, at, next, blockOf, profiled, asks>>
  BY DEF Prime
<1>2. Untimed(Priming)
  BY PrimingUntimed DEF GInv, Typed, TypeOK
<1>3. at \in 1..Len(query) /\ Len(query) \in Nat /\ profiled = 0 /\ asks = 0
  <2>1. Len(query) \in Nat
    BY QueryElement DEF GInv, Typed
  <2> QED
    BY <1>1, <2>1 DEF GInv, Typed, TypeOK, Progress
<1>4. pc' \in {"query", "err"}
  BY <1>1 DEF Emit
<1> QED
  BY <1>1, <1>2, <1>3, <1>4, AddedCounts DEF Untimed

\* One element of the query is compiled, with d profiled accesses.
LEMMA ContinuedCounts ==
  ASSUME GInv, pc = "query", NEW ins, IsCode(ins), Continue(ins),
         UNCHANGED <<inputs, next, blockOf, asks>>,
         NEW d \in {0, 1}, profiled' = profiled + d,
         Tally(ins, "pre") = d, Tally(ins, "post") = d,
         ~ conf.one /\ d = 1 => profiled < AskMax
  PROVE  GInv'
<1>1. Len(query) \in Nat
  BY QueryElement DEF GInv, Typed
<1>2. /\ at \in 1..Len(query) /\ profiled \in Nat /\ profiled < at /\ asks = 0
  BY <1>1 DEF GInv, Typed, TypeOK, Progress
<1>3. PICK then : then = IF AtLast THEN "end" ELSE "query"
  OBVIOUS
<1>4. Emit(ins, then) /\ at' = IF AtLast THEN at ELSE at + 1
  BY <1>3, Zenon DEF Continue
<1>5. pc' \in {then, "err"}
  BY <1>4 DEF Emit
<1>6. /\ then \in {"query", "end", "done"} /\ pc' # "done"
      /\ at' \in 1..(Len(query) + 1) /\ profiled + d <= Len(query)
      /\ then = "query" => profiled + d < at' /\ at' <= Len(query)
  BY <1>1, <1>2, <1>3, <1>4, <1>5 DEF AtLast
<1> QED
  BY <1>2, <1>4, <1>6, AddedCounts

\* A flush is not profiled.
LEMMA FlushCounts ==
  ASSUME GInv, Flush
  PROVE  GInv'
<1>1. PICK ins : /\ ins = IF Elem.kind = "inv" THEN <<Op("wbinvd", {})>> ELSE <<Op("flush", {Tmp})>>
                 /\ Continue(ins)
  BY DEF Flush
<1>2. Untimed(ins)
  <2>1. Untimed(<<Op("wbinvd", {})>>) /\ Untimed(<<Op("flush", {Tmp})>>)
    BY UntimedParts
  <2> QED
    BY <1>1, <2>1, Zenon
<1>3. pc = "query" /\ UNCHANGED <<inputs, next, blockOf, asks>> /\ profiled' = profiled
  BY DEF Flush
<1>4. profiled' = profiled + 0
  BY <1>3 DEF GInv, Typed
<1> QED
  BY <1>1, <1>2, <1>3, <1>4, ContinuedCounts DEF Untimed

\* A load is profiled, or is not.
LEMMA AccessCounts ==
  ASSUME GInv, Access
  PROVE  GInv'
<1>1. PICK X1, X2 : Continue(Timed \o Eviction(X1, X2))
  BY Zenon DEF Access
<1>2. PICK d \in {0, 1} : d = IF Profiles THEN 1 ELSE 0
  OBVIOUS
<1>3. PICK ins : ins = Timed \o Eviction(X1, X2)
  OBVIOUS
<1>4. IsCode(Timed) /\ Tally(Timed, "pre") = d /\ Tally(Timed, "post") = d
  BY <1>2, TimedTally, Zenon
<1>5. /\ IsCode(Eviction(X1, X2))
      /\ Tally(Eviction(X1, X2), "pre") = 0 /\ Tally(Eviction(X1, X2), "post") = 0
  BY EvictionUntimed, Zenon DEF Untimed
<1>6. /\ IsCode(ins)
      /\ Tally(ins, "pre") = Tally(Timed, "pre") + Tally(Eviction(X1, X2), "pre")
      /\ Tally(ins, "post") = Tally(Timed, "post") + Tally(Eviction(X1, X2), "post")
  BY <1>3, <1>4, <1>5, Joined, Zenon
<1>7. Tally(ins, "pre") = d /\ Tally(ins, "post") = d
  BY <1>4, <1>5, <1>6
<1>8. /\ pc = "query" /\ UNCHANGED <<inputs, next, blockOf, asks>>
      /\ profiled' = IF Profiles THEN profiled + 1 ELSE profiled
  BY DEF Access
<1>9. profiled' = profiled + d
  BY <1>2, <1>8 DEF GInv, Typed
<1>10. ~ conf.one /\ d = 1 => profiled < AskMax
  BY <1>2 DEF Profiles
<1> QED
  BY <1>1, <1>3, <1>6, <1>7, <1>8, <1>9, <1>10, ContinuedCounts, Zenon

\* At the end the number of profiled accesses is kept with the code.
LEMMA EndCounts ==
  ASSUME GInv, End
  PROVE  GInv'
<1>1. /\ pc = "end" /\ Emit(<<Op("ret", {})>>, "done")
      /\ asks' = IF pc' = "done" THEN profiled ELSE asks
      /\ UNCHANGED <<inputs, at, next, blockOf, profiled>>
  BY DEF End
<1>2. Untimed(<<Op("ret", {})>>)
  BY UntimedParts
<1>3. /\ at \in 1..(Len(query) + 1) /\ profiled \in Nat /\ profiled <= Len(query) /\ asks = 0
  BY <1>1 DEF GInv, Typed, TypeOK, Progress
<1> QED
  BY <1>1, <1>2, <1>3, AddedCounts DEF Untimed

\* A call that gets no pages changes nothing here.
LEMMA NoPagesCounts ==
  ASSUME GInv, NEW t \in Targets, NEW q \in Queries, NoPages(t, q)
  PROVE  GInv'
<1>1. UNCHANGED <<pc, target, query, conf, at, next, blockOf, code, profiled, asks>>
  BY DEF NoPages
<1> QED
  BY <1>1 DEF GInv, Typed, TypeOK, Progress, Measured, Compiling

-----------------------------------------------------------------------------
\* Every step keeps the counts.
LEMMA StepCounts == GInv /\ [Next]_vars => GInv'
<1> SUFFICES ASSUME GInv, [Next]_vars PROVE GInv'
  OBVIOUS
<1>1. ASSUME NEW t \in Targets, NEW q \in Queries, NEW c \in Confs, Begin(t, q, c) PROVE GInv'
  BY <1>1, BeginCounts
<1>2. ASSUME NEW t \in Targets, NEW q \in Queries, NoPages(t, q) PROVE GInv'
  BY <1>2, NoPagesCounts
<1>3. ASSUME NEW t \in Targets, NEW miss \in BOOLEAN, Calibrate(t, miss) PROVE GInv'
  BY <1>3, CalibrateCounts
<1>4. CASE Known
  BY <1>4, KnownCounts
<1>5. ASSUME NEW k \in next..Len(target.list), Choose(k) PROVE GInv'
  BY <1>5, ChooseCounts
<1>6. CASE Exhausted
  BY <1>6, ForgottenCounts DEF Exhausted
<1>7. CASE Prime
  BY <1>7, PrimeCounts
<1>8. CASE Flush
  BY <1>8, FlushCounts
<1>9. CASE Access
  BY <1>9, AccessCounts
<1>10. CASE End
  BY <1>10, EndCounts
<1>11. CASE Free
  BY <1>11, ForgottenCounts DEF Free
<1>12. CASE UNCHANGED vars
  BY <1>12 DEF vars, inputs, GInv, Typed, TypeOK, Progress, Measured, Compiling
<1> QED
  BY <1>1, <1>2, <1>3, <1>4, <1>5, <1>6, <1>7, <1>8, <1>9, <1>10, <1>11, <1>12, Zenon DEF Next

\* The state of the generator has its types: the code fits in its pages, and both
\* positions, in the query and in the list of the set, stay in bounds (parser.c:371-416,
\* 656-679), for any sets, lists and queries.
THEOREM TypeCorrect == Spec => []TypeOK
<1>1. GInv => TypeOK
  BY DEF GInv, Typed
<1> QED
  BY <1>1, InitCounts, StepCounts, PTL DEF Spec

\* The number kept with the code is that of the bits its runs shift into the result
\* word, one for each pair of counter readings, and at most 63 unless only the last
\* access counts (parser.c:474-476, 505-567, 679), for any query, however long.
THEOREM AsksCorrect == Spec => []AsksCounted
<1>1. GInv => AsksCounted
  BY DEF GInv, Progress, Measured, AsksCounted, Count, Tally
<1> QED
  BY <1>1, InitCounts, StepCounts, PTL DEF Spec

-----------------------------------------------------------------------------
NoTwice(s) == \A i, j \in 1..Len(s) : s[i] = s[j] => i = j

\* A sequence is its length and its members.
LEMMA AsSequence ==
  ASSUME NEW D, NEW n \in Nat, NEW s, s = [i \in 1..n |-> s[i]], \A i \in 1..n : s[i] \in D
  PROVE  s \in Seq(D) /\ Len(s) = n /\ DOMAIN s = 1..n
<1>1. s \in [1..n -> D]
  OBVIOUS
<1> QED BY <1>1

\* Where a member is.
LEMMA WhereIs ==
  ASSUME NEW D, NEW s \in Seq(D), NEW b, In(s, b)
  PROVE  Where(s, b) \in 1..Len(s) /\ s[Where(s, b)] = b
<1> DEFINE W == {j \in DOMAIN s : s[j] = b}
<1>1. W # {} /\ W \subseteq 1..Len(s)
  BY LenProperties DEF In
<1>2. (CHOOSE i \in W : TRUE) \in W
  BY <1>1
<1> QED BY <1>1, <1>2 DEF Where

\* What is left without a member, and in which order.
LEMMA Forgets ==
  ASSUME NEW D, NEW s \in Seq(D), NEW b
  PROVE  /\ Forget(s, b) \in Seq(D)
         /\ Len(Forget(s, b)) = IF In(s, b) THEN Len(s) - 1 ELSE Len(s)
         /\ In(s, b) => Len(s) > 0 /\ \A i \in 1..Len(s)-1 : Forget(s, b)[i] = IF i < Where(s, b) THEN s[i] ELSE s[i+1]
<1>0. Len(s) \in Nat /\ \A i \in 1..Len(s) : s[i] \in D
  BY LenProperties
<1>1. CASE ~ In(s, b)
  BY <1>1 DEF Forget
<1>2. CASE In(s, b)
  <2>1. Where(s, b) \in 1..Len(s)
    BY <1>2, WhereIs
  <2>2. PICK w : w = Where(s, b)
    OBVIOUS
  <2>3. PICK n \in Nat : n = Len(s)
    BY <1>0
  <2>4. PICK r : r = [i \in 1..n-1 |-> IF i < w THEN s[i] ELSE s[i+1]]
    OBVIOUS
  <2>5. n - 1 \in Nat /\ w \in 1..n
    BY <2>1, <2>2, <2>3
  <2>6. \A i \in 1..n-1 : i \in 1..n /\ i + 1 \in 1..n
    BY <2>5
  <2>7. \A i \in 1..n-1 : r[i] \in D
    BY <1>0, <2>3, <2>4, <2>6
  <2>8. r = [i \in 1..n-1 |-> r[i]]
    BY <2>4
  <2>9. r \in Seq(D) /\ Len(r) = n - 1
    BY <2>5, <2>7, <2>8, AsSequence
  <2>10. Forget(s, b) = r
    BY <1>2, <2>2, <2>3, <2>4 DEF Forget
  <2> QED BY <1>2, <2>2, <2>3, <2>4, <2>5, <2>9, <2>10
<1> QED BY <1>1, <1>2

\* What a block in front makes of an order.
LEMMA Touches ==
  ASSUME NEW D, NEW s \in Seq(D), NEW b \in D
  PROVE  /\ Touch(s, b) \in Seq(D)
         /\ Len(Touch(s, b)) = Smaller(Ways, Len(Forget(s, b)) + 1)
         /\ Len(Touch(s, b)) > 0 /\ Len(Touch(s, b)) <= Ways
         /\ Touch(s, b)[1] = b
         /\ \A i \in 2..Len(Touch(s, b)) : i - 1 \in 1..Len(Forget(s, b)) /\ Touch(s, b)[i] = Forget(s, b)[i-1]
<1>1. PICK r : r = Forget(s, b)
  OBVIOUS
<1>2. r \in Seq(D) /\ Len(r) \in Nat /\ \A i \in 1..Len(r) : r[i] \in D
  BY <1>1, Forgets, LenProperties
<1>3. PICK n \in Nat : n = Smaller(Ways, Len(r) + 1) /\ n > 0 /\ n <= Ways /\ n <= Len(r) + 1
  BY <1>2, MeaningAssumption DEF Smaller
<1>4. PICK t : t = [i \in 1..n |-> IF i = 1 THEN b ELSE r[i-1]]
  OBVIOUS
<1>5. \A i \in 2..n : i - 1 \in 1..Len(r) /\ i \in 1..n /\ i # 1
  BY <1>2, <1>3
<1>6. \A i \in 1..n : i = 1 \/ i \in 2..n
  BY <1>3
<1>7. \A i \in 1..n : t[i] \in D
  BY <1>2, <1>4, <1>5, <1>6
<1>8. t = [i \in 1..n |-> t[i]]
  BY <1>4
<1>9. t \in Seq(D) /\ Len(t) = n
  BY <1>7, <1>8, AsSequence
<1>10. Touch(s, b) = t
  BY <1>1, <1>3, <1>4 DEF Touch
<1> QED BY <1>1, <1>3, <1>4, <1>5, <1>9, <1>10

\* Membership, and that nothing is in an order twice.
LEMMA ForgetsMember ==
  ASSUME NEW D, NEW s \in Seq(D), NEW b, NoTwice(s)
  PROVE  /\ NoTwice(Forget(s, b))
         /\ \A x : In(Forget(s, b), x) <=> In(s, x) /\ x # b
<1>0. PICK n \in Nat : n = Len(s) /\ DOMAIN s = 1..n
  BY LenProperties
<1>1. CASE ~ In(s, b)
  BY <1>1 DEF Forget, In
<1>2. CASE In(s, b)
  <2>1. PICK w : w = Where(s, b) /\ w \in 1..n /\ s[w] = b
    BY <1>0, <1>2, WhereIs
  <2>2. PICK r : r = Forget(s, b)
    OBVIOUS
  <2>3. /\ Len(r) = n - 1 /\ DOMAIN r = 1..n-1
        /\ \A i \in 1..n-1 : r[i] = IF i < w THEN s[i] ELSE s[i+1]
    BY <1>0, <1>2, <2>1, <2>2, Forgets, LenProperties
  <2>4. NoTwice(r)
    <3> SUFFICES ASSUME NEW i \in 1..n-1, NEW j \in 1..n-1, r[i] = r[j] PROVE i = j
      BY <2>3 DEF NoTwice
    <3> DEFINE p == IF i < w THEN i ELSE i + 1    q == IF j < w THEN j ELSE j + 1
    <3>1. p \in 1..n /\ q \in 1..n /\ r[i] = s[p] /\ r[j] = s[q]
      BY <2>1, <2>3
    <3>2. p = q
      BY <1>0, <3>1 DEF NoTwice
    <3> QED BY <2>1, <3>2
  <2>5. ASSUME NEW x, In(r, x) PROVE In(s, x) /\ x # b
    <3>1. PICK i \in 1..n-1 : r[i] = x
      BY <2>3, <2>5 DEF In
    <3> DEFINE p == IF i < w THEN i ELSE i + 1
    <3>2. p \in 1..n /\ s[p] = x /\ p # w
      BY <2>1, <2>3, <3>1
    <3>3. s[p] # s[w]
      BY <1>0, <2>1, <3>2 DEF NoTwice
    <3> QED BY <1>0, <2>1, <3>2, <3>3 DEF In
  <2>6. ASSUME NEW x, In(s, x), x # b PROVE In(r, x)
    <3>1. PICK i \in 1..n : s[i] = x
      BY <1>0, <2>6 DEF In
    <3>2. i # w
      BY <2>1, <2>6, <3>1
    <3> DEFINE p == IF i < w THEN i ELSE i - 1
    <3>3. p \in 1..n-1 /\ r[p] = x
      BY <2>1, <2>3, <3>1, <3>2
    <3> QED BY <2>3, <3>3 DEF In
  <2> QED BY <2>2, <2>4, <2>5, <2>6
<1> QED BY <1>1, <1>2

\* Nothing is there twice then, and nothing is new but the block in front.
LEMMA TouchesMember ==
  ASSUME NEW D, NEW s \in Seq(D), NEW b \in D, NoTwice(s)
  PROVE  /\ NoTwice(Touch(s, b)) /\ In(Touch(s, b), b)
         /\ \A x : In(Touch(s, b), x) => x = b \/ In(s, x)
<1>1. PICK r : r = Forget(s, b)
  OBVIOUS
<1>2. PICK t : t = Touch(s, b)
  OBVIOUS
<1>0. /\ Touch(s, b) \in Seq(D) /\ Len(Touch(s, b)) > 0 /\ Touch(s, b)[1] = b
      /\ \A i \in 2..Len(Touch(s, b)) : i - 1 \in 1..Len(Forget(s, b)) /\ Touch(s, b)[i] = Forget(s, b)[i-1]
      /\ Forget(s, b) \in Seq(D)
  BY Touches, Forgets
<1>3. PICK n \in Nat, m \in Nat :
        /\ n = Len(t) /\ DOMAIN t = 1..n /\ m = Len(r) /\ DOMAIN r = 1..m /\ n > 0 /\ t[1] = b
        /\ \A i \in 2..n : i - 1 \in 1..m /\ t[i] = r[i-1]
  <2>1. t \in Seq(D) /\ r \in Seq(D) /\ Len(t) > 0 /\ t[1] = b
        /\ \A i \in 2..Len(t) : i - 1 \in 1..Len(r) /\ t[i] = r[i-1]
    BY <1>0, <1>1, <1>2, Zenon
  <2> QED BY <2>1, LenProperties
<1>4. NoTwice(r) /\ \A x : In(r, x) <=> In(s, x) /\ x # b
  BY <1>1, ForgetsMember
<1>5. \A i \in 2..n : t[i] # b /\ In(s, t[i])
  <2> SUFFICES ASSUME NEW i \in 2..n PROVE t[i] # b /\ In(s, t[i])
    OBVIOUS
  <2>1. In(r, t[i])
    BY <1>3 DEF In
  <2> QED BY <1>4, <2>1
<1>6. \A i \in 1..n : i = 1 \/ i \in 2..n
  OBVIOUS
<1>7. NoTwice(t)
  <2> SUFFICES ASSUME NEW i \in 1..n, NEW j \in 1..n, t[i] = t[j] PROVE i = j
    BY <1>3 DEF NoTwice
  <2>1. CASE i = 1 \/ j = 1
    BY <1>3, <1>5, <1>6, <2>1
  <2>2. CASE i \in 2..n /\ j \in 2..n
    <3>1. i - 1 \in 1..m /\ j - 1 \in 1..m /\ r[i-1] = r[j-1]
      BY <1>3, <2>2
    <3>2. i - 1 = j - 1
      BY <1>3, <1>4, <3>1 DEF NoTwice
    <3> QED BY <3>2
  <2> QED BY <1>6, <2>1, <2>2
<1>8. In(t, b)
  BY <1>3 DEF In
<1>9. ASSUME NEW x, In(t, x) PROVE x = b \/ In(s, x)
  BY <1>3, <1>5, <1>6, <1>9 DEF In
<1> QED BY <1>2, <1>7, <1>8, <1>9

-----------------------------------------------------------------------------
\* An order of names, and that of their blocks.
Named(f, s) == [i \in 1..Len(s) |-> f[s[i]]]
OneToOne(f) == \A m, n \in DOMAIN f : f[m] = f[n] => m = n

\* The blocks of an order of names.
LEMMA NamedIs ==
  ASSUME NEW f, NEW s \in Seq(DOMAIN f)
  PROVE  /\ Named(f, s) \in Seq({f[n] : n \in DOMAIN f}) /\ Len(Named(f, s)) = Len(s)
         /\ \A i \in 1..Len(s) : s[i] \in DOMAIN f /\ Named(f, s)[i] = f[s[i]]
<1>0. PICK n \in Nat : n = Len(s) /\ \A i \in 1..n : s[i] \in DOMAIN f
  BY LenProperties
<1>1. PICK t : t = [i \in 1..n |-> f[s[i]]]
  OBVIOUS
<1>2. \A i \in 1..n : t[i] \in {f[m] : m \in DOMAIN f}
  BY <1>0, <1>1
<1>3. t = [i \in 1..n |-> t[i]]
  BY <1>1
<1>4. t \in Seq({f[m] : m \in DOMAIN f}) /\ Len(t) = n
  BY <1>2, <1>3, AsSequence
<1> QED BY <1>0, <1>1, <1>4 DEF Named

\* Names that stand for different blocks are where their blocks are.
LEMMA NamedIn ==
  ASSUME NEW f, OneToOne(f), NEW s \in Seq(DOMAIN f), NEW n \in DOMAIN f
  PROVE  /\ In(Named(f, s), f[n]) <=> In(s, n)
         /\ Where(Named(f, s), f[n]) = Where(s, n)
<1>0. PICK l \in Nat : l = Len(s) /\ DOMAIN s = 1..l
  BY LenProperties
<1>1. PICK t : t = Named(f, s)
  OBVIOUS
<1>2. DOMAIN t = 1..l /\ \A i \in 1..l : s[i] \in DOMAIN f /\ t[i] = f[s[i]]
  BY <1>0, <1>1, NamedIs, LenProperties
<1>3. \A i \in 1..l : t[i] = f[n] <=> s[i] = n
  BY <1>2 DEF OneToOne
<1>4. {j \in DOMAIN t : t[j] = f[n]} = {j \in DOMAIN s : s[j] = n}
  BY <1>0, <1>2, <1>3
<1>5. In(t, f[n]) <=> In(s, n)
  BY <1>0, <1>2, <1>3 DEF In
<1> QED BY <1>1, <1>4, <1>5, Zenon DEF Where

\* To forget a name is to forget its block,
LEMMA NamedForget ==
  ASSUME NEW f, OneToOne(f), NEW s \in Seq(DOMAIN f), NEW n \in DOMAIN f
  PROVE  Forget(Named(f, s), f[n]) = Named(f, Forget(s, n))
<1>0. PICK l \in Nat : l = Len(s) /\ DOMAIN s = 1..l
  BY LenProperties
<1>1. PICK t : t = Named(f, s)
  OBVIOUS
<1>2. Len(t) = l /\ \A i \in 1..l : t[i] = f[s[i]]
  BY <1>0, <1>1, NamedIs
<1>3. (In(t, f[n]) <=> In(s, n)) /\ Where(t, f[n]) = Where(s, n)
  BY <1>1, NamedIn
<1>4. CASE ~ In(s, n)
  BY <1>1, <1>3, <1>4 DEF Forget
<1>5. CASE In(s, n)
  <2>1. PICK w : w = Where(s, n)
    OBVIOUS
  <2>2. PICK r : r = Forget(s, n)
    OBVIOUS
  <2>3. Len(r) = l - 1 /\ \A i \in 1..l-1 : r[i] = IF i < w THEN s[i] ELSE s[i+1]
    BY <1>0, <1>5, <2>1, <2>2, Forgets
  <2>4. Forget(t, f[n]) = [i \in 1..l-1 |-> IF i < w THEN t[i] ELSE t[i+1]]
    BY <1>2, <1>3, <1>5, <2>1 DEF Forget
  <2>5. \A i \in 1..l-1 : f[r[i]] = IF i < w THEN t[i] ELSE t[i+1]
    <3> SUFFICES ASSUME NEW i \in 1..l-1 PROVE f[r[i]] = IF i < w THEN t[i] ELSE t[i+1]
      OBVIOUS
    <3>1. i \in 1..l /\ i + 1 \in 1..l
      OBVIOUS
    <3> QED BY <1>2, <2>3, <3>1
  <2>6. Named(f, r) = [i \in 1..l-1 |-> f[r[i]]]
    BY <2>3 DEF Named
  <2> QED BY <1>1, <2>2, <2>4, <2>5, <2>6
<1> QED BY <1>4, <1>5

\* and to put it in front is to put its block there.
LEMMA NamedTouch ==
  ASSUME NEW f, OneToOne(f), NEW s \in Seq(DOMAIN f), NEW n \in DOMAIN f
  PROVE  Touch(Named(f, s), f[n]) = Named(f, Touch(s, n))
<1>1. PICK r : r = Forget(s, n) /\ r \in Seq(DOMAIN f)
  BY Forgets
<1>2. PICK t : t = Touch(s, n)
  OBVIOUS
<1>3. PICK m \in Nat : m = Len(r)
  BY <1>1, LenProperties
<1>4. /\ Len(t) = Smaller(Ways, Len(r) + 1) /\ Len(t) > 0 /\ t[1] = n /\ t \in Seq(DOMAIN f)
      /\ \A i \in 2..Len(t) : i - 1 \in 1..Len(r) /\ t[i] = r[i-1]
  <2>1. /\ Touch(s, n) \in Seq(DOMAIN f) /\ Len(Touch(s, n)) = Smaller(Ways, Len(Forget(s, n)) + 1)
        /\ Len(Touch(s, n)) > 0 /\ Touch(s, n)[1] = n
        /\ \A i \in 2..Len(Touch(s, n)) : i - 1 \in 1..Len(Forget(s, n)) /\ Touch(s, n)[i] = Forget(s, n)[i-1]
    <3>1. PICK D : D = DOMAIN f
      OBVIOUS
    <3>2. s \in Seq(D) /\ n \in D
      BY <3>1
    <3> HIDE <3>1
    <3> QED BY <3>1, <3>2, Touches
  <2> QED BY <1>1, <1>2, <2>1, Zenon
<1>5. PICK k \in Nat : k = Smaller(Ways, m + 1) /\ k = Len(t) /\ k > 0
  BY <1>3, <1>4, LenProperties
<1>6. PICK v : v = Named(f, r)
  OBVIOUS
<1>7. Len(v) = m /\ \A i \in 1..m : v[i] = f[r[i]]
  BY <1>1, <1>3, <1>6, NamedIs
<1>8. Forget(Named(f, s), f[n]) = v
  BY <1>1, <1>6, NamedForget
<1>9. Touch(Named(f, s), f[n]) = [i \in 1..k |-> IF i = 1 THEN f[n] ELSE v[i-1]]
  BY <1>5, <1>7, <1>8 DEF Touch
<1>10. \A i \in 1..k : f[t[i]] = IF i = 1 THEN f[n] ELSE v[i-1]
  <2> SUFFICES ASSUME NEW i \in 1..k, i # 1 PROVE f[t[i]] = v[i-1]
    BY <1>4
  <2>1. i \in 2..k
    OBVIOUS
  <2> QED BY <1>3, <1>4, <1>5, <1>7, <2>1
<1>11. Named(f, t) = [i \in 1..k |-> f[t[i]]]
  BY <1>5 DEF Named
<1> QED BY <1>2, <1>9, <1>10, <1>11

-----------------------------------------------------------------------------
\* The caches after each instruction of some code.
Steps(t, c, ins, n, w) == w[0] = c /\ \A k \in 1..n : w[k] = Exec(t, w[k-1], ins[k])

\* The code can be run to any position, by induction on it.
LEMMA SomeRun ==
  ASSUME NEW t, NEW c, NEW ins, NEW m \in Nat
  PROVE  \E w : w = [k \in 0..m |-> w[k]] /\ Steps(t, c, ins, m, w)
<1> DEFINE T == {n \in Nat : \E w : w = [k \in 0..n |-> w[k]] /\ Steps(t, c, ins, n, w)}
<1>1. 0 \in T
  <2> DEFINE w == [k \in 0..0 |-> c]
  <2>1. w = [k \in 0..0 |-> w[k]] /\ w[0] = c /\ \A k \in 1..0 : FALSE
    OBVIOUS
  <2> HIDE DEF w
  <2>2. Steps(t, c, ins, 0, w)
    BY <2>1 DEF Steps
  <2> QED BY <2>1, <2>2
<1>2. ASSUME NEW n \in Nat, n \in T
      PROVE  n + 1 \in T
  <2>1. PICK w : w = [k \in 0..n |-> w[k]] /\ Steps(t, c, ins, n, w)
    BY <1>2
  <2> DEFINE v == [k \in 0..(n + 1) |-> IF k <= n THEN w[k] ELSE Exec(t, w[n], ins[n + 1])]
  <2>2. v = [k \in 0..(n + 1) |-> v[k]]
    OBVIOUS
  <2>3. v[0] = c
    BY <2>1 DEF Steps
  <2>4. ASSUME NEW k \in 1..(n + 1)
        PROVE  v[k] = Exec(t, v[k-1], ins[k])
    <3>1. k - 1 \in 0..(n + 1) /\ v[k-1] = w[k-1]
      OBVIOUS
    <3>2. CASE k <= n
      <4>1. v[k] = w[k] /\ k \in 1..n
        BY <3>2
      <4> QED BY <2>1, <3>1, <4>1 DEF Steps
    <3>3. CASE ~ (k <= n)
      <4>1. k = n + 1 /\ k - 1 = n /\ v[k] = Exec(t, w[n], ins[n + 1])
        BY <3>3
      <4> QED BY <3>1, <4>1, Zenon
    <3> QED BY <3>2, <3>3
  <2> HIDE DEF v
  <2>5. Steps(t, c, ins, n + 1, v)
    BY <2>3, <2>4, Zenon DEF Steps
  <2> QED BY <2>2, <2>5
<1> HIDE DEF T
<1>3. m \in T
  BY <1>1, <1>2, Upwards
<1> QED BY <1>3 DEF T

\* And in one way.
LEMMA OneRun ==
  ASSUME NEW t, NEW c, NEW ins, NEW m \in Nat, NEW v, Steps(t, c, ins, m, v), NEW w, Steps(t, c, ins, m, w)
  PROVE  \A k \in 0..m : v[k] = w[k]
<1> DEFINE T == {k \in Nat : k <= m => v[k] = w[k]}
<1>1. 0 \in T
  BY DEF Steps
<1>2. ASSUME NEW k \in Nat, k \in T
      PROVE  k + 1 \in T
  <2> SUFFICES ASSUME k + 1 <= m PROVE v[k + 1] = w[k + 1]
    OBVIOUS
  <2>1. (k + 1) - 1 = k /\ k + 1 \in 1..m /\ v[k] = w[k]
    BY <1>2
  <2> QED BY <2>1 DEF Steps
<1> HIDE DEF T
<1>3. Nat \subseteq T
  BY <1>1, <1>2, Upwards
<1> QED BY <1>3 DEF T

\* So Run is the last of them.
LEMMA RunIs ==
  ASSUME NEW t, NEW c, NEW ins, Len(ins) \in Nat, NEW w, Steps(t, c, ins, Len(ins), w)
  PROVE  Run(t, c, ins) = w[Len(ins)]
<1>0. PICK n \in Nat : n = Len(ins)
  OBVIOUS
<1> DEFINE R(x) == [k \in 0..n |-> IF k = 0 THEN c ELSE Exec(t, x[k-1], ins[k])]
<1>1. PICK u : u = [k \in 0..n |-> u[k]] /\ Steps(t, c, ins, n, u)
  BY SomeRun
<1>2. u = R(u)
  <2>1. ASSUME NEW k \in 0..n PROVE u[k] = IF k = 0 THEN c ELSE Exec(t, u[k-1], ins[k])
    <3>1. k # 0 => k \in 1..n
      OBVIOUS
    <3> QED BY <1>1, <3>1, Zenon DEF Steps
  <2> QED BY <1>1, <2>1
<1>3. PICK v : v = CHOOSE x : x = R(x)
  OBVIOUS
<1>4. Run(t, c, ins) = v[n]
  <2>1. Run(t, c, ins) = (CHOOSE after : after = [k \in 0..Len(ins) |->
                           IF k = 0 THEN c ELSE Exec(t, after[k-1], ins[k])])[Len(ins)]
    BY DEF Run
  <2> QED BY <1>0, <1>3, <2>1, Zenon
<1>5. v = R(v)
  <2> HIDE DEF R
  <2> QED BY <1>2, <1>3, Zenon
<1>6. Steps(t, c, ins, n, v)
  <2>1. v[0] = c
    BY <1>5
  <2>2. \A k \in 1..n : v[k] = Exec(t, v[k-1], ins[k])
    BY <1>5
  <2> QED BY <2>1, <2>2 DEF Steps
<1>7. n \in 0..n /\ \A k \in 0..n : v[k] = w[k]
  <2>1. Steps(t, c, ins, n, w)
    BY <1>0
  <2> QED BY <1>6, <2>1, OneRun
<1> QED BY <1>0, <1>4, <1>7

\* No code, one instruction, and code after code.
LEMMA RunNone == ASSUME NEW t, NEW c PROVE Run(t, c, <<>>) = c
<1>1. Len(<<>>) = 0
  OBVIOUS
<1> DEFINE w == [k \in {0} |-> c]
<1>2. w[0] = c
  OBVIOUS
<1> HIDE DEF w
<1>3. Steps(t, c, <<>>, 0, w)
  BY <1>2 DEF Steps
<1> QED BY <1>1, <1>2, <1>3, RunIs

\* One instruction.
LEMMA RunOne == ASSUME NEW t, NEW c, NEW i PROVE Run(t, c, <<i>>) = Exec(t, c, i)
<1>0. Len(<<i>>) = 1 /\ <<i>>[1] = i
  OBVIOUS
<1>1. PICK s : s = <<i>> /\ Len(s) = 1 /\ s[1] = i
  BY <1>0, Zenon
<1> DEFINE w == [k \in 0..1 |-> IF k = 0 THEN c ELSE Exec(t, c, i)]
<1>2. w[0] = c /\ w[1] = Exec(t, c, i)
  OBVIOUS
<1> HIDE DEF w
<1>3. Steps(t, c, s, 1, w)
  <2>1. \A k \in 1..1 : k = 1 /\ k - 1 = 0
    OBVIOUS
  <2> QED BY <1>1, <1>2, <2>1 DEF Steps
<1>4. Run(t, c, s) = w[1]
  BY <1>1, <1>3, RunIs
<1> QED BY <1>1, <1>2, <1>4

\* Code after code: the one runs on what the other leaves.
LEMMA RunJoined ==
  ASSUME NEW t, NEW c, NEW a, IsCode(a), NEW b, IsCode(b)
  PROVE  Run(t, c, a \o b) = Run(t, Run(t, c, a), b)
<1>0. PICK m \in Nat, n \in Nat : m = Len(a) /\ n = Len(b)
  BY LenProperties DEF IsCode
<1>1. PICK e : e = a \o b
  OBVIOUS
<1>2. Len(e) = m + n /\ \A k \in 1..(m + n) : e[k] = IF k <= m THEN a[k] ELSE b[k - m]
  <2> DEFINE T == {a[k] : k \in DOMAIN a} \cup {b[k] : k \in DOMAIN b}
  <2>1. a \in Seq(T) /\ b \in Seq(T)
    BY DEF IsCode
  <2> HIDE DEF T
  <2> QED BY <1>0, <1>1, <2>1, ConcatProperties
<1>3. PICK w : Steps(t, c, a, m, w)
  BY SomeRun
<1>4. PICK v : Steps(t, w[m], b, n, v)
  BY SomeRun
<1> DEFINE u == [k \in 0..(m + n) |-> IF k <= m THEN w[k] ELSE v[k - m]]
<1>5. u[0] = c
  BY <1>3 DEF Steps
<1>6. ASSUME NEW k \in 1..(m + n) PROVE u[k] = Exec(t, u[k-1], e[k])
  <2>1. CASE k <= m
    <3>1. k \in 1..m /\ u[k] = w[k] /\ u[k-1] = w[k-1] /\ e[k] = a[k]
      BY <1>2, <2>1
    <3> QED BY <1>3, <3>1 DEF Steps
  <2>2. CASE ~ (k <= m)
    <3>0. k - m \in 1..n /\ u[k] = v[k - m] /\ e[k] = b[k - m]
      BY <1>2, <2>2
    <3>1. PICK j \in 1..n : j = k - m /\ u[k] = v[j] /\ e[k] = b[j]
      BY <3>0, Zenon
    <3>2. u[k-1] = v[j-1]
      <4>1. CASE j = 1
        <5>1. u[k-1] = w[m] /\ j - 1 = 0
          BY <3>1, <4>1
        <5> QED BY <1>4, <5>1 DEF Steps
      <4>2. CASE j # 1
        <5>1. ~(k - 1 <= m) /\ (k - 1) - m = j - 1 /\ k - 1 \in 0..(m + n)
          BY <3>1, <4>2
        <5> QED BY <5>1
      <4> QED BY <4>1, <4>2
    <3> QED BY <1>4, <3>1, <3>2 DEF Steps
  <2> QED BY <2>1, <2>2
<1>7. u[m + n] = v[n]
  <2>1. CASE n = 0
    <3>1. u[m + n] = w[m] /\ v[0] = w[m]
      BY <1>4, <2>1 DEF Steps
    <3> QED BY <2>1, <3>1
  <2>2. CASE n # 0
    <3>1. ~(m + n <= m) /\ (m + n) - m = n
      BY <2>2
    <3> QED BY <3>1
  <2> QED BY <2>1, <2>2
<1> HIDE DEF u
<1>8. Steps(t, c, e, m + n, u)
  BY <1>5, <1>6 DEF Steps
<1>9. Run(t, c, e) = u[m + n]
  <2>1. m + n \in Nat
    OBVIOUS
  <2> QED BY <1>2, <1>8, <2>1, RunIs
<1>10. Run(t, c, a) = w[m]
  BY <1>0, <1>3, RunIs
<1>11. Run(t, w[m], b) = v[n]
  BY <1>0, <1>4, RunIs
<1> QED BY <1>1, <1>7, <1>9, <1>10, <1>11

-----------------------------------------------------------------------------
\* The LRU set after each element of a query, to any length.
AskSteps(q, n, w) ==
  w[0] = [set |-> <<>>, out |-> <<>>] /\ \A k \in 1..n : w[k] = AskStep(w[k-1], q[k])

\* The query can be asked to any position, by induction on it.
LEMMA SomeAsked ==
  ASSUME NEW q, NEW m \in Nat
  PROVE  \E w : w = [k \in 0..m |-> w[k]] /\ AskSteps(q, m, w)
<1> DEFINE T == {n \in Nat : \E w : w = [k \in 0..n |-> w[k]] /\ AskSteps(q, n, w)}
           z == [set |-> <<>>, out |-> <<>>]
<1> HIDE DEF z
<1>1. 0 \in T
  <2> DEFINE w == [k \in 0..0 |-> z]
  <2>1. w = [k \in 0..0 |-> w[k]] /\ w[0] = z /\ \A k \in 1..0 : FALSE
    OBVIOUS
  <2> HIDE DEF w
  <2>2. AskSteps(q, 0, w)
    BY <2>1 DEF AskSteps, z
  <2> QED BY <2>1, <2>2
<1>2. ASSUME NEW n \in Nat, n \in T
      PROVE  n + 1 \in T
  <2>1. PICK w : w = [k \in 0..n |-> w[k]] /\ AskSteps(q, n, w)
    BY <1>2
  <2> DEFINE v == [k \in 0..(n + 1) |-> IF k <= n THEN w[k] ELSE AskStep(w[n], q[n + 1])]
  <2>2. v = [k \in 0..(n + 1) |-> v[k]]
    OBVIOUS
  <2>3. v[0] = z
    BY <2>1 DEF AskSteps, z
  <2>4. ASSUME NEW k \in 1..(n + 1)
        PROVE  v[k] = AskStep(v[k-1], q[k])
    <3>1. k - 1 \in 0..(n + 1) /\ v[k-1] = w[k-1]
      OBVIOUS
    <3>2. CASE k <= n
      <4>1. v[k] = w[k] /\ k \in 1..n
        BY <3>2
      <4> QED BY <2>1, <3>1, <4>1, Zenon DEF AskSteps
    <3>3. CASE ~ (k <= n)
      <4>1. k = n + 1 /\ k - 1 = n /\ v[k] = AskStep(w[n], q[n + 1])
        BY <3>3
      <4> QED BY <3>1, <4>1, Zenon
    <3> QED BY <3>2, <3>3
  <2> HIDE DEF v
  <2>5. AskSteps(q, n + 1, v)
    BY <2>3, <2>4, Zenon DEF AskSteps, z
  <2> QED BY <2>2, <2>5
<1> HIDE DEF T
<1>3. m \in T
  BY <1>1, <1>2, Upwards
<1> QED BY <1>3 DEF T

\* What is asked by the first n elements, one element after the other.
LEMMA AskedSteps ==
  ASSUME NEW q, Len(q) \in Nat
  PROVE  /\ Asked(q, 0) = [set |-> <<>>, out |-> <<>>]
         /\ \A n \in 1..Len(q) : Asked(q, n) = AskStep(Asked(q, n - 1), q[n])
<1>0. PICK m \in Nat : m = Len(q)
  OBVIOUS
<1> DEFINE z == [set |-> <<>>, out |-> <<>>]
           R(x) == [k \in 0..m |-> IF k = 0 THEN z ELSE AskStep(x[k-1], q[k])]
<1>1. PICK u : u = [k \in 0..m |-> u[k]] /\ AskSteps(q, m, u)
  BY SomeAsked
<1>2. u = R(u)
  <2> HIDE DEF z
  <2>1. ASSUME NEW k \in 0..m PROVE u[k] = IF k = 0 THEN z ELSE AskStep(u[k-1], q[k])
    <3>1. k # 0 => k \in 1..m
      OBVIOUS
    <3> QED BY <1>1, <3>1, Zenon DEF AskSteps, z
  <2> QED BY <1>1, <2>1
<1>3. PICK v : v = CHOOSE x : x = R(x)
  OBVIOUS
<1>4. ASSUME NEW n PROVE Asked(q, n) = v[n]
  <2>1. Asked(q, n) = (CHOOSE after : after = [k \in 0..Len(q) |->
                           IF k = 0 THEN z ELSE AskStep(after[k-1], q[k])])[n]
    BY DEF Asked
  <2> QED BY <1>0, <1>3, <2>1, Zenon
<1>5. v = R(v)
  <2> HIDE DEF R
  <2> QED BY <1>2, <1>3, Zenon
<1> HIDE DEF z
<1>6. v[0] = z
  BY <1>5
<1>7. ASSUME NEW n \in 1..m PROVE v[n] = AskStep(v[n - 1], q[n])
  BY <1>5
<1> QED BY <1>0, <1>4, <1>6, <1>7, Zenon DEF z

-----------------------------------------------------------------------------
\* The blocks of a target.
Row(t) == {t.list[k] : k \in 1..Len(t.list)}

\* They are of the set of the head.
LEMMA RowBlocks ==
  ASSUME NEW t \in Targets
  PROVE  /\ t.level \in {1, 2, 3} /\ Head(t.list) = t.list[1] /\ Head(t.list) \in Row(t)
         /\ Row(t) \subseteq Block /\ Len(t.list) \in Nat \ {0}
         /\ \A b \in Row(t) : Congruent(t.level, b, Head(t.list))
<1>1. t.list \in Seq(Block) /\ Len(t.list) \in Nat \ {0} /\ \A k \in 1..Len(t.list) : t.list[k] \in Block
  BY TargetList
<1>2. Head(t.list) = t.list[1]
  BY <1>1, HeadTailProperties
<1>3. 1 \in 1..Len(t.list) /\ t.level \in {1, 2, 3}
  BY <1>1, CodeGenAssumption
<1>4. \A i \in 1..Len(t.list) : Congruent(t.level, t.list[i], t.list[1])
  BY <1>3, CodeGenAssumption
<1> QED BY <1>1, <1>2, <1>3, <1>4 DEF Row

-----------------------------------------------------------------------------

\* The parts of a cache.
LEMMA CacheFields ==
  ASSUME NEW s, NEW n, NEW l, NEW o, NEW c, c = Cache(s, n, l, o)
  PROVE  c.set = s /\ c.near = n /\ c.last = l /\ c.out = o
BY DEF Cache

\* What each instruction does.
LEMMA OpIs ==
  ASSUME NEW o, NEW X
  PROVE  Op(o, X).op = o /\ Op(o, X).on = X
BY DEF Op

\* An instruction about one block.
About(o, b) == Op(o, {b})

\* It is about that block.
LEMMA OnIs ==
  ASSUME NEW o, NEW b
  PROVE  About(o, b).op = o /\ On(About(o, b)) = b
<1>1. (CHOOSE x \in {b} : TRUE) = b
  OBVIOUS
<1> QED BY <1>1, OpIs DEF On, About

\* A block is primed by three loads.
LEMMA ExecPrime ==
  ASSUME NEW t, NEW c, NEW b
  PROVE  Exec(t, c, About("prime", b)) = Load(t, Load(t, Load(t, c, b), b), b)
<1>1. PICK i : i = About("prime", b)
  OBVIOUS
<1>2. i.op = "prime" /\ On(i) = b
  BY <1>1, OnIs
<1>3. Exec(t, c, i) = Load(t, Load(t, Load(t, c, On(i)), On(i)), On(i))
  BY <1>2 DEF Exec
<1> QED BY <1>1, <1>2, <1>3, Zenon

\* A load is one.
LEMMA ExecLoad ==
  ASSUME NEW t, NEW c, NEW b
  PROVE  Exec(t, c, About("load", b)) = Load(t, c, b)
<1>1. PICK i : i = About("load", b)
  OBVIOUS
<1>2. i.op = "load" /\ On(i) = b
  BY <1>1, OnIs
<1>3. Exec(t, c, i) = Load(t, c, On(i))
  BY <1>2 DEF Exec
<1> QED BY <1>1, <1>2, <1>3, Zenon

\* A flush takes the block from everywhere,
LEMMA ExecFlush ==
  ASSUME NEW t, NEW c, NEW b, NEW e, e = Exec(t, c, About("flush", b))
  PROVE  /\ e.set = Forget(c.set, b) /\ e.out = c.out
         /\ \A k \in 1..2 : e.near[k] = c.near[k] \ {b}
<1>1. PICK i : i = About("flush", b)
  OBVIOUS
<1>2. i.op = "flush" /\ On(i) = b
  BY <1>1, OnIs
<1>3. PICK n : n = [k \in 1..2 |-> c.near[k] \ {On(i)}]
  OBVIOUS
<1>4. Exec(t, c, i) = Cache(Forget(c.set, On(i)), n, c.last, c.out)
  BY <1>2, <1>3 DEF Exec
<1>5. e.set = Forget(c.set, b) /\ e.out = c.out /\ e.near = n
  BY <1>1, <1>2, <1>4, CacheFields
<1> QED BY <1>2, <1>3, <1>5

\* WBINVD takes all of them.
LEMMA ExecWbinvd ==
  ASSUME NEW t, NEW c, NEW X, NEW e, e = Exec(t, c, Op("wbinvd", X))
  PROVE  e.set = <<>> /\ e.out = c.out /\ \A k \in 1..2 : e.near[k] = {}
<1>1. PICK i : i = Op("wbinvd", X) /\ i.op = "wbinvd"
  BY OpIs, Zenon
<1>2. PICK n : n = [k \in 1..2 |-> {}]
  OBVIOUS
<1>3. Exec(t, c, i) = Cache(<<>>, n, c.last, c.out)
  BY <1>1, <1>2 DEF Exec
<1>4. e.set = <<>> /\ e.out = c.out /\ e.near = n
  BY <1>1, <1>3, CacheFields
<1> QED BY <1>2, <1>4

\* The evictions sweep a level; the thrash set is too small to.
LEMMA ExecSweeps ==
  ASSUME NEW t, NEW c, NEW X
  PROVE  /\ Exec(t, c, Op("evict1", X)) = Sweep(t, c, X, 1, EV1)
         /\ Exec(t, c, Op("evict2", X)) = Sweep(t, c, X, 2, EV2)
         /\ Exec(t, c, Op("thrash", X)) = Sweep(t, c, X, 2, Cardinality(Block) + 1)
<1>1. PICK i : i = Op("evict1", X) /\ i.op = "evict1" /\ i.on = X
  BY OpIs, Zenon
<1>2. PICK j : j = Op("evict2", X) /\ j.op = "evict2" /\ j.on = X
  BY OpIs, Zenon
<1>3. PICK k : k = Op("thrash", X) /\ k.op = "thrash" /\ k.on = X
  BY OpIs, Zenon
<1>4. Exec(t, c, i) = Sweep(t, c, i.on, 1, EV1)
  BY <1>1 DEF Exec
<1>5. Exec(t, c, j) = Sweep(t, c, j.on, 2, EV2)
  BY <1>2 DEF Exec
<1>6. Exec(t, c, k) = Sweep(t, c, k.on, 2, Cardinality(Block) + 1)
  BY <1>3 DEF Exec
<1> QED BY <1>1, <1>2, <1>3, <1>4, <1>5, <1>6, Zenon

\* The second reading makes the last load an answer.
LEMMA ExecPost ==
  ASSUME NEW t, NEW c, NEW X, NEW e, e = Exec(t, c, Op("post", X))
  PROVE  e.set = c.set /\ e.near = c.near /\ e.out = Append(c.out, c.last)
<1>1. PICK i : i = Op("post", X) /\ i.op = "post"
  BY OpIs, Zenon
<1>2. PICK o : o = Append(c.out, c.last)
  OBVIOUS
<1>3. Exec(t, c, i) = Cache(c.set, c.near, c.last, Append(c.out, c.last))
  BY <1>1 DEF Exec
<1>4. e = Cache(c.set, c.near, c.last, o)
  BY <1>1, <1>2, <1>3, Zenon
<1>5. e.set = c.set /\ e.near = c.near /\ e.out = o
  BY <1>4, CacheFields
<1> QED BY <1>2, <1>5, Zenon

\* The first reading and the return leave the cache alone.
LEMMA ExecOther ==
  ASSUME NEW t, NEW c, NEW X
  PROVE  Exec(t, c, Op("pre", X)) = c /\ Exec(t, c, Op("ret", X)) = c
<1>1. PICK i : i = Op("pre", X) /\ i.op = "pre"
  BY OpIs, Zenon
<1>2. PICK j : j = Op("ret", X) /\ j.op = "ret"
  BY OpIs, Zenon
<1>3. Exec(t, c, i) = c
  BY <1>1 DEF Exec
<1>4. Exec(t, c, j) = c
  BY <1>2 DEF Exec
<1> QED BY <1>1, <1>2, <1>3, <1>4, Zenon

\* No closer level has a block, or any of the target.
Far(t, c, b) == \A k \in 1..(t.level - 1) : b \notin c.near[k]
Away(t, c) == \A b \in Row(t) : Far(t, c, b)

\* Then a load is served by the target level or a farther one.
LEMMA LoadsAway ==
  ASSUME NEW t \in Targets, NEW c, NEW b, Far(t, c, b), NEW d, d = Load(t, c, b)
  PROVE  d.set = Touch(c.set, b) /\ d.last = IF In(c.set, b) THEN t.level ELSE 0
<1>1. {k \in 1..(t.level - 1) : b \in c.near[k]} = {}
  BY DEF Far
<1>2. ServedBy(t, c, b) = IF In(c.set, b) THEN t.level ELSE 0
  BY <1>1 DEF ServedBy
<1>3. t.level \in {1, 2, 3}
  BY RowBlocks
<1>4. PICK l : l = ServedBy(t, c, b) /\ l \notin 1..(t.level - 1)
  BY <1>2, <1>3
<1>5. PICK n : n = [k \in 1..2 |-> c.near[k] \cup {b}]
  OBVIOUS
<1>6. d = Cache(Touch(c.set, b), n, l, c.out)
  BY <1>4, <1>5, Zenon DEF Load
<1>7. d.set = Touch(c.set, b) /\ d.last = l
  BY <1>6, CacheFields
<1> QED BY <1>2, <1>4, <1>7, Zenon

\* Whatever is loaded, the rest of the cache stays, and the set has blocks of the target.
LEMMA LoadKeeps ==
  ASSUME NEW t, NEW c, NEW b, NEW d, d = Load(t, c, b)
  PROVE  /\ d.out = c.out
         /\ d.set = c.set \/ d.set = Touch(c.set, b)
         /\ \A k \in 1..2 : d.near[k] = c.near[k] \cup {b}
<1>1. PICK s, n, l :
        /\ s = IF ServedBy(t, c, b) \in 1..t.level-1 THEN c.set ELSE Touch(c.set, b)
        /\ n = [k \in 1..2 |-> c.near[k] \cup {b}]
        /\ l = ServedBy(t, c, b)
  OBVIOUS
<1>2. Load(t, c, b) = Cache(s, n, l, c.out)
  BY <1>1, Zenon DEF Load
<1>3. s = c.set \/ s = Touch(c.set, b)
  BY <1>1, Zenon
<1>4. d.set = s /\ d.near = n /\ d.out = c.out
  BY <1>2, CacheFields
<1>5. \A k \in 1..2 : n[k] = c.near[k] \cup {b}
  BY <1>1
<1> QED BY <1>3, <1>4, <1>5, Zenon

-----------------------------------------------------------------------------
\* The blocks of an order are of the target, each once.
Ordered(t, s) == s \in Seq(Row(t)) /\ NoTwice(s)

\* A block of the target that is touched or forgotten leaves such an order.
LEMMA OrderedKept ==
  ASSUME NEW t \in Targets, NEW s, Ordered(t, s), NEW b \in Row(t)
  PROVE  /\ Ordered(t, Touch(s, b)) /\ Ordered(t, Forget(s, b))
         /\ \A x : In(Forget(s, b), x) <=> In(s, x) /\ x # b
<1>1. s \in Seq(Row(t)) /\ NoTwice(s)
  BY DEF Ordered
<1>2. Touch(s, b) \in Seq(Row(t)) /\ Forget(s, b) \in Seq(Row(t))
  BY <1>1, Touches, Forgets
<1>3. NoTwice(Touch(s, b)) /\ NoTwice(Forget(s, b)) /\ \A x : In(Forget(s, b), x) <=> In(s, x) /\ x # b
  BY <1>1, TouchesMember, ForgetsMember
<1> QED BY <1>2, <1>3 DEF Ordered

\* An order that none of them is in is empty.
LEMMA OrderedEmpty ==
  ASSUME NEW t, NEW s, Ordered(t, s), \A b \in Row(t) : ~ In(s, b)
  PROVE  s = <<>>
<1>1. s \in Seq(Row(t)) /\ Len(s) \in Nat /\ DOMAIN s = 1..Len(s) /\ \A k \in 1..Len(s) : s[k] \in Row(t)
  BY LenProperties DEF Ordered
<1>2. Len(s) = 0
  <2> SUFFICES ASSUME Len(s) # 0 PROVE FALSE
    OBVIOUS
  <2>1. 1 \in 1..Len(s)
    BY <1>1
  <2> QED BY <1>1, <2>1 DEF In
<1> QED BY <1>1, <1>2, EmptySeq

-----------------------------------------------------------------------------
\* A load keeps the order of the target's blocks.
LEMMA LoadOrdered ==
  ASSUME NEW t \in Targets, NEW c, Ordered(t, c.set), NEW b \in Row(t)
  PROVE  Ordered(t, Load(t, c, b).set) /\ Load(t, c, b).out = c.out
<1>1. Ordered(t, Touch(c.set, b))
  BY OrderedKept
<1>2. PICK d : d = Load(t, c, b)
  OBVIOUS
<1>3. d.out = c.out /\ (d.set = c.set \/ d.set = Touch(c.set, b))
  BY <1>2, LoadKeeps
<1> QED BY <1>1, <1>2, <1>3, Zenon

\* The instructions about each block of the list.
LEMMA EachIs ==
  ASSUME target \in Targets, NEW op
  PROVE  /\ IsCode(Each(op)) /\ Len(Each(op)) = Len(target.list)
         /\ \A k \in 1..Len(target.list) : Each(op)[k] = About(op, target.list[k])
<1>1. PICK n \in Nat : n = Len(target.list)
  BY TargetList
<1>2. PICK c : c = Each(op)
  OBVIOUS
<1>3. c = [k \in 1..n |-> About(op, target.list[k])]
  BY <1>1, <1>2, Zenon DEF Each, About
<1> DEFINE R == {About(op, target.list[k]) : k \in 1..n}
<1>4. c \in [1..n -> R] /\ \A k \in 1..n : c[k] = About(op, target.list[k])
  BY <1>3
<1> HIDE DEF R
<1>5. c \in Seq(R) /\ Len(c) = n
  BY <1>4
<1>6. IsCode(c)
  BY <1>5, SomeCode, Zenon
<1> QED BY <1>1, <1>2, <1>4, <1>5, <1>6, Zenon

\* Priming puts blocks of the target in its set, whatever is in the closer levels.
LEMMA PrimeRun ==
  ASSUME target \in Targets, NEW c, Ordered(target, c.set)
  PROVE  /\ Ordered(target, Run(target, c, Each("prime")).set)
         /\ Run(target, c, Each("prime")).out = c.out
<1>1. PICK t \in Targets : t = target
  OBVIOUS
<1>2. PICK ins : ins = Each("prime")
  OBVIOUS
<1>3. PICK n \in Nat : n = Len(t.list)
  BY <1>1, TargetList
<1>4. Len(ins) = n /\ \A k \in 1..n : ins[k] = About("prime", t.list[k])
  BY <1>1, <1>2, <1>3, EachIs
<1>5. PICK w : Steps(t, c, ins, n, w)
  BY SomeRun
<1> DEFINE T == {k \in Nat : k <= n => Ordered(t, w[k].set) /\ w[k].out = c.out}
<1>6. 0 \in T
  <2>1. w[0] = c
    BY <1>5 DEF Steps
  <2> QED BY <1>1, <2>1
<1>7. ASSUME NEW k \in Nat, k \in T PROVE k + 1 \in T
  <2> SUFFICES ASSUME k + 1 <= n PROVE Ordered(t, w[k + 1].set) /\ w[k + 1].out = c.out
    OBVIOUS
  <2>1. PICK d : d = w[k]
    OBVIOUS
  <2>2. Ordered(t, d.set) /\ d.out = c.out
    BY <1>7, <2>1
  <2>3. PICK b : b = t.list[k + 1]
    OBVIOUS
  <2>4. k + 1 \in 1..n /\ (k + 1) - 1 = k
    OBVIOUS
  <2>5. b \in Row(t)
    BY <1>3, <2>3, <2>4 DEF Row
  <2>6. w[k + 1] = Exec(t, d, About("prime", b))
    BY <1>4, <1>5, <2>1, <2>3, <2>4 DEF Steps
  <2>7. Exec(t, d, About("prime", b)) = Load(t, Load(t, Load(t, d, b), b), b)
    BY ExecPrime
  <2>8. PICK d1 : d1 = Load(t, d, b)
    OBVIOUS
  <2>9. Ordered(t, d1.set) /\ d1.out = c.out
    BY <2>2, <2>5, <2>8, LoadOrdered
  <2>10. PICK d2 : d2 = Load(t, d1, b)
    OBVIOUS
  <2>11. Ordered(t, d2.set) /\ d2.out = c.out
    BY <2>5, <2>9, <2>10, LoadOrdered
  <2>12. PICK d3 : d3 = Load(t, d2, b)
    OBVIOUS
  <2>13. Ordered(t, d3.set) /\ d3.out = c.out
    BY <2>5, <2>11, <2>12, LoadOrdered
  <2> QED BY <2>6, <2>7, <2>8, <2>10, <2>12, <2>13, Zenon
<1> HIDE DEF T
<1>8. n \in T
  BY <1>6, <1>7, Upwards
<1>9. Run(t, c, ins) = w[n]
  BY <1>4, <1>5, RunIs
<1> QED BY <1>1, <1>2, <1>8, <1>9 DEF T

\* Flushing every block leaves the set empty, and none of the blocks anywhere.
LEMMA FlushRun ==
  ASSUME target \in Targets, NEW c, Ordered(target, c.set)
  PROVE  /\ Run(target, c, Each("flush")).set = <<>>
         /\ Run(target, c, Each("flush")).out = c.out
         /\ \A k \in 1..2 : \A b \in Row(target) : b \notin Run(target, c, Each("flush")).near[k]
<1>1. PICK t \in Targets : t = target
  OBVIOUS
<1>2. PICK ins : ins = Each("flush")
  OBVIOUS
<1>3. PICK n \in Nat : n = Len(t.list)
  BY <1>1, TargetList
<1>4. Len(ins) = n /\ \A k \in 1..n : ins[k] = About("flush", t.list[k])
  BY <1>1, <1>2, <1>3, EachIs
<1>5. PICK w : Steps(t, c, ins, n, w)
  BY SomeRun
<1> DEFINE Gone(d, j) == ~ In(d.set, t.list[j]) /\ \A k \in 1..2 : t.list[j] \notin d.near[k]
           T == {k \in Nat : k <= n => /\ Ordered(t, w[k].set) /\ w[k].out = c.out
                                       /\ \A j \in 1..k : Gone(w[k], j)}
<1>6. 0 \in T
  <2>1. w[0] = c
    BY <1>5 DEF Steps
  <2> QED BY <1>1, <2>1
<1>7. ASSUME NEW k \in Nat, k \in T PROVE k + 1 \in T
  <2> SUFFICES ASSUME k + 1 <= n
               PROVE  /\ Ordered(t, w[k + 1].set) /\ w[k + 1].out = c.out
                      /\ \A j \in 1..(k + 1) : Gone(w[k + 1], j)
    OBVIOUS
  <2>1. PICK d : d = w[k]
    OBVIOUS
  <2>2. Ordered(t, d.set) /\ d.out = c.out /\ \A j \in 1..k : Gone(d, j)
    BY <1>7, <2>1
  <2>3. PICK b : b = t.list[k + 1]
    OBVIOUS
  <2>4. k + 1 \in 1..n /\ (k + 1) - 1 = k
    OBVIOUS
  <2>5. b \in Row(t)
    BY <1>3, <2>3, <2>4 DEF Row
  <2>6. w[k + 1] = Exec(t, d, About("flush", b))
    BY <1>4, <1>5, <2>1, <2>3, <2>4 DEF Steps
  <2>8. PICK e : e = w[k + 1] /\ e = Exec(t, d, About("flush", b))
    BY <2>6
  <2>9. e.set = Forget(d.set, b) /\ e.out = d.out /\ \A i \in 1..2 : e.near[i] = d.near[i] \ {b}
    BY <2>8, ExecFlush
  <2>10. Ordered(t, Forget(d.set, b)) /\ \A x : In(Forget(d.set, b), x) <=> In(d.set, x) /\ x # b
    BY <2>2, <2>5, OrderedKept
  <2>11. \A x : In(e.set, x) <=> In(d.set, x) /\ x # b
    BY <2>9, <2>10, Zenon
  <2>12. \A i \in 1..2 : e.near[i] = d.near[i] \ {b}
    BY <2>9
  <2>13. ASSUME NEW j \in 1..(k + 1) PROVE Gone(e, j)
    <3>1. CASE j \in 1..k
      <4>1. ~ In(d.set, t.list[j]) /\ \A i \in 1..2 : t.list[j] \notin d.near[i]
        BY <2>2, <3>1
      <4> QED BY <2>11, <2>12, <4>1
    <3>2. CASE j = k + 1
      <4>1. t.list[j] = b
        BY <2>3, <3>2
      <4> QED BY <2>11, <2>12, <4>1
    <3> QED BY <3>1, <3>2
  <2>14. Ordered(t, e.set) /\ e.out = c.out
    BY <2>2, <2>9, <2>10, Zenon
  <2> HIDE DEF Gone
  <2> QED BY <2>8, <2>13, <2>14
<1>8. n \in T
  <2> HIDE DEF T
  <2> QED BY <1>6, <1>7, Upwards
<1>9. Run(t, c, ins) = w[n]
  BY <1>4, <1>5, RunIs
<1>10. PICK e : e = w[n] /\ Ordered(t, e.set) /\ e.out = c.out /\ \A j \in 1..n : Gone(e, j)
  BY <1>8
<1>11. \A b \in Row(t) : ~ In(e.set, b) /\ \A k \in 1..2 : b \notin e.near[k]
  <2> SUFFICES ASSUME NEW j \in 1..n PROVE ~ In(e.set, t.list[j]) /\ \A k \in 1..2 : t.list[j] \notin e.near[k]
    BY <1>3 DEF Row
  <2> QED BY <1>10
<1>12. e.set = <<>>
  BY <1>10, <1>11, OrderedEmpty
<1> QED BY <1>1, <1>2, <1>9, <1>10, <1>11, <1>12

\* Together: from any content of the set, and any of the closer levels.
LEMMA PrimingRun ==
  ASSUME target \in Targets, NEW c, Ordered(target, c.set), c.out = <<>>
  PROVE  /\ Run(target, c, Priming).set = <<>> /\ Run(target, c, Priming).out = <<>>
         /\ Away(target, Run(target, c, Priming))
<1>1. PICK d : d = Run(target, c, Each("prime"))
  OBVIOUS
<1>2. Ordered(target, d.set) /\ d.out = <<>>
  BY <1>1, PrimeRun
<1>3. PICK e : e = Run(target, d, Each("flush"))
  OBVIOUS
<1>4. e.set = <<>> /\ e.out = <<>> /\ \A k \in 1..2 : \A b \in Row(target) : b \notin e.near[k]
  BY <1>2, <1>3, FlushRun
<1>5. IsCode(Each("prime")) /\ IsCode(Each("flush"))
  BY EachIs
<1>6. Run(target, c, Priming) = e
  <2>1. PICK a, b : a = Each("prime") /\ b = Each("flush") /\ IsCode(a) /\ IsCode(b)
    BY <1>5
  <2>2. Run(target, c, a \o b) = Run(target, Run(target, c, a), b)
    BY <2>1, RunJoined
  <2>3. Priming = a \o b
    BY <2>1, Zenon DEF Priming
  <2> QED BY <1>1, <1>3, <2>1, <2>2, <2>3, Zenon
<1>7. target.level \in {1, 2, 3}
  BY RowBlocks
<1>8. Away(target, e)
  BY <1>4, <1>7 DEF Away, Far
<1> QED BY <1>4, <1>6, <1>8

-----------------------------------------------------------------------------
\* Division, and that a set of a level decides that of a closer level.
LEMMA Division ==
  ASSUME NEW x \in Int, NEW w \in Nat \ {0}
  PROVE  x = w * (x \div w) + (x % w) /\ (x \div w) \in Int /\ (x % w) \in 0..w-1
OBVIOUS

\* A remainder is determined.
LEMMA OneRemainder ==
  ASSUME NEW w \in Nat \ {0}, NEW p \in Int, NEW q \in Int, NEW r \in 0..w-1, NEW s \in 0..w-1,
         w * p + r = w * q + s
  PROVE  r = s
<1>1. w * (p - q) = s - r
  OBVIOUS
<1>2. s - r < w /\ -w < s - r
  OBVIOUS
<1>3. CASE p - q >= 1
  <2>1. w * (p - q) >= w
    BY <1>3
  <2> QED BY <1>1, <1>2, <2>1
<1>4. CASE p - q <= -1
  <2>1. w * (p - q) <= -w
    BY <1>4
  <2> QED BY <1>1, <1>2, <2>1
<1>5. CASE p = q
  BY <1>5
<1> QED BY <1>3, <1>4, <1>5

\* Blocks of one L2 set are of one L1 set.
LEMMA SameSet1 ==
  ASSUME NEW a \in Block, NEW b \in Block, Set2(a) = Set2(b)
  PROVE  Set1(a) = Set1(b)
<1>1. PICK x \in Nat, y \in Nat, u \in Nat \ {0}, v \in Nat \ {0} :
        x = Set3[a] /\ y = Set3[b] /\ u = S1 /\ v = S2 /\ v % u = 0 /\ x % v = y % v
  BY CodeGenAssumption, MeaningAssumption DEF Set2
<1>2. PICK k \in Int : v = u * k
  <2>1. v = u * (v \div u) + (v % u) /\ (v \div u) \in Int
    BY Division
  <2> QED BY <1>1, <2>1
<1>3. PICK p \in Int, r \in Int : x = v * p + r /\ r = x % v
  <2>1. x = v * (x \div v) + (x % v) /\ (x \div v) \in Int /\ (x % v) \in 0..v-1
    BY Division
  <2> QED BY <2>1
<1>4. PICK q \in Int : y = v * q + r
  <2>1. y = v * (y \div v) + (y % v) /\ (y \div v) \in Int
    BY Division
  <2> QED BY <1>1, <1>3, <2>1
<1>5. PICK g \in Int, s \in 0..u-1 : x = u * g + s /\ s = x % u
  <2>1. x = u * (x \div u) + (x % u) /\ (x \div u) \in Int /\ (x % u) \in 0..u-1
    BY Division
  <2> QED BY <2>1
<1>6. PICK h \in Int, z \in 0..u-1 : y = u * h + z /\ z = y % u
  <2>1. y = u * (y \div u) + (y % u) /\ (y \div u) \in Int /\ (y % u) \in 0..u-1
    BY Division
  <2> QED BY <2>1
<1>7. x - y = u * (k * (p - q))
  <2>1. x - y = v * p - v * q
    BY <1>3, <1>4
  <2>2. v * p - v * q = v * (p - q)
    OBVIOUS
  <2>3. (u * k) * (p - q) = u * (k * (p - q))
    OBVIOUS
  <2> QED BY <1>2, <2>1, <2>2, <2>3
<1>8. u * g + s = u * (h + k * (p - q)) + z
  <2>1. PICK m \in Int : m = k * (p - q)
    OBVIOUS
  <2>2. u * (h + m) = u * h + u * m
    OBVIOUS
  <2>3. x - y = u * m
    BY <1>7, <2>1
  <2> QED BY <1>5, <1>6, <2>1, <2>2, <2>3
<1>9. s = z
  <2>1. PICK m \in Int : m = h + k * (p - q)
    OBVIOUS
  <2> QED BY <1>8, <2>1, OneRemainder
<1> QED BY <1>1, <1>5, <1>6, <1>9 DEF Set1

\* The blocks of a target share the sets of the closer levels too.
LEMMA RowSets ==
  ASSUME NEW t \in Targets, NEW b \in Row(t)
  PROVE  /\ t.level = 3 => Loc(b) = Loc(Head(t.list))
         /\ t.level \in {2, 3} => Set2(b) = Set2(Head(t.list)) /\ Set1(b) = Set1(Head(t.list))
         /\ b \in Block
<1>1. PICK h \in Block : h = Head(t.list)
  BY RowBlocks
<1>2. b \in Block /\ Congruent(t.level, b, h)
  BY <1>1, RowBlocks
<1>3. t.level = 3 => Loc(b) = Loc(h)
  BY <1>2 DEF Congruent
<1>4. t.level \in {2, 3} => Set2(b) = Set2(h)
  BY <1>2, <1>3 DEF Congruent, Loc, Set2
<1>5. t.level \in {2, 3} => Set1(b) = Set1(h)
  BY <1>1, <1>2, <1>4, SameSet1
<1> QED BY <1>1, <1>2, <1>3, <1>4, <1>5

-----------------------------------------------------------------------------
\* A sweep, field by field.
LEMMA SweepIs ==
  ASSUME NEW t, NEW c, NEW X, NEW k, NEW n, NEW d, d = Sweep(t, c, X, k, n),
         \A x \in X : ~ Congruent(t.level, x, Head(t.list))
  PROVE  /\ d.set = c.set /\ d.out = c.out
         /\ \A j \in 1..2 : j # k \/ ~ (Cardinality(X) >= n) => d.near[j] = c.near[j]
         /\ Cardinality(X) >= n => \A j \in 1..2 : j = k =>
               \A b \in d.near[j] : \A x \in X : ~ Congruent(k, b, x)
<1>1. PICK m : m = [j \in 1..2 |-> IF j = k /\ Cardinality(X) >= n
                              THEN {b \in c.near[j] : \A x \in X : ~ Congruent(k, b, x)} ELSE c.near[j]]
  OBVIOUS
<1>2. d = Cache(c.set, m, c.last, c.out)
  BY <1>1, Zenon DEF Sweep
<1>3. d.set = c.set /\ d.out = c.out /\ d.near = m
  BY <1>2, CacheFields
<1> QED BY <1>1, <1>3

\* Enough blocks of an L1 eviction set empty the L1 set of the target, and only that.
LEMMA Sweep1 ==
  ASSUME NEW t \in Targets, t.level \in {2, 3}, NEW c,
         NEW X \in SUBSET Candidates1(Head(t.list)), Cardinality(X) >= EV1,
         NEW d, d = Sweep(t, c, X, 1, EV1)
  PROVE  /\ d.set = c.set /\ d.out = c.out /\ d.near[2] = c.near[2]
         /\ \A b \in Row(t) : b \notin d.near[1]
<1>0. PICK h \in Block : h = Head(t.list)
  BY RowBlocks
<1>1. \A x \in X : Set1(x) = Set1(h) /\ Set2(x) # Set2(h) /\ Loc(x) # Loc(h)
  BY <1>0 DEF Candidates1
<1>2. \A x \in X : ~ Congruent(t.level, x, h)
  <2>1. \A x \in X : ~ Congruent(2, x, h) /\ ~ Congruent(3, x, h)
    BY <1>1 DEF Congruent
  <2> QED BY <2>1
<1>3. /\ d.set = c.set /\ d.out = c.out
      /\ \A j \in 1..2 : j # 1 => d.near[j] = c.near[j]
      /\ \A j \in 1..2 : j = 1 => \A b \in d.near[j] : \A x \in X : ~ Congruent(1, b, x)
  BY <1>0, <1>2, SweepIs
<1>4. PICK x \in X : TRUE
  <2>1. EV1 \in Nat \ {0} /\ Cardinality({}) = 0
    BY CodeGenAssumption, FS_EmptySet
  <2> QED BY <2>1
<1>5. ASSUME NEW b \in Row(t), b \in d.near[1] PROVE FALSE
  <2>1. ~ Congruent(1, b, x)
    BY <1>3, <1>4, <1>5
  <2>2. Set1(b) = Set1(h)
    BY <1>0, RowSets
  <2> QED BY <1>1, <1>4, <2>1, <2>2 DEF Congruent
<1> QED BY <1>3, <1>5

\* Likewise those of an L2 eviction set.
LEMMA Sweep2 ==
  ASSUME NEW t \in Targets, t.level = 3, NEW c,
         NEW X \in SUBSET Candidates2(Head(t.list)), Cardinality(X) >= EV2,
         NEW d, d = Sweep(t, c, X, 2, EV2)
  PROVE  /\ d.set = c.set /\ d.out = c.out /\ d.near[1] = c.near[1]
         /\ \A b \in Row(t) : b \notin d.near[2]
<1>0. PICK h \in Block : h = Head(t.list)
  BY RowBlocks
<1>1. \A x \in X : Set2(x) = Set2(h) /\ Loc(x) # Loc(h)
  BY <1>0 DEF Candidates2
<1>2. \A x \in X : ~ Congruent(t.level, x, h)
  BY <1>1 DEF Congruent
<1>3. /\ d.set = c.set /\ d.out = c.out
      /\ \A j \in 1..2 : j # 2 => d.near[j] = c.near[j]
      /\ \A j \in 1..2 : j = 2 => \A b \in d.near[j] : \A x \in X : ~ Congruent(2, b, x)
  BY <1>0, <1>2, SweepIs
<1>4. PICK x \in X : TRUE
  <2>1. EV2 \in Nat \ {0} /\ Cardinality({}) = 0
    BY CodeGenAssumption, FS_EmptySet
  <2> QED BY <2>1
<1>5. ASSUME NEW b \in Row(t), b \in d.near[2] PROVE FALSE
  <2>1. ~ Congruent(2, b, x)
    BY <1>3, <1>4, <1>5
  <2>2. Set2(b) = Set2(h)
    BY <1>0, RowSets
  <2> QED BY <1>1, <1>4, <2>1, <2>2 DEF Congruent
<1> QED BY <1>3, <1>5

\* The thrash set empties nothing of the target's.
LEMMA SweepThrash ==
  ASSUME NEW t \in Targets, t.level = 3, NEW c,
         NEW d, d = Sweep(t, c, Thrash, 2, Cardinality(Block) + 1)
  PROVE  d.set = c.set /\ d.out = c.out /\ \A j \in 1..2 : d.near[j] = c.near[j]
<1>1. \A x \in Thrash : ~ Congruent(t.level, x, Head(t.list))
  BY MeaningAssumption
<1>2. PICK n : n = Cardinality(Block) + 1
  OBVIOUS
<1>3. ~ (Cardinality(Thrash) >= n)
  <2>1. IsFiniteSet(Block) /\ Thrash \subseteq Block
    BY CodeGenAssumption, MeaningAssumption
  <2>2. Cardinality(Thrash) <= Cardinality(Block) /\ IsFiniteSet(Thrash)
    BY <2>1, FS_Subset
  <2>3. Cardinality(Thrash) \in Nat /\ Cardinality(Block) \in Nat
    BY <2>1, <2>2, FS_CardinalityType
  <2> QED BY <1>2, <2>2, <2>3
<1>4. /\ d.set = c.set /\ d.out = c.out
      /\ \A j \in 1..2 : d.near[j] = c.near[j]
  BY <1>1, <1>2, <1>3, SweepIs
<1> QED BY <1>4

-----------------------------------------------------------------------------
\* The cache holds what the query asks for on a set of its own, under the names' blocks.
Matched(t, f, c, a) ==
  /\ a.set \in Seq(DOMAIN f) /\ a.out \in Seq(BOOLEAN)
  /\ c.set = Named(f, a.set) /\ c.out = Levels(t, a.out)

\* The names of a query stand for different blocks of the target.
Representing(t, f) == OneToOne(f) /\ \A n \in DOMAIN f : f[n] \in Row(t)

\* The level that an answer stands for.
LevelOf(t, hit) == IF hit THEN t.level ELSE 0

\* The profiled answers, as levels.
LEMMA LevelsIs ==
  ASSUME NEW t, NEW o \in Seq(BOOLEAN)
  PROVE  /\ Len(Levels(t, o)) = Smaller(AskMax, Len(o)) /\ Len(Levels(t, o)) \in Nat
         /\ Levels(t, o) \in Seq({LevelOf(t, h) : h \in BOOLEAN})
         /\ \A k \in 1..Smaller(AskMax, Len(o)) : Levels(t, o)[k] = LevelOf(t, o[k])
<1>1. PICK n \in Nat : n = Smaller(AskMax, Len(o)) /\ n <= Len(o)
  BY LenProperties, CodeGenAssumption DEF Smaller
<1>2. PICK v : v = [k \in 1..n |-> LevelOf(t, o[k])]
  OBVIOUS
<1>3. Levels(t, o) = v
  BY <1>1, <1>2, Zenon DEF Levels, LevelOf
<1>4. \A k \in 1..n : o[k] \in BOOLEAN
  BY <1>1, LenProperties
<1> DEFINE D == {LevelOf(t, h) : h \in BOOLEAN}
<1>5. \A k \in 1..n : LevelOf(t, o[k]) \in D
  BY <1>4
<1> HIDE DEF D
<1>6. /\ v = [k \in 1..n |-> v[k]] /\ \A k \in 1..n : v[k] \in D
      /\ \A k \in 1..n : v[k] = LevelOf(t, o[k])
  BY <1>2, <1>5
<1>7. v \in Seq(D) /\ Len(v) = n
  BY <1>6, AsSequence
<1> QED BY <1>1, <1>3, <1>6, <1>7 DEF D

\* One answer more is profiled while there is room for it.
LEMMA LevelsAppended ==
  ASSUME NEW t, NEW o \in Seq(BOOLEAN), NEW h \in BOOLEAN
  PROVE  Levels(t, Append(o, h)) = IF Smaller(AskMax, Len(o)) < AskMax
                                   THEN Append(Levels(t, o), LevelOf(t, h)) ELSE Levels(t, o)
<1>1. PICK n \in Nat, m \in Nat : n = Len(o) /\ m = AskMax
  BY LenProperties, CodeGenAssumption
<1>2. PICK p : p = Append(o, h)
  OBVIOUS
<1>3. p \in Seq(BOOLEAN) /\ Len(p) = n + 1 /\ p[n + 1] = h /\ \A k \in 1..n : p[k] = o[k]
  BY <1>1, <1>2, AppendProperties
<1>4. PICK v, w : v = Levels(t, o) /\ w = Levels(t, p)
  OBVIOUS
<1> DEFINE D == {LevelOf(t, x) : x \in BOOLEAN}
<1>5. LevelOf(t, h) \in D
  OBVIOUS
<1>6. /\ v \in Seq(D) /\ Len(v) = Smaller(m, n) /\ \A k \in 1..Smaller(m, n) : v[k] = LevelOf(t, o[k])
      /\ w \in Seq(D) /\ Len(w) = Smaller(m, n + 1) /\ \A k \in 1..Smaller(m, n + 1) : w[k] = LevelOf(t, p[k])
  BY <1>1, <1>3, <1>4, LevelsIs
<1> HIDE DEF D
<1>7. CASE n < m
  <2>1. Smaller(m, n) = n /\ Smaller(m, n + 1) = n + 1
    BY <1>7 DEF Smaller
  <2>2. PICK x : x = Append(v, LevelOf(t, h))
    OBVIOUS
  <2>3. x \in Seq(D) /\ Len(x) = n + 1 /\ x[n + 1] = LevelOf(t, h) /\ \A k \in 1..n : x[k] = v[k]
    BY <1>5, <1>6, <2>1, <2>2, AppendProperties
  <2>4. \A k \in 1..n : w[k] = x[k]
    <3> SUFFICES ASSUME NEW k \in 1..n PROVE w[k] = x[k]
      OBVIOUS
    <3>1. k \in 1..(n + 1) /\ p[k] = o[k]
      BY <1>3
    <3>2. w[k] = LevelOf(t, o[k])
      BY <1>6, <2>1, <3>1
    <3> QED BY <1>6, <2>1, <2>3, <3>2
  <2>5. w[n + 1] = x[n + 1]
    <3>1. n + 1 \in 1..(n + 1)
      OBVIOUS
    <3> QED BY <1>3, <1>6, <2>1, <2>3, <3>1
  <2>6. \A k \in 1..(n + 1) : w[k] = x[k]
    <3>1. \A k \in 1..(n + 1) : k \in 1..n \/ k = n + 1
      OBVIOUS
    <3> QED BY <2>4, <2>5, <3>1, Zenon
  <2>7. w = x
    BY <1>6, <2>1, <2>3, <2>6, SeqEqual
  <2> QED BY <1>1, <1>2, <1>4, <1>7, <2>1, <2>2, <2>7
<1>8. CASE ~ (n < m)
  <2>1. Smaller(m, n) = m /\ Smaller(m, n + 1) = m
    BY <1>8 DEF Smaller
  <2>2. \A k \in 1..m : w[k] = v[k]
    <3> SUFFICES ASSUME NEW k \in 1..m PROVE w[k] = v[k]
      OBVIOUS
    <3>1. k \in 1..n /\ p[k] = o[k]
      BY <1>3, <1>8
    <3> QED BY <1>6, <2>1, <3>1
  <2>3. w = v
    BY <1>6, <2>1, <2>2, SeqEqual
  <2> QED BY <1>1, <1>2, <1>4, <2>1, <2>3
<1> QED BY <1>7, <1>8

\* A load of the block of a name is that of the name.
LEMMA MatchedLoad ==
  ASSUME NEW t \in Targets, NEW f, Representing(t, f), NEW c, NEW a, Matched(t, f, c, a), Away(t, c),
         NEW n \in DOMAIN f, NEW d, d = Load(t, c, f[n])
  PROVE  /\ d.set = Named(f, Touch(a.set, n)) /\ Touch(a.set, n) \in Seq(DOMAIN f)
         /\ d.out = c.out /\ d.last = LevelOf(t, In(a.set, n))
<1>1. PICK b \in Row(t) : b = f[n]
  BY DEF Representing
<1>2. d.set = Touch(c.set, b) /\ d.last = IF In(c.set, b) THEN t.level ELSE 0
  <2>1. Far(t, c, b)
    BY DEF Away
  <2> QED BY <1>1, <2>1, LoadsAway
<1>3. d.out = c.out
  BY <1>1, LoadKeeps
<1>4. PICK s : s = a.set /\ s \in Seq(DOMAIN f) /\ c.set = Named(f, s)
  BY DEF Matched
<1>5. In(c.set, b) <=> In(s, n)
  BY <1>1, <1>4, NamedIn DEF Representing
<1>6. Touch(c.set, b) = Named(f, Touch(s, n))
  BY <1>1, <1>4, NamedTouch DEF Representing
<1>7. Touch(s, n) \in Seq(DOMAIN f)
  <2>1. PICK D : D = DOMAIN f
    OBVIOUS
  <2>2. s \in Seq(D) /\ n \in D
    BY <1>4, <2>1
  <2> HIDE <2>1
  <2>3. Touch(s, n) \in Seq(D)
    BY <2>2, Touches
  <2> QED BY <2>1, <2>3
<1>8. d.last = LevelOf(t, In(s, n))
  BY <1>2, <1>5, Zenon DEF LevelOf
<1> QED BY <1>2, <1>3, <1>4, <1>6, <1>7, <1>8, Zenon

-----------------------------------------------------------------------------
\* Sets to evict with, for the levels closer than that of the target.
EvictedBy(t, E1, E2) ==
  /\ E1 # {} <=> t.level \in {2, 3}
  /\ E2 # {} <=> t.level = 3

\* Blocks that empty the closer sets: enough of them, of the same set of that level and
\* of no other that matters.
Empties(t, X1, X2) ==
  /\ t.level \in {2, 3} => X1 \subseteq Candidates1(Head(t.list)) /\ Cardinality(X1) >= EV1
  /\ t.level = 3 => X2 \subseteq Candidates2(Head(t.list)) /\ Cardinality(X2) >= EV2

\* The code that evicts, if there is a set to evict with.
Evicting(o, E, X) == IF E # {} THEN <<Op(o, X)>> ELSE <<>>

\* It is one sweep, or nothing.
LEMMA RunEvicting ==
  ASSUME NEW t, NEW c, NEW o, NEW E, NEW X, NEW p, p = Evicting(o, E, X)
  PROVE  /\ IsCode(p)
         /\ E # {} => Run(t, c, p) = Exec(t, c, Op(o, X))
         /\ E = {} => Run(t, c, p) = c
<1>1. PICK i : i = Op(o, X)
  OBVIOUS
<1>2. IsCode(<<i>>) /\ IsCode(<<>>)
  BY Sole, Nothing, Zenon
<1>3. Run(t, c, <<i>>) = Exec(t, c, i) /\ Run(t, c, <<>>) = c
  BY RunOne, RunNone, Zenon
<1>4. (E # {} => p = <<i>>) /\ (E = {} => p = <<>>)
  BY <1>1 DEF Evicting
<1> QED BY <1>1, <1>2, <1>3, <1>4, Zenon

\* After the evictions no closer level has a block of the target; its set is as it was.
LEMMA SweptRun ==
  ASSUME NEW t \in Targets, NEW E1, NEW E2, EvictedBy(t, E1, E2),
         NEW X1, NEW X2, Empties(t, X1, X2), NEW c,
         NEW p1, p1 = Evicting("evict1", E1, X1), NEW p2, p2 = Evicting("evict2", E2, X2),
         NEW d, d = Run(t, Run(t, c, p1), p2)
  PROVE  d.set = c.set /\ d.out = c.out /\ Away(t, d)
<1>1. PICK g : g = Run(t, c, p1)
  OBVIOUS
<1>2. E1 # {} => g = Sweep(t, c, X1, 1, EV1)
  BY <1>1, RunEvicting, ExecSweeps
<1>3. E1 = {} => g = c
  BY <1>1, RunEvicting
<1>4. E2 # {} => d = Sweep(t, g, X2, 2, EV2)
  BY <1>1, RunEvicting, ExecSweeps
<1>5. E2 = {} => d = g
  BY <1>1, RunEvicting
<1>6. t.level \in {1, 2, 3}
  BY RowBlocks
<1>7. (E1 # {} <=> t.level \in {2, 3}) /\ (E2 # {} <=> t.level = 3)
  BY DEF EvictedBy
<1>8. t.level \in {2, 3} => /\ g.set = c.set /\ g.out = c.out
                            /\ \A b \in Row(t) : b \notin g.near[1]
  <2> SUFFICES ASSUME t.level \in {2, 3}
               PROVE  /\ g.set = c.set /\ g.out = c.out
                      /\ \A b \in Row(t) : b \notin g.near[1]
    OBVIOUS
  <2>1. X1 \in SUBSET Candidates1(Head(t.list)) /\ Cardinality(X1) >= EV1
    BY DEF Empties
  <2> QED BY <1>2, <1>7, <2>1, Sweep1
<1>9. t.level = 3 => /\ d.set = g.set /\ d.out = g.out /\ d.near[1] = g.near[1]
                     /\ \A b \in Row(t) : b \notin d.near[2]
  <2> SUFFICES ASSUME t.level = 3
               PROVE  /\ d.set = g.set /\ d.out = g.out /\ d.near[1] = g.near[1]
                      /\ \A b \in Row(t) : b \notin d.near[2]
    OBVIOUS
  <2>1. X2 \in SUBSET Candidates2(Head(t.list)) /\ Cardinality(X2) >= EV2
    BY DEF Empties
  <2> QED BY <1>4, <1>7, <2>1, Sweep2
<1>10. d.set = c.set /\ d.out = c.out
  BY <1>3, <1>5, <1>6, <1>7, <1>8, <1>9
<1>11. Away(t, d)
  <2>1. CASE t.level = 1
    BY <2>1 DEF Away, Far
  <2>2. CASE t.level = 2
    <3>1. d = g /\ \A b \in Row(t) : b \notin g.near[1]
      BY <1>5, <1>7, <1>8, <2>2
    <3> QED BY <2>2, <3>1 DEF Away, Far
  <2>3. CASE t.level = 3
    <3>1. \A b \in Row(t) : b \notin d.near[1] /\ b \notin d.near[2]
      BY <1>8, <1>9, <2>3
    <3>2. \A k \in 1..(t.level - 1) : k = 1 \/ k = 2
      BY <2>3
    <3> QED BY <3>1, <3>2 DEF Away, Far
  <2> QED BY <1>6, <2>1, <2>2, <2>3
<1> QED BY <1>10, <1>11

\* Nor does the thrash set put any there.
LEMMA EvictionRun ==
  ASSUME target \in Targets, EvictedBy(target, Evictors1, Evictors2),
         NEW X1, NEW X2, Empties(target, X1, X2),
         NEW c, NEW d, d = Run(target, c, Eviction(X1, X2))
  PROVE  d.set = c.set /\ d.out = c.out /\ Away(target, d)
<1>0. PICK t \in Targets : t = target
  OBVIOUS
<1>1. PICK E1, E2 : t = target /\ E1 = Evictors1 /\ E2 = Evictors2
  BY <1>0
<1>2. PICK E3 : E3 = IF conf.thrash THEN E2 ELSE {}
  OBVIOUS
<1>3. PICK p1, p2, p3 : p1 = Evicting("evict1", E1, X1) /\ p2 = Evicting("evict2", E2, X2)
                        /\ p3 = Evicting("thrash", E3, Thrash)
  OBVIOUS
<1>4. Eviction(X1, X2) = (p1 \o p2) \o p3
  <2>1. p3 = IF conf.thrash /\ E2 # {} THEN <<Op("thrash", Thrash)>> ELSE <<>>
    BY <1>2, <1>3 DEF Evicting
  <2> QED BY <1>1, <1>3, <2>1, Zenon DEF Eviction, Evicting
<1>5. IsCode(p1) /\ IsCode(p2) /\ IsCode(p3)
  BY <1>3, RunEvicting
<1>6. PICK g : g = Run(t, Run(t, c, p1), p2)
  OBVIOUS
<1>7. g.set = c.set /\ g.out = c.out /\ Away(t, g)
  BY <1>1, <1>3, <1>6, SweptRun
<1>8. d = Run(t, g, p3)
  <2>1. Run(t, c, p1 \o p2) = g /\ IsCode(p1 \o p2)
    BY <1>5, <1>6, RunJoined, Joined
  <2>2. Run(t, c, (p1 \o p2) \o p3) = Run(t, Run(t, c, p1 \o p2), p3)
    BY <1>5, <2>1, RunJoined
  <2> QED BY <1>1, <1>4, <2>1, <2>2, Zenon
<1>9. CASE E3 = {}
  <2>1. d = g
    BY <1>3, <1>8, <1>9, RunEvicting
  <2> QED BY <1>1, <1>7, <2>1
<1>10. CASE E3 # {}
  <2>1. d = Sweep(t, g, Thrash, 2, Cardinality(Block) + 1)
    BY <1>3, <1>8, <1>10, RunEvicting, ExecSweeps
  <2>2. t.level = 3
    BY <1>1, <1>2, <1>10 DEF EvictedBy
  <2>3. d.set = g.set /\ d.out = g.out /\ \A j \in 1..2 : d.near[j] = g.near[j]
    BY <2>1, <2>2, SweepThrash
  <2>4. \A k \in 1..(t.level - 1) : k \in 1..2
    BY <2>2
  <2>5. Away(t, d)
    BY <1>7, <2>3, <2>4 DEF Away, Far
  <2> QED BY <1>1, <1>7, <2>3, <2>5
<1> QED BY <1>9, <1>10

-----------------------------------------------------------------------------
\* Three instructions.
LEMMA RunThree ==
  ASSUME NEW t, NEW c, NEW x, NEW y, NEW z
  PROVE  Run(t, c, <<x, y, z>>) = Exec(t, Exec(t, Exec(t, c, x), y), z)
<1>0. Len(<<x, y, z>>) = 3 /\ <<x, y, z>>[1] = x /\ <<x, y, z>>[2] = y /\ <<x, y, z>>[3] = z
  OBVIOUS
<1>1. PICK s : s = <<x, y, z>> /\ Len(s) = 3 /\ s[1] = x /\ s[2] = y /\ s[3] = z
  BY <1>0, Zenon
<1>2. PICK d1, d2, d3 : d1 = Exec(t, c, x) /\ d2 = Exec(t, d1, y) /\ d3 = Exec(t, d2, z)
  OBVIOUS
<1> DEFINE w == [k \in 0..3 |-> IF k = 0 THEN c ELSE IF k = 1 THEN d1 ELSE IF k = 2 THEN d2 ELSE d3]
<1>3. w[0] = c /\ w[1] = d1 /\ w[2] = d2 /\ w[3] = d3
  OBVIOUS
<1> HIDE DEF w
<1>4. \A k \in 1..3 : (k = 1 /\ k - 1 = 0) \/ (k = 2 /\ k - 1 = 1) \/ (k = 3 /\ k - 1 = 2)
  OBVIOUS
<1>5. Steps(t, c, s, 3, w)
  BY <1>1, <1>2, <1>3, <1>4 DEF Steps
<1>6. Run(t, c, s) = w[3]
  BY <1>1, <1>5, RunIs
<1> QED BY <1>1, <1>2, <1>3, <1>6, Zenon

\* What is asked of the set by an element.
LEMMA AskStepIs ==
  ASSUME NEW a, NEW x, NEW e, e = AskStep(a, x)
  PROVE  /\ x.kind = "inv" => e.set = <<>> /\ e.out = a.out
         /\ x.kind = "flush" => e.set = Forget(a.set, x.id) /\ e.out = a.out
         /\ x.kind = "load" => e.set = Touch(a.set, x.id) /\ e.out = a.out
         /\ x.kind = "ask" => e.set = Touch(a.set, x.id) /\ e.out = Append(a.out, In(a.set, x.id))
<1>1. PICK f, t, o : f = Forget(a.set, x.id) /\ t = Touch(a.set, x.id) /\ o = Append(a.out, In(a.set, x.id))
  OBVIOUS
<1>2. x.kind = "inv" => e = [set |-> <<>>, out |-> a.out]
  BY DEF AskStep
<1>3. x.kind = "flush" => e = [set |-> f, out |-> a.out]
  BY <1>1 DEF AskStep
<1>4. x.kind = "load" => e = [set |-> t, out |-> a.out]
  BY <1>1 DEF AskStep
<1>5. x.kind = "ask" => e = [set |-> t, out |-> o]
  BY <1>1 DEF AskStep
<1>6. x.kind = "inv" => e.set = <<>> /\ e.out = a.out
  BY <1>2
<1>7. x.kind = "flush" => e.set = f /\ e.out = a.out
  BY <1>3
<1>8. x.kind = "load" => e.set = t /\ e.out = a.out
  BY <1>4
<1>9. x.kind = "ask" => e.set = t /\ e.out = o
  BY <1>5
<1> QED BY <1>1, <1>6, <1>7, <1>8, <1>9, Zenon

\* The number of answers that are profiled.
LEMMA AskCount ==
  ASSUME NEW o \in Seq(BOOLEAN), NEW h \in BOOLEAN
  PROVE  /\ Smaller(AskMax, Len(o)) \in Nat /\ Smaller(AskMax, Len(o)) <= AskMax
         /\ Smaller(AskMax, Len(Append(o, h))) =
              IF Smaller(AskMax, Len(o)) < AskMax THEN Smaller(AskMax, Len(o)) + 1 ELSE Smaller(AskMax, Len(o))
<1>1. PICK n \in Nat, m \in Nat : n = Len(o) /\ m = AskMax /\ Len(Append(o, h)) = n + 1
  BY LenProperties, AppendProperties, CodeGenAssumption
<1>2. /\ Smaller(m, n) \in Nat /\ Smaller(m, n) <= m
      /\ Smaller(m, n + 1) = IF Smaller(m, n) < m THEN Smaller(m, n) + 1 ELSE Smaller(m, n)
  BY DEF Smaller
<1> QED BY <1>1, <1>2

\* An access measures what the query asks for.
LEMMA TimedRun ==
  ASSUME target \in Targets, Representing(target, blockOf), ~ conf.one,
         Elem.kind \in {"load", "ask"}, Elem.id \in DOMAIN blockOf,
         NEW c, NEW a, Matched(target, blockOf, c, a), Away(target, c),
         profiled = Smaller(AskMax, Len(a.out)),
         NEW d, d = Run(target, c, Timed), NEW e, e = AskStep(a, Elem)
  PROVE  /\ Matched(target, blockOf, d, e)
         /\ (IF Profiles THEN profiled + 1 ELSE profiled) = Smaller(AskMax, Len(e.out))
<1>t. PICK t \in Targets : t = target
  OBVIOUS
<1>0. PICK f, n, x : t = target /\ f = blockOf /\ n = Elem.id /\ x = Elem
  BY <1>t
<1>1. Matched(t, f, c, a) /\ Away(t, c) /\ Representing(t, f) /\ n \in DOMAIN f
  BY <1>0
<1>2. PICK h \in BOOLEAN : h = In(a.set, n)
  BY DEF In
<1>3. PICK l : l = Load(t, c, f[n])
  OBVIOUS
<1>4. /\ l.set = Named(f, Touch(a.set, n)) /\ Touch(a.set, n) \in Seq(DOMAIN f)
      /\ l.out = c.out /\ l.last = LevelOf(t, h)
  BY <1>1, <1>2, <1>3, MatchedLoad
<1>5. About("load", f[n]) = Op("load", {Tmp})
  BY <1>0 DEF About, Tmp
<1>6. Exec(t, c, Op("load", {Tmp})) = l
  <2>1. Exec(t, c, About("load", f[n])) = l
    BY <1>3, ExecLoad
  <2> QED BY <1>5, <2>1, Zenon
<1>7. a.out \in Seq(BOOLEAN) /\ c.out = Levels(t, a.out)
  BY <1>1 DEF Matched
<1>8. e.set = Touch(a.set, n)
  BY <1>0, AskStepIs
<1>9. PICK p \in Nat : /\ p = Smaller(AskMax, Len(a.out)) /\ p = profiled /\ p <= AskMax
                       /\ Smaller(AskMax, Len(Append(a.out, h))) = IF p < AskMax THEN p + 1 ELSE p
  BY <1>7, AskCount
<1>10. Profiles <=> x.kind = "ask" /\ p < AskMax
  BY <1>0, <1>9 DEF Profiles
<1>11. Profiles => d.set = l.set /\ d.out = Append(l.out, l.last)
  <2> SUFFICES ASSUME Profiles PROVE d.set = l.set /\ d.out = Append(l.out, l.last)
    OBVIOUS
  <2>1. PICK i, j, k : i = Op("pre", {}) /\ j = Op("load", {Tmp}) /\ k = Op("post", {})
    OBVIOUS
  <2>2. d = Exec(t, Exec(t, Exec(t, c, i), j), k)
    <3>1. Timed = <<i, j, k>>
      BY <2>1 DEF Timed
    <3>2. Run(t, c, <<i, j, k>>) = Exec(t, Exec(t, Exec(t, c, i), j), k)
      BY RunThree
    <3> QED BY <1>0, <3>1, <3>2, Zenon
  <2>3. Exec(t, c, i) = c
    BY <2>1, ExecOther
  <2>4. d = Exec(t, l, k)
    BY <1>6, <2>1, <2>2, <2>3, Zenon
  <2> QED BY <2>1, <2>4, ExecPost
<1>12. ~ Profiles => d = l
  <2> SUFFICES ASSUME ~ Profiles PROVE d = l
    OBVIOUS
  <2>1. Timed = <<Op("load", {Tmp})>>
    BY DEF Timed
  <2>2. Run(t, c, <<Op("load", {Tmp})>>) = Exec(t, c, Op("load", {Tmp}))
    BY RunOne
  <2> QED BY <1>0, <1>6, <2>1, <2>2, Zenon
<1>13. d.set = Named(f, e.set) /\ e.set \in Seq(DOMAIN f)
  BY <1>4, <1>8, <1>11, <1>12, Zenon
<1>14. CASE x.kind = "ask"
  <2>1. e.out = Append(a.out, h)
    BY <1>0, <1>2, <1>14, AskStepIs
  <2>2. e.out \in Seq(BOOLEAN)
    BY <1>7, <2>1, AppendProperties
  <2>3. Levels(t, e.out) = IF p < AskMax THEN Append(Levels(t, a.out), LevelOf(t, h)) ELSE Levels(t, a.out)
    BY <1>7, <1>9, <2>1, LevelsAppended
  <2>4. d.out = Levels(t, e.out)
    <3>1. CASE Profiles
      <4>1. Levels(t, e.out) = Append(Levels(t, a.out), LevelOf(t, h))
        BY <1>10, <2>3, <3>1
      <4> QED BY <1>4, <1>7, <1>11, <3>1, <4>1, Zenon
    <3>2. CASE ~ Profiles
      <4>1. Levels(t, e.out) = Levels(t, a.out)
        BY <1>10, <1>14, <2>3, <3>2
      <4> QED BY <1>4, <1>7, <1>12, <3>2, <4>1, Zenon
    <3> QED BY <3>1, <3>2
  <2>5. (IF Profiles THEN profiled + 1 ELSE profiled) = Smaller(AskMax, Len(e.out))
    BY <1>9, <1>10, <1>14, <2>1
  <2> QED BY <1>0, <1>13, <2>2, <2>4, <2>5, Zenon DEF Matched
<1>15. CASE x.kind = "load"
  <2>1. e.out = a.out /\ ~ Profiles
    BY <1>0, <1>10, <1>15, AskStepIs
  <2>2. d.out = Levels(t, e.out) /\ e.out \in Seq(BOOLEAN)
    BY <1>4, <1>7, <1>12, <2>1, Zenon
  <2>3. (IF Profiles THEN profiled + 1 ELSE profiled) = Smaller(AskMax, Len(e.out))
    BY <1>9, <2>1
  <2> QED BY <1>0, <1>13, <2>2, <2>3, Zenon DEF Matched
<1> QED BY <1>0, <1>14, <1>15

-----------------------------------------------------------------------------
\* The code of an access, evictions included.
LEMMA AccessRun ==
  ASSUME target \in Targets, Representing(target, blockOf), ~ conf.one, EvictedBy(target, Evictors1, Evictors2),
         Elem.kind \in {"load", "ask"}, Elem.id \in DOMAIN blockOf,
         NEW X1, NEW X2, Empties(target, X1, X2),
         NEW c, NEW a, Matched(target, blockOf, c, a), Away(target, c),
         profiled = Smaller(AskMax, Len(a.out)),
         NEW d, d = Run(target, c, Timed \o Eviction(X1, X2)), NEW e, e = AskStep(a, Elem)
  PROVE  /\ Matched(target, blockOf, d, e) /\ Away(target, d)
         /\ (IF Profiles THEN profiled + 1 ELSE profiled) = Smaller(AskMax, Len(e.out))
<1>1. PICK g : g = Run(target, c, Timed)
  OBVIOUS
<1>2. /\ Matched(target, blockOf, g, e)
      /\ (IF Profiles THEN profiled + 1 ELSE profiled) = Smaller(AskMax, Len(e.out))
  BY <1>1, TimedRun
<1>3. IsCode(Timed) /\ IsCode(Eviction(X1, X2))
  BY TimedTally, EvictionUntimed, Zenon DEF Untimed
<1>4. d = Run(target, g, Eviction(X1, X2))
  BY <1>1, <1>3, RunJoined
<1>5. d.set = g.set /\ d.out = g.out /\ Away(target, d)
  BY <1>4, EvictionRun
<1>6. Matched(target, blockOf, d, e)
  BY <1>2, <1>5, Zenon DEF Matched
<1> QED BY <1>2, <1>5, <1>6, Zenon

\* That of "!" and of "name!".
Flushing(ins) == ins = IF Elem.kind = "inv" THEN <<Op("wbinvd", {})>> ELSE <<Op("flush", {Tmp})>>

\* It does what the query asks, and answers nothing.
LEMMA FlushedRun ==
  ASSUME target \in Targets, Representing(target, blockOf),
         Elem.kind \in {"inv", "flush"}, Elem.id \in DOMAIN blockOf,
         NEW c, NEW a, Matched(target, blockOf, c, a), Away(target, c),
         NEW ins, Flushing(ins), NEW d, d = Run(target, c, ins), NEW e, e = AskStep(a, Elem)
  PROVE  Matched(target, blockOf, d, e) /\ Away(target, d) /\ e.out = a.out
<1>t. PICK t \in Targets : t = target
  OBVIOUS
<1>0. PICK f, n, x : t = target /\ f = blockOf /\ n = Elem.id /\ x = Elem
  BY <1>t
<1>1. Matched(t, f, c, a) /\ Away(t, c) /\ Representing(t, f) /\ n \in DOMAIN f
  BY <1>0
<1>2. PICK i : i = (IF x.kind = "inv" THEN Op("wbinvd", {}) ELSE Op("flush", {Tmp})) /\ d = Exec(t, c, i)
  <2>1. PICK i : i = IF x.kind = "inv" THEN Op("wbinvd", {}) ELSE Op("flush", {Tmp})
    OBVIOUS
  <2>2. ins = <<i>>
    BY <1>0, <2>1 DEF Flushing
  <2>3. Run(t, c, <<i>>) = Exec(t, c, i)
    BY RunOne
  <2> QED BY <1>0, <2>1, <2>2, <2>3, Zenon
<1>3. PICK s : s = a.set /\ s \in Seq(DOMAIN f) /\ c.set = Named(f, s) /\ c.out = Levels(t, a.out) /\ a.out \in Seq(BOOLEAN)
  BY <1>1 DEF Matched
<1>4. t.level \in {1, 2, 3}
  BY RowBlocks
<1>5. CASE x.kind = "inv"
  <2>1. PICK X : d = Exec(t, c, Op("wbinvd", X))
    BY <1>2, <1>5
  <2>2. d.set = <<>> /\ d.out = c.out /\ \A k \in 1..2 : d.near[k] = {}
    <3>1. PICK g : g = d
      OBVIOUS
    <3>2. g = Exec(t, c, Op("wbinvd", X))
      BY <2>1, <3>1, Zenon
    <3>3. g.set = <<>> /\ g.out = c.out /\ \A k \in 1..2 : g.near[k] = {}
      BY ONLY <3>2, ExecWbinvd
    <3> QED BY <3>1, <3>3, Zenon
  <2>3. e.set = <<>> /\ e.out = a.out
    BY <1>0, <1>5, AskStepIs
  <2>4. <<>> \in Seq(DOMAIN f) /\ Named(f, <<>>) = <<>>
    <3>1. Len(<<>>) = 0 /\ <<>> \in Seq(DOMAIN f)
      OBVIOUS
    <3>2. Len(Named(f, <<>>)) = 0 /\ Named(f, <<>>) \in Seq({f[m] : m \in DOMAIN f})
      BY <3>1, NamedIs
    <3>3. Named(f, <<>>) = <<>>
      BY <3>2, EmptySeq
    <3> QED BY <3>1, <3>3
  <2>5. Matched(t, f, d, e)
    BY <1>3, <2>2, <2>3, <2>4, Zenon DEF Matched
  <2>6. Away(t, d)
    <3>1. \A k \in 1..(t.level - 1) : k \in 1..2
      BY <1>4
    <3> QED BY <2>2, <3>1 DEF Away, Far
  <2> QED BY <1>0, <2>3, <2>5, <2>6
<1>6. CASE x.kind = "flush"
  <2>1. About("flush", f[n]) = Op("flush", {Tmp})
    BY <1>0 DEF About, Tmp
  <2>2. d = Exec(t, c, About("flush", f[n]))
    BY <1>2, <1>6, <2>1
  <2>3. PICK b : b = f[n] /\ d = Exec(t, c, About("flush", b))
    BY <2>2
  <2>4. d.set = Forget(c.set, b) /\ d.out = c.out /\ \A k \in 1..2 : d.near[k] = c.near[k] \ {b}
    <3>1. PICK g : g = d
      OBVIOUS
    <3>2. g = Exec(t, c, About("flush", b))
      BY <2>3, <3>1, Zenon
    <3>3. g.set = Forget(c.set, b) /\ g.out = c.out /\ \A k \in 1..2 : g.near[k] = c.near[k] \ {b}
      BY ONLY <3>2, ExecFlush
    <3> QED BY <3>1, <3>3, Zenon
  <2>5. e.set = Forget(s, n) /\ e.out = a.out
    BY <1>0, <1>3, <1>6, AskStepIs
  <2>6. Forget(Named(f, s), f[n]) = Named(f, Forget(s, n))
    BY <1>1, <1>3, NamedForget DEF Representing
  <2>7. Forget(s, n) \in Seq(DOMAIN f)
    <3>1. PICK D : D = DOMAIN f
      OBVIOUS
    <3>2. s \in Seq(D) /\ n \in D
      BY <1>1, <1>3, <3>1
    <3> HIDE <3>1
    <3>3. Forget(s, n) \in Seq(D)
      BY <3>2, Forgets
    <3> QED BY <3>1, <3>3
  <2>8. Matched(t, f, d, e)
    BY <1>3, <2>3, <2>4, <2>5, <2>6, <2>7, Zenon DEF Matched
  <2>9. Away(t, d)
    <3>1. \A k \in 1..(t.level - 1) : k \in 1..2
      BY <1>4
    <3> QED BY <1>1, <2>4, <3>1 DEF Away, Far
  <2> QED BY <1>0, <2>5, <2>8, <2>9
<1> QED BY <1>0, <1>5, <1>6

-----------------------------------------------------------------------------
\* The eviction sets are among those of the pools that the target's head finds, and an
\* L3 target that is queried has found its L2 eviction set.
Pools ==
  /\ \A t \in Targets : evict1[t] \in Evict1Of(t)
  /\ \A t \in DOMAIN evict2 :
       t \in Targets /\ t.level = 3 /\ evict2[t] \in Capped(Candidates2(Head(t.list)), MARGIN * EV2)
  /\ pc \in Compiling => area \in CodeAreas /\ (target.level = 3 => target \in DOMAIN evict2)

\* Nothing is banned but the sets of the code's first line and those of the names' blocks.
Bans ==
  pc \in Compiling =>
    /\ \A x \in ban3l1 \cup ban3l2 :
         x = Or(area[1][1], area[1][2]) \/ \E n \in DOMAIN blockOf : x = L3Index(blockOf[n])
    /\ \A x \in ban2l1 : x = area[1][1] % S2 \/ \E n \in DOMAIN blockOf : x = Set2(blockOf[n])

\* A step that leaves the pools, and goes on with the same query or with none.
LEMMA PoolsKept ==
  ASSUME Pools, UNCHANGED <<evict1, evict2>>,
         pc' \notin Compiling \/ (pc \in Compiling /\ UNCHANGED <<target, area>>)
  PROVE  Pools'
BY DEF Pools

\* The set found on demand.
LEMMA PoolsFound ==
  ASSUME Pools, NEW t \in Targets, evict2' \in Evict2Of(t), UNCHANGED evict1,
         pc' \in Compiling => area' \in CodeAreas /\ target' = t
  PROVE  Pools'
<1>1. CASE t.level = 3 /\ t \notin DOMAIN evict2
  <2>1. PICK X \in Capped(Candidates2(Head(t.list)), MARGIN * EV2) : evict2' = With(evict2, t, X)
    BY <1>1 DEF Evict2Of
  <2>2. /\ DOMAIN evict2' = DOMAIN evict2 \cup {t} /\ evict2'[t] = X
        /\ \A u \in DOMAIN evict2 : evict2'[u] = evict2[u]
    BY <1>1, <2>1 DEF With
  <2>3. \A u \in DOMAIN evict2' :
          u \in Targets /\ u.level = 3 /\ evict2'[u] \in Capped(Candidates2(Head(u.list)), MARGIN * EV2)
    <3> SUFFICES ASSUME NEW u \in DOMAIN evict2'
                 PROVE  u \in Targets /\ u.level = 3 /\ evict2'[u] \in Capped(Candidates2(Head(u.list)), MARGIN * EV2)
      OBVIOUS
    <3>1. CASE u = t
      BY <1>1, <2>1, <2>2, <3>1
    <3>2. CASE u \in DOMAIN evict2
      BY <2>2, <3>2 DEF Pools
    <3> QED BY <2>2, <3>1, <3>2
  <2> QED BY <2>2, <2>3 DEF Pools
<1>2. CASE ~ (t.level = 3 /\ t \notin DOMAIN evict2)
  <2>1. evict2' = evict2
    BY <1>2 DEF Evict2Of
  <2> QED BY <1>2, <2>1 DEF Pools
<1> QED BY <1>1, <1>2

\* When the module is loaded, the L1 sets are of the pools.
LEMMA InitPools == Init => Pools
<1> SUFFICES ASSUME Init PROVE Pools
  OBVIOUS
<1>1. evict2 = <<>> /\ pc = "idle" /\ \A t \in Targets : evict1[t] \in Evict1Of(t)
  BY DEF Init
<1>2. DOMAIN evict2 = {}
  BY <1>1
<1> QED BY <1>1, <1>2 DEF Pools, Compiling

\* Each step keeps the sets among those of the pools.
LEMMA StepPools == Pools /\ [Next]_vars => Pools'
<1> SUFFICES ASSUME Pools, [Next]_vars PROVE Pools'
  OBVIOUS
<1>1. ASSUME NEW t \in Targets, NEW q \in Queries, NEW c \in Confs, Begin(t, q, c) PROVE Pools'
  <2>1. evict2' \in Evict2Of(t) /\ UNCHANGED evict1 /\ target' = t /\ area' \in CodeAreas
    BY <1>1 DEF Begin
  <2> QED BY <2>1, PoolsFound
<1>2. ASSUME NEW t \in Targets, NEW q \in Queries, NoPages(t, q) PROVE Pools'
  <2>1. evict2' \in Evict2Of(t) /\ UNCHANGED evict1 /\ pc' = "idle"
    BY <1>2 DEF NoPages
  <2> QED BY <2>1, PoolsFound DEF Compiling
<1>3. ASSUME NEW t \in Targets, NEW miss \in BOOLEAN, Calibrate(t, miss) PROVE Pools'
  <2>1. evict2' \in Evict2Of(t) /\ UNCHANGED evict1 /\ pc' \in {"hit", "miss", "err"}
    BY <1>3 DEF Calibrate, Emit
  <2> QED BY <2>1, PoolsFound DEF Compiling
<1>4. CASE Known \/ \E i \in next..Len(target.list) : Choose(i)
  <2>1. pc = "assign" /\ UNCHANGED inputs
    BY <1>4 DEF Known, Choose
  <2> QED BY <2>1, PoolsKept DEF inputs, Compiling
<1>5. CASE Exhausted \/ Free
  <2>1. pc' = "idle" /\ UNCHANGED <<evict1, evict2>>
    BY <1>5 DEF Exhausted, Free, Forgotten
  <2> QED BY <2>1, PoolsKept DEF Compiling
<1>6. CASE Prime \/ Flush \/ Access \/ End
  <2>1. pc \in {"prime", "query", "end"} /\ UNCHANGED inputs
    BY <1>6 DEF Prime, Flush, Access, End
  <2> QED BY <2>1, PoolsKept DEF inputs, Compiling
<1>7. CASE UNCHANGED vars
  BY <1>7 DEF vars, inputs, Pools
<1> QED BY <1>1, <1>2, <1>3, <1>4, <1>5, <1>6, <1>7 DEF Next

-----------------------------------------------------------------------------

\* A step that bans nothing.
LEMMA BansKept ==
  ASSUME Bans, pc' \notin Compiling \/ (pc \in Compiling /\ UNCHANGED <<area, bans, blockOf>>)
  PROVE  Bans'
BY DEF Bans, bans

\* Each step bans only the blocks it takes for names.
LEMMA StepBans == Bans /\ [Next]_vars => Bans'
<1> SUFFICES ASSUME Bans, [Next]_vars PROVE Bans'
  OBVIOUS
<1>1. ASSUME NEW t \in Targets, NEW q \in Queries, NEW c \in Confs, Begin(t, q, c) PROVE Bans'
  <2>1. PICK a \in CodeAreas : /\ area' = a /\ ban3l1' = {Or(a[1][1], a[1][2])}
                               /\ ban3l2' = {Or(a[1][1], a[1][2])} /\ ban2l1' = {a[1][1] % S2}
    BY <1>1 DEF Begin
  <2> QED BY <2>1 DEF Bans
<1>2. ASSUME NEW t \in Targets, NEW q \in Queries, NoPages(t, q) PROVE Bans'
  <2>1. pc' = "idle"
    BY <1>2 DEF NoPages
  <2> QED BY <2>1, BansKept DEF Compiling
<1>3. ASSUME NEW t \in Targets, NEW miss \in BOOLEAN, Calibrate(t, miss) PROVE Bans'
  <2>1. pc' \in {"hit", "miss", "err"}
    BY <1>3 DEF Calibrate, Emit
  <2> QED BY <2>1, BansKept DEF Compiling
<1>4. ASSUME NEW i \in next..Len(target.list), Choose(i) PROVE Bans'
  <2>1. PICK b : b = target.list[i]
    OBVIOUS
  <2>2. /\ pc = "assign" /\ Elem.id \notin DOMAIN blockOf /\ UNCHANGED area
        /\ blockOf' = With(blockOf, Elem.id, b)
        /\ ban3l1' \subseteq ban3l1 \cup {L3Index(b)}
        /\ ban2l1' \subseteq ban2l1 \cup {Set2(b)}
        /\ ban3l2' \subseteq ban3l2 \cup {L3Index(b)}
    BY <1>4, <2>1 DEF Choose, inputs
  <2>3. /\ DOMAIN blockOf' = DOMAIN blockOf \cup {Elem.id} /\ blockOf'[Elem.id] = b
        /\ \A n \in DOMAIN blockOf : blockOf'[n] = blockOf[n]
    BY <2>2 DEF With
  <2>4. PICK o, s : o = Or(area[1][1], area[1][2]) /\ s = area[1][1] % S2
    OBVIOUS
  <2>5. /\ \A x \in ban3l1 \cup ban3l2 : x = o \/ \E n \in DOMAIN blockOf : x = L3Index(blockOf[n])
        /\ \A x \in ban2l1 : x = s \/ \E n \in DOMAIN blockOf : x = Set2(blockOf[n])
    BY <2>2, <2>4 DEF Bans, Compiling
  <2>6. ASSUME NEW x \in ban3l1' \cup ban3l2'
        PROVE  x = o \/ \E n \in DOMAIN blockOf' : x = L3Index(blockOf'[n])
    <3>1. CASE x = L3Index(b)
      BY <2>3, <3>1
    <3>2. CASE x \in ban3l1 \cup ban3l2
      BY <2>3, <2>5, <3>2
    <3> QED BY <2>2, <3>1, <3>2
  <2>7. ASSUME NEW x \in ban2l1'
        PROVE  x = s \/ \E n \in DOMAIN blockOf' : x = Set2(blockOf'[n])
    <3>1. CASE x = Set2(b)
      BY <2>3, <3>1
    <3>2. CASE x \in ban2l1
      BY <2>3, <2>5, <3>2
    <3> QED BY <2>2, <3>1, <3>2
  <2>8. o = Or(area'[1][1], area'[1][2]) /\ s = area'[1][1] % S2
    BY <2>2, <2>4
  <2> QED BY <2>6, <2>7, <2>8, Zenon DEF Bans
<1>5. CASE Known
  BY <1>5, BansKept DEF Known, inputs, bans, Compiling
<1>6. CASE Exhausted \/ Free
  <2>1. pc' = "idle"
    BY <1>6 DEF Exhausted, Free, Forgotten
  <2> QED BY <2>1, BansKept DEF Compiling
<1>7. CASE Prime \/ Flush \/ Access \/ End
  <2>1. pc \in {"prime", "query", "end"} /\ UNCHANGED <<inputs, bans, blockOf>>
    BY <1>7 DEF Prime, Flush, Access, End
  <2> QED BY <2>1, BansKept DEF inputs, Compiling
<1>8. CASE UNCHANGED vars
  BY <1>8 DEF vars, inputs, bans, Bans
<1> QED BY <1>1, <1>2, <1>3, <1>4, <1>5, <1>6, <1>7, <1>8 DEF Next

-----------------------------------------------------------------------------
\* The index of an L3 set is that of no other.
LEMMA OneIndex ==
  ASSUME NEW x \in Block, NEW y \in Block, L3Index(x) = L3Index(y)
  PROVE  Loc(x) = Loc(y)
<1>0. PICK w \in Nat \ {0} : w = SL
  BY CodeGenAssumption
<1>1. PICK p \in Int, q \in Int, r \in 0..w-1, s \in 0..w-1 :
        /\ p = Set3[x] /\ q = Set3[y] /\ r = Slice[x] /\ s = Slice[y]
        /\ p * w + r = q * w + s
  <2>1. SL \in Nat \ {0} /\ Set3[x] \in Nat /\ Set3[y] \in Nat /\ Slice[x] \in 0..SL-1 /\ Slice[y] \in 0..SL-1
    BY CodeGenAssumption
  <2>2. Set3[x] * w + Slice[x] = Set3[y] * w + Slice[y]
    BY <1>0 DEF L3Index
  <2>3. Set3[x] \in Int /\ Set3[y] \in Int
    BY <2>1
  <2> QED BY <1>0, <2>1, <2>2, <2>3, Zenon
<1>2. w * p + r = w * q + s
  BY <1>1
<1>3. r = s
  BY <1>2, OneRemainder
<1>4. w * (p - q) = 0
  BY <1>2, <1>3
<1>5. p = q
  <2>1. CASE p - q >= 1
    <3>1. w * (p - q) >= w
      BY <2>1
    <3> QED BY <1>4, <3>1
  <2>2. CASE p - q <= -1
    <3>1. w * (p - q) <= -w
      BY <2>2
    <3> QED BY <1>4, <3>1
  <2> QED BY <2>1, <2>2
<1> QED BY <1>1, <1>3, <1>5 DEF Loc

\* Names stand for blocks of the target.
LEMMA Stands ==
  ASSUME NInv, GInv, pc \in Compiling
  PROVE  Representing(target, blockOf) /\ target \in Targets
<1>1. target \in Targets /\ next \in 1..(Len(target.list) + 1)
  BY DEF NInv, GInv, Typed, TypeOK
<1>2. Len(target.list) \in Nat
  BY <1>1, TargetList
<1>3. OneToOne(blockOf)
  BY DEF NInv, NamesAreBlocks, Compiling, OneToOne
<1>4. ASSUME NEW n \in DOMAIN blockOf PROVE blockOf[n] \in Row(target)
  <2>1. PICK i \in 1..next-1 : blockOf[n] = target.list[i]
    BY DEF NInv, NamesAreBlocks, Compiling
  <2>2. i \in 1..Len(target.list)
    BY <1>1, <1>2
  <2> QED BY <2>1, <2>2 DEF Row
<1> QED BY <1>1, <1>3, <1>4 DEF Representing

\* The set that the pools give a target.
LEMMA EvictorsAre ==
  ASSUME target \in Targets, Pools, pc \in Compiling
  PROVE  /\ target.level = 1 => Evictors1 = {}
         /\ target.level \in {2, 3} => Evictors1 \in Evict1Of(target) /\ Evictors1 \subseteq Candidates1(Head(target.list))
         /\ target.level \in {1, 2} => Evictors2 = {}
         /\ target.level = 3 => /\ Evictors2 \in Capped(Candidates2(Head(target.list)), MARGIN * EV2)
                                /\ Evictors2 = evict2[target]
<1>1. evict1[target] \in Evict1Of(target)
  BY DEF Pools
<1>2. target.level = 1 => Evictors1 = {}
  BY <1>1 DEF Evict1Of, Evictors1
<1>3. target.level \in {2, 3} => Evictors1 \in Evict1Of(target) /\ Evictors1 \subseteq Candidates1(Head(target.list))
  BY <1>1 DEF Evict1Of, Evictors1, Capped
<1>4. target.level \in {1, 2} => Evictors2 = {}
  BY DEF Pools, Evictors2
<1>5. target.level = 3 => /\ Evictors2 \in Capped(Candidates2(Head(target.list)), MARGIN * EV2)
                          /\ Evictors2 = evict2[target]
  BY DEF Pools, Evictors2
<1> QED BY <1>2, <1>3, <1>4, <1>5, Zenon

\* The bans leave the blocks that neither the code nor a leader set takes away.
LEMMA Usable1Has ==
  ASSUME NInv, GInv, Pools, Bans, pc = "query", target.level \in {2, 3}
  PROVE  Free1(area, Evictors1) \subseteq Usable1
<1>0. pc \in Compiling
  BY DEF Compiling
<1>1. target \in Targets /\ \A n \in DOMAIN blockOf : blockOf[n] \in Row(target)
  BY <1>0, Stands DEF Representing
<1>2. PICK h \in Block : h = Head(target.list)
  BY <1>1, RowBlocks
<1> SUFFICES ASSUME NEW x \in Free1(area, Evictors1) PROVE x \in Usable1
  OBVIOUS
<1>3. /\ x \in Evictors1 /\ L3Index(x) # Or(area[1][1], area[1][2])
      /\ Set2(x) # area[1][1] % S2 /\ Loc(x) \notin Leader
  BY DEF Free1, OffCode
<1>4. x \in Block /\ Set2(x) # Set2(h) /\ Loc(x) # Loc(h)
  <2>1. x \in Candidates1(h)
    BY <1>0, <1>1, <1>2, <1>3, EvictorsAre
  <2> QED BY <2>1, CodeGenAssumption DEF Candidates1
<1>5. ASSUME NEW n \in DOMAIN blockOf PROVE L3Index(x) # L3Index(blockOf[n]) /\ Set2(x) # Set2(blockOf[n])
  <2>1. PICK b \in Block : b = blockOf[n] /\ Set2(b) = Set2(h)
    BY <1>1, <1>2, RowSets
  <2>2. Loc(x) # Loc(b)
    BY <1>4, <2>1 DEF Loc, Set2
  <2>3. L3Index(x) # L3Index(b)
    BY <1>4, <2>1, <2>2, OneIndex
  <2> QED BY <1>4, <2>1, <2>3
<1>6. L3Index(x) \notin ban3l1
  BY <1>0, <1>3, <1>5 DEF Bans
<1>7. Set2(x) \notin ban2l1
  BY <1>0, <1>3, <1>5 DEF Bans
<1> QED BY <1>3, <1>6, <1>7 DEF Usable1

\* Likewise for L2: of the names' blocks only the L3 set is banned.
LEMMA Usable2Has ==
  ASSUME NInv, GInv, Pools, Bans, pc = "query", target.level = 3, Elem.id \in DOMAIN blockOf
  PROVE  Free2(target, area, Evictors2) \subseteq Usable2
<1>0. pc \in Compiling
  BY DEF Compiling
<1>1. target \in Targets /\ \A n \in DOMAIN blockOf : blockOf[n] \in Row(target)
  BY <1>0, Stands DEF Representing
<1>2. PICK h \in Block : h = Head(target.list)
  BY <1>1, RowBlocks
<1> SUFFICES ASSUME NEW x \in Free2(target, area, Evictors2) PROVE x \in Usable2
  OBVIOUS
<1>3. /\ x \in Evictors2 /\ L3Index(x) # Or(area[1][1], area[1][2])
      /\ Loc(x) \notin Leader \/ Loc(h) \in Leader
  BY <1>2 DEF Free2, OffCode
<1>4. x \in Block /\ Loc(x) # Loc(h)
  <2>1. x \in Candidates2(h)
    BY <1>0, <1>1, <1>2, <1>3, EvictorsAre DEF Capped
  <2> QED BY <2>1, CodeGenAssumption DEF Candidates2
<1>5. ASSUME NEW n \in DOMAIN blockOf PROVE L3Index(x) # L3Index(blockOf[n])
  <2>1. PICK b \in Block : b = blockOf[n] /\ Loc(b) = Loc(h)
    BY <1>1, <1>2, RowSets
  <2> QED BY <1>4, <2>1, OneIndex
<1>6. L3Index(x) \notin ban3l2
  BY <1>0, <1>3, <1>5 DEF Bans
<1>7. Loc(Tmp) = Loc(h)
  BY <1>1, <1>2, RowSets DEF Tmp
<1> QED BY <1>3, <1>6, <1>7 DEF Usable2

-----------------------------------------------------------------------------
\* So many of a set, if it has as many.
LEMMA CappedSize ==
  ASSUME NEW U, IsFiniteSet(U), NEW F \in SUBSET U, NEW m \in Nat, Cardinality(F) >= m,
         NEW n \in Nat, n >= m, NEW X \in Capped(U, n)
  PROVE  X \subseteq U /\ Cardinality(X) >= m
<1>1. IsFiniteSet(F) /\ Cardinality(F) <= Cardinality(U)
  BY FS_Subset
<1>2. Cardinality(F) \in Nat /\ Cardinality(U) \in Nat
  BY <1>1, FS_CardinalityType
<1>3. X \subseteq U /\ Cardinality(X) = Smaller(n, Cardinality(U))
  BY DEF Capped
<1> QED BY <1>1, <1>2, <1>3 DEF Smaller

\* What an access evicts with is enough.
LEMMA Enough ==
  ASSUME NInv, GInv, Pools, Bans, pc = "query", Elem.id \in DOMAIN blockOf,
         NEW X1 \in Capped(Usable1, EV1), NEW X2 \in Capped(Usable2, 2 * EV2)
  PROVE  EvictedBy(target, Evictors1, Evictors2) /\ Empties(target, X1, X2)
<1>0. pc \in Compiling
  BY DEF Compiling
<1>1. target \in Targets
  BY <1>0, Stands
<1>2. PICK h \in Block : h = Head(target.list)
  BY <1>1, RowBlocks
<1>3. target.level \in {1, 2, 3} /\ area \in CodeAreas
  BY <1>0, <1>1, RowBlocks DEF Pools
<1>4. PICK m1 \in Nat \ {0}, m2 \in Nat \ {0} : m1 = EV1 /\ m2 = EV2
  BY CodeGenAssumption
<1>5. /\ target.level = 1 => Evictors1 = {}
      /\ target.level \in {2, 3} => Evictors1 \in Evict1Of(target) /\ Evictors1 \subseteq Candidates1(h)
      /\ target.level \in {1, 2} => Evictors2 = {}
      /\ target.level = 3 => Evictors2 \in Capped(Candidates2(h), MARGIN * EV2)
  BY <1>0, <1>1, <1>2, EvictorsAre
<1>6. IsFiniteSet(Candidates1(h)) /\ IsFiniteSet(Candidates2(h))
  <2>1. Candidates1(h) \subseteq Block /\ Candidates2(h) \subseteq Block
    BY CodeGenAssumption DEF Candidates1, Candidates2
  <2>2. IsFiniteSet(Block)
    BY MeaningAssumption
  <2> QED BY <2>1, <2>2, FS_Subset
<1>7. ASSUME target.level \in {2, 3}
      PROVE  Evictors1 # {} /\ X1 \subseteq Candidates1(h) /\ Cardinality(X1) >= EV1
  <2>1. Cardinality(Free1(area, Evictors1)) >= m1
    <3>1. target.level > 1
      BY <1>7
    <3> QED BY <1>1, <1>3, <1>4, <1>5, <1>7, <3>1, MeaningAssumption
  <2>2. Free1(area, Evictors1) \in SUBSET Usable1
    BY <1>7, Usable1Has
  <2>3. Usable1 \subseteq Evictors1
    BY DEF Usable1
  <2>4. IsFiniteSet(Usable1)
    <3>1. Usable1 \subseteq Candidates1(h)
      BY <1>5, <1>7, <2>3
    <3> QED BY <1>6, <3>1, FS_Subset
  <2>5. X1 \subseteq Usable1 /\ Cardinality(X1) >= m1
    <3>1. X1 \in Capped(Usable1, m1) /\ m1 >= m1
      BY <1>4
    <3> QED BY <2>1, <2>2, <2>4, <3>1, CappedSize
  <2>6. X1 # {}
    BY <2>5, FS_EmptySet
  <2> QED BY <1>4, <1>5, <1>7, <2>3, <2>5, <2>6
<1>8. ASSUME target.level = 3
      PROVE  Evictors2 # {} /\ X2 \subseteq Candidates2(h) /\ Cardinality(X2) >= EV2
  <2>1. Cardinality(Free2(target, area, Evictors2)) >= m2
    BY <1>1, <1>2, <1>3, <1>4, <1>5, <1>8, MeaningAssumption
  <2>2. Free2(target, area, Evictors2) \in SUBSET Usable2
    BY <1>8, Usable2Has
  <2>3. Usable2 \subseteq Evictors2
    BY DEF Usable2
  <2>0. Evictors2 \subseteq Candidates2(h)
    BY <1>5, <1>8 DEF Capped
  <2>4. IsFiniteSet(Usable2)
    <3>1. Usable2 \subseteq Candidates2(h)
      BY <2>0, <2>3
    <3> QED BY <1>6, <3>1, FS_Subset
  <2>5. X2 \subseteq Usable2 /\ Cardinality(X2) >= m2
    <3>1. PICK n \in Nat : n = 2 * EV2 /\ n >= m2
      BY <1>4
    <3>2. X2 \in Capped(Usable2, n)
      BY <3>1
    <3> QED BY <2>1, <2>2, <2>4, <3>1, <3>2, CappedSize
  <2>6. X2 # {}
    BY <2>5, FS_EmptySet
  <2> QED BY <1>4, <2>0, <2>3, <2>5, <2>6
<1>9. EvictedBy(target, Evictors1, Evictors2)
  BY <1>3, <1>5, <1>7, <1>8 DEF EvictedBy
<1>10. Empties(target, X1, X2)
  BY <1>2, <1>7, <1>8 DEF Empties
<1> QED BY <1>9, <1>10

-----------------------------------------------------------------------------
\* A cache before the code runs: any blocks of the target in its set, and anything in the
\* closer levels.
Cold(t, c) == Ordered(t, c.set) /\ c.out = <<>>

\* How many elements of the query have their code.
Compiled == IF pc = "query" THEN at - 1 ELSE Len(query)

\* What the code does so far is what its elements ask.
Meant ==
  /\ pc = "prime" => at = 1
  /\ pc \in {"query", "end", "done"} /\ ~ conf.one =>
       /\ profiled = Smaller(AskMax, Len(Asked(query, Compiled).out))
       /\ \A c : Cold(target, c) =>
            /\ Matched(target, blockOf, Run(target, c, code), Asked(query, Compiled))
            /\ Away(target, Run(target, c, code))

MInv == NInv /\ GInv /\ Pools /\ Bans /\ Meant

\* The code ins measures the element that is compiled.
Measures(ins) ==
  \A c, a :
    Matched(target, blockOf, c, a) /\ Away(target, c) /\ profiled = Smaller(AskMax, Len(a.out)) =>
      /\ Matched(target, blockOf, Run(target, c, ins), AskStep(a, Elem))
      /\ Away(target, Run(target, c, ins))
      /\ profiled' = Smaller(AskMax, Len(AskStep(a, Elem).out))

\* The element that is compiled, and the block of its name.
LEMMA CompilingElement ==
  ASSUME MInv, pc = "query"
  PROVE  /\ at \in 1..Len(query) /\ Len(query) \in Nat /\ Elem = query[at]
         /\ Elem.id \in DOMAIN blockOf /\ Representing(target, blockOf) /\ target \in Targets
         /\ IsCode(code) /\ Len(code) <= Limit
<1>1. at \in 1..Len(query) /\ query \in Queries /\ query # <<>>
  BY DEF MInv, NInv, Naming, Compiling
<1>2. Len(query) \in Nat
  BY <1>1, QueryLength
<1>3. DOMAIN blockOf = {query[i].id : i \in 1..Len(query)}
  BY DEF MInv, NInv, NamesAreBlocks
<1>4. Representing(target, blockOf) /\ target \in Targets
  BY Stands DEF MInv, Compiling
<1> QED BY <1>1, <1>2, <1>3, <1>4 DEF MInv, GInv, Typed, TypeOK, Elem

\* There is a cold cache.
LEMMA SomeCold ==
  ASSUME NEW t
  PROVE  \E c : Cold(t, c)
<1>1. PICK c : c = [set |-> <<>>, out |-> <<>>]
  OBVIOUS
<1>2. c.set = <<>> /\ c.out = <<>>
  BY <1>1
<1>3. <<>> \in Seq(Row(t)) /\ Len(<<>>) = 0
  OBVIOUS
<1>4. NoTwice(<<>>)
  BY <1>3 DEF NoTwice
<1> QED BY <1>2, <1>3, <1>4 DEF Cold, Ordered

\* One more element.
LEMMA MeantContinued ==
  ASSUME MInv, pc = "query", NEW ins, IsCode(ins), Continue(ins),
         UNCHANGED <<target, query, conf, blockOf>>, ~ conf.one => Measures(ins)
  PROVE  Meant'
<1>1. /\ at \in 1..Len(query) /\ Len(query) \in Nat /\ Elem = query[at] /\ IsCode(code) /\ Len(code) <= Limit
  BY CompilingElement
<1>2. PICK then : then = (IF AtLast THEN "end" ELSE "query") /\ Emit(ins, then) /\ at' = IF AtLast THEN at ELSE at + 1
  BY DEF Continue
<1>3. pc' \in {then, "err"} /\ (pc' # "err" => code' = code \o ins)
  BY <1>1, <1>2, Emitted
<1>4. pc' # "prime"
  BY <1>2, <1>3
<1> SUFFICES ASSUME pc' \in {"query", "end", "done"}, ~ conf.one
             PROVE  /\ profiled' = Smaller(AskMax, Len(Asked(query, Compiled').out))
                    /\ \A c : Cold(target, c) =>
                         /\ Matched(target, blockOf, Run(target, c, code'), Asked(query, Compiled'))
                         /\ Away(target, Run(target, c, code'))
  BY <1>4 DEF Meant
<1>5. pc' = then /\ code' = code \o ins
  BY <1>3
<1>6. Compiled' = at /\ Compiled = at - 1
  BY <1>1, <1>2, <1>5 DEF Compiled, AtLast
<1>7. PICK a, e : a = Asked(query, at - 1) /\ e = Asked(query, at)
  OBVIOUS
<1>8. e = AskStep(a, Elem)
  BY <1>1, <1>7, AskedSteps
<1>9. profiled = Smaller(AskMax, Len(a.out))
  BY <1>6, <1>7 DEF MInv, Meant
<1>10. ASSUME NEW c, Cold(target, c)
       PROVE  /\ Matched(target, blockOf, Run(target, c, code'), e)
              /\ Away(target, Run(target, c, code'))
              /\ profiled' = Smaller(AskMax, Len(e.out))
  <2>1. PICK g : g = Run(target, c, code)
    OBVIOUS
  <2>2. Matched(target, blockOf, g, a) /\ Away(target, g)
    BY <1>6, <1>7, <1>10, <2>1 DEF MInv, Meant
  <2>3. Run(target, c, code') = Run(target, g, ins)
    BY <1>1, <1>5, <2>1, RunJoined
  <2>4. Measures(ins)
    OBVIOUS
  <2> QED BY <1>8, <1>9, <2>2, <2>3, <2>4, Zenon DEF Measures
<1>11. profiled' = Smaller(AskMax, Len(e.out))
  BY <1>10, SomeCold
<1> QED BY <1>6, <1>7, <1>10, <1>11

\* An access measures its element.
LEMMA AccessMeant ==
  ASSUME MInv, Access
  PROVE  Meant'
<1>1. PICK X1 \in Capped(Usable1, EV1), X2 \in Capped(Usable2, 2 * EV2) : Continue(Timed \o Eviction(X1, X2))
  BY DEF Access
<1>2. /\ pc = "query" /\ Elem.kind \in {"load", "ask"}
      /\ profiled' = IF Profiles THEN profiled + 1 ELSE profiled
      /\ UNCHANGED <<target, query, conf, blockOf>>
  BY DEF Access, inputs
<1>3. Elem.id \in DOMAIN blockOf /\ Representing(target, blockOf) /\ target \in Targets
  BY <1>2, CompilingElement
<1>4. EvictedBy(target, Evictors1, Evictors2) /\ Empties(target, X1, X2)
  BY <1>2, <1>3, Enough DEF MInv
<1>5. PICK ins : ins = Timed \o Eviction(X1, X2)
  OBVIOUS
<1>6. IsCode(ins)
  <2>1. IsCode(Timed) /\ IsCode(Eviction(X1, X2))
    BY TimedTally, EvictionUntimed, Zenon DEF Untimed
  <2> QED BY <1>5, <2>1, Joined
<1>7. ~ conf.one => Measures(ins)
  <2> SUFFICES ASSUME ~ conf.one, NEW c, NEW a, Matched(target, blockOf, c, a), Away(target, c),
                      profiled = Smaller(AskMax, Len(a.out))
               PROVE  /\ Matched(target, blockOf, Run(target, c, ins), AskStep(a, Elem))
                      /\ Away(target, Run(target, c, ins))
                      /\ profiled' = Smaller(AskMax, Len(AskStep(a, Elem).out))
    BY DEF Measures
  <2>1. PICK d, e : d = Run(target, c, Timed \o Eviction(X1, X2)) /\ e = AskStep(a, Elem)
    OBVIOUS
  <2>2. /\ Matched(target, blockOf, d, e) /\ Away(target, d)
        /\ (IF Profiles THEN profiled + 1 ELSE profiled) = Smaller(AskMax, Len(e.out))
    BY <1>2, <1>3, <1>4, <2>1, AccessRun
  <2> QED BY <1>2, <1>5, <2>1, <2>2, Zenon
<1> QED BY <1>1, <1>2, <1>5, <1>6, <1>7, MeantContinued

\* A flush does its element.
LEMMA FlushMeant ==
  ASSUME MInv, Flush
  PROVE  Meant'
<1>1. PICK ins : Flushing(ins)
  BY DEF Flushing
<1>2. /\ pc = "query" /\ Elem.kind \in {"inv", "flush"} /\ Continue(ins)
      /\ profiled' = profiled /\ UNCHANGED <<target, query, conf, blockOf>>
  BY <1>1 DEF Flush, Flushing, inputs
<1>3. Elem.id \in DOMAIN blockOf /\ Representing(target, blockOf) /\ target \in Targets
  BY <1>2, CompilingElement
<1>5. IsCode(ins)
  BY <1>1, Sole, Zenon DEF Flushing
<1>6. Measures(ins)
  <2> SUFFICES ASSUME NEW c, NEW a, Matched(target, blockOf, c, a), Away(target, c),
                      profiled = Smaller(AskMax, Len(a.out))
               PROVE  /\ Matched(target, blockOf, Run(target, c, ins), AskStep(a, Elem))
                      /\ Away(target, Run(target, c, ins))
                      /\ profiled' = Smaller(AskMax, Len(AskStep(a, Elem).out))
    BY DEF Measures
  <2>1. PICK d, e : d = Run(target, c, ins) /\ e = AskStep(a, Elem)
    OBVIOUS
  <2>2. Matched(target, blockOf, d, e) /\ Away(target, d) /\ e.out = a.out
    BY <1>1, <1>2, <1>3, <2>1, FlushedRun
  <2> QED BY <1>2, <2>1, <2>2, Zenon
<1> QED BY <1>2, <1>5, <1>6, MeantContinued

-----------------------------------------------------------------------------
\* Nothing of the query is compiled yet: the set is empty, and the answers are none.
LEMMA MatchedNothing ==
  ASSUME NEW t, NEW f, NEW c, c.set = <<>>, c.out = <<>>, NEW a, a = [set |-> <<>>, out |-> <<>>]
  PROVE  Matched(t, f, c, a) /\ Smaller(AskMax, Len(a.out)) = 0
<1>1. a.set = <<>> /\ a.out = <<>> /\ Len(<<>>) = 0 /\ <<>> \in Seq(DOMAIN f) /\ <<>> \in Seq(BOOLEAN)
  OBVIOUS
<1>2. Smaller(AskMax, 0) = 0
  BY CodeGenAssumption DEF Smaller
<1>3. Len(Named(f, <<>>)) = 0 /\ Named(f, <<>>) \in Seq({f[m] : m \in DOMAIN f})
  BY <1>1, NamedIs
<1>4. Named(f, <<>>) = <<>>
  BY <1>3, EmptySeq
<1>5. Len(Levels(t, <<>>)) = 0 /\ Levels(t, <<>>) \in Seq({LevelOf(t, h) : h \in BOOLEAN})
  BY <1>1, <1>2, LevelsIs
<1>6. Levels(t, <<>>) = <<>>
  BY <1>5, EmptySeq
<1> QED BY <1>1, <1>2, <1>4, <1>6, Zenon DEF Matched

\* Priming leaves what a query starts with: an empty set.
LEMMA PrimeMeant ==
  ASSUME MInv, Prime
  PROVE  Meant'
<1>1. pc = "prime" /\ Emit(Priming, "query") /\ UNCHANGED <<target, query, conf, at, blockOf, profiled>>
  BY DEF Prime, inputs
<1>2. target \in Targets /\ code = <<>> /\ profiled = 0 /\ at = 1 /\ IsCode(code) /\ Len(code) <= Limit
      /\ query \in Queries /\ query # <<>>
  BY <1>1 DEF MInv, NInv, Naming, Compiling, GInv, Typed, TypeOK, Progress, Meant
<1>3. IsCode(Priming)
  BY <1>2, PrimingUntimed DEF Untimed
<1>4. pc' \in {"query", "err"} /\ (pc' # "err" => code' = code \o Priming)
  BY <1>1, <1>2, <1>3, Emitted
<1> SUFFICES ASSUME pc' = "query"
             PROVE  /\ profiled' = Smaller(AskMax, Len(Asked(query, Compiled').out))
                    /\ \A c : Cold(target, c) =>
                         /\ Matched(target, blockOf, Run(target, c, code'), Asked(query, Compiled'))
                         /\ Away(target, Run(target, c, code'))
  BY <1>1, <1>4 DEF Meant
<1>5. Compiled' = 0
  BY <1>1, <1>2 DEF Compiled
<1>6. PICK a : a = Asked(query, 0) /\ a = [set |-> <<>>, out |-> <<>>]
  BY <1>2, QueryLength, AskedSteps
<1>7. ASSUME NEW c, Cold(target, c)
      PROVE  /\ Matched(target, blockOf, Run(target, c, code'), a)
             /\ Away(target, Run(target, c, code'))
  <2>1. Run(target, c, code') = Run(target, c, Priming)
    <3>1. PICK o, p : o = code /\ p = Priming /\ IsCode(o) /\ IsCode(p)
      BY <1>2, <1>3
    <3>2. Run(target, c, o \o p) = Run(target, Run(target, c, o), p)
      BY <3>1, RunJoined
    <3>3. Run(target, c, o) = c
      BY <1>2, <3>1, RunNone
    <3> QED BY <1>4, <3>1, <3>2, <3>3, Zenon
  <2>2. PICK d : d = Run(target, c, Priming)
    OBVIOUS
  <2>3. d.set = <<>> /\ d.out = <<>> /\ Away(target, d)
    BY <1>2, <1>7, <2>2, PrimingRun DEF Cold
  <2>4. Matched(target, blockOf, d, a)
    BY <1>6, <2>3, MatchedNothing
  <2> QED BY <2>1, <2>2, <2>3, <2>4
<1>8. Smaller(AskMax, Len(a.out)) = 0
  <2>1. PICK c : c = [set |-> <<>>, out |-> <<>>]
    OBVIOUS
  <2>2. c.set = <<>> /\ c.out = <<>>
    BY <2>1
  <2> QED BY <1>6, <2>2, MatchedNothing
<1> QED BY <1>1, <1>2, <1>5, <1>6, <1>7, <1>8

\* The epilogue changes nothing of it.
LEMMA EndMeant ==
  ASSUME MInv, End
  PROVE  Meant'
<1>1. pc = "end" /\ Emit(<<Op("ret", {})>>, "done") /\ UNCHANGED <<target, query, conf, blockOf, profiled>>
  BY DEF End, inputs
<1>2. IsCode(code) /\ Len(code) <= Limit
  BY DEF MInv, GInv, Typed, TypeOK
<1>3. PICK i : i = Op("ret", {})
  OBVIOUS
<1>4. IsCode(<<i>>)
  BY Sole
<1>5. pc' \in {"done", "err"} /\ (pc' # "err" => code' = code \o <<i>>)
  BY <1>1, <1>2, <1>3, <1>4, Emitted
<1>6. \A c : pc' # "err" => Run(target, c, code') = Run(target, c, code)
  <2> SUFFICES ASSUME NEW c, pc' # "err" PROVE Run(target, c, code') = Run(target, c, code)
    OBVIOUS
  <2>1. PICK d : d = Run(target, c, code)
    OBVIOUS
  <2>2. Run(target, c, code \o <<i>>) = Run(target, d, <<i>>)
    BY <1>2, <1>4, <2>1, RunJoined
  <2>3. Run(target, d, <<i>>) = Exec(target, d, i)
    BY RunOne
  <2>4. Exec(target, d, i) = d
    BY <1>3, ExecOther
  <2> QED BY <1>5, <2>1, <2>2, <2>3, <2>4
<1>7. pc' # "err" => Compiled' = Compiled
  BY <1>1, <1>5 DEF Compiled
<1> QED BY <1>1, <1>5, <1>6, <1>7 DEF MInv, Meant

\* Each step keeps what the code means.
LEMMA StepMeant == MInv /\ [Next]_vars => Meant'
<1> SUFFICES ASSUME MInv, [Next]_vars PROVE Meant'
  OBVIOUS
<1>1. ASSUME NEW t \in Targets, NEW q \in Queries, NEW c \in Confs, Begin(t, q, c) PROVE Meant'
  BY <1>1 DEF Begin, Meant
<1>2. ASSUME NEW t \in Targets, NEW q \in Queries, NoPages(t, q) PROVE Meant'
  BY <1>2 DEF NoPages, Meant
<1>3. ASSUME NEW t \in Targets, NEW miss \in BOOLEAN, Calibrate(t, miss) PROVE Meant'
  BY <1>3 DEF Calibrate, Emit, Meant
<1>4. CASE Known \/ \E i \in next..Len(target.list) : Choose(i)
  <2>1. pc = "assign" /\ Advance("prime")
    BY <1>4 DEF Known, Choose
  <2> QED BY <2>1 DEF Advance, Meant
<1>5. CASE Exhausted \/ Free
  BY <1>5 DEF Exhausted, Free, Forgotten, Meant
<1>6. CASE Prime
  BY <1>6, PrimeMeant
<1>7. CASE Flush
  BY <1>7, FlushMeant
<1>8. CASE Access
  BY <1>8, AccessMeant
<1>9. CASE End
  BY <1>9, EndMeant
<1>10. CASE UNCHANGED vars
  BY <1>10 DEF vars, inputs, Meant, MInv, Compiled
<1> QED BY <1>1, <1>2, <1>3, <1>4, <1>5, <1>6, <1>7, <1>8, <1>9, <1>10 DEF Next

\* There is no code at first.
LEMMA InitMeant == Init => MInv
<1> SUFFICES ASSUME Init PROVE MInv
  OBVIOUS
<1>1. NInv /\ GInv /\ Pools
  BY InitNames, InitCounts, InitPools
<1>2. pc = "idle"
  BY DEF Init
<1> QED BY <1>1, <1>2 DEF MInv, Bans, Meant, Compiling

\* So it is always kept.
LEMMA AlwaysMeant == Spec => []MInv
<1>1. MInv /\ [Next]_vars => MInv'
  BY StepNames, StepCounts, StepPools, StepBans, StepMeant DEF MInv
<1> QED BY InitMeant, <1>1, PTL DEF Spec

\* Before the code runs, all or nothing is a cold cache.
LEMMA BeforeCold ==
  ASSUME target \in Targets, NEW c \in Before
  PROVE  Cold(target, c)
<1>1. PICK n \in Nat, k \in Nat : n = Len(target.list) /\ k = Smaller(Ways, n) /\ k <= n
  BY TargetList, MeaningAssumption DEF Smaller
<1>2. PICK s : s = SubSeq(target.list, 1, k)
  OBVIOUS
<1>3. PICK near, set : c = Cache(set, near, 0, <<>>) /\ set \in {<<>>, s}
  BY <1>1, <1>2 DEF Before
<1>4. c.set = set /\ c.out = <<>>
  BY <1>3, CacheFields
<1>5. Ordered(target, <<>>)
  <2>1. <<>> \in Seq(Row(target)) /\ Len(<<>>) = 0
    OBVIOUS
  <2> QED BY <2>1 DEF Ordered, NoTwice
<1>6. Ordered(target, s)
  <2>1. target.list \in Seq(Block) /\ \A i \in 1..k : target.list[i] \in Block
    BY <1>1, TargetList
  <2>2. s \in Seq(Block) /\ Len(s) = k /\ \A i \in 1..k : s[i] = target.list[i]
    BY <1>1, <1>2, <2>1, SubSeqProperties
  <2>3. \A i \in 1..k : s[i] \in Row(target)
    BY <1>1, <2>2 DEF Row
  <2>4. s = [i \in 1..k |-> s[i]]
    BY <2>2
  <2>5. s \in Seq(Row(target))
    BY <2>3, <2>4, AsSequence
  <2>6. NoTwice(s)
    <3> SUFFICES ASSUME NEW i \in 1..k, NEW j \in 1..k, s[i] = s[j] PROVE i = j
      BY <2>2 DEF NoTwice
    <3>1. i \in 1..n /\ j \in 1..n /\ target.list[i] = target.list[j]
      BY <1>1, <2>2
    <3> QED BY <1>1, <3>1, CodeGenAssumption
  <2> QED BY <2>5, <2>6 DEF Ordered
<1> QED BY <1>3, <1>4, <1>5, <1>6 DEF Cold

\* The answers of the code are those of the query whatever blocks of the target the set
\* holds before it runs, and whatever the closer levels do (parser.c:418-665).
MeasuresCold ==
  pc = "done" /\ ~ conf.one =>
    \A c : Cold(target, c) => Answers(c) = Levels(target, Asked(query, Len(query)).out)

\* When the code is whole, it has answered the query.
LEMMA MeantMeasures == MInv => MeasuresCold /\ MeasuresQuery
<1> SUFFICES ASSUME MInv PROVE MeasuresCold /\ MeasuresQuery
  OBVIOUS
<1>1. MeasuresCold
  BY DEF MeasuresCold, MInv, Meant, Matched, Compiled, Answers
<1>2. target \in Targets
  BY DEF MInv, NInv
<1> QED BY <1>1, <1>2, BeforeCold DEF MeasuresCold, MeasuresQuery

\* What the code times is the query: run on a cache of which all or nothing is known,
\* it answers as the target set alone would, for any query, geometry, number of ways
\* and eviction sets the pools give (parser.c:418-665).
THEOREM QueryMeasured == Spec => []MeasuresQuery
BY AlwaysMeant, MeantMeasures, PTL

\* The same from any content of the target set and of the closer levels
\* (parser.c:418-665).
THEOREM ColdMeasured == Spec => []MeasuresCold
BY AlwaysMeant, MeantMeasures, PTL

-----------------------------------------------------------------------------
\* The block of the list at each place of an order, none past k and none the head.
Listed(t, s, k) == \A i \in 1..Len(s) : \E j \in 2..k : s[i] = t.list[j]

\* One block of the list more.
LEMMA ListedMore ==
  ASSUME NEW t \in Targets, NEW k \in 1..(Len(t.list) - 1),
         NEW s \in Seq(Block), NoTwice(s), Listed(t, s, k),
         NEW r, r \in {s, Append(s, t.list[k + 1])}
  PROVE  r \in Seq(Block) /\ NoTwice(r) /\ Listed(t, r, k + 1)
<1>0. PICK n \in Nat \ {0} : n = Len(t.list)
  BY TargetList
<1>1. PICK x \in Block : x = t.list[k + 1]
  BY <1>0, TargetList
<1>2. \A i, j \in 1..n : t.list[i] = t.list[j] => i = j
  BY <1>0, CodeGenAssumption
<1>3. PICK m \in Nat : m = Len(s)
  BY LenProperties
<1>4. \A i \in 1..m : \E j \in 2..k : s[i] = t.list[j]
  BY <1>3 DEF Listed
<1>5. \A i \in 1..m : s[i] # x
  BY <1>0, <1>1, <1>2, <1>4
<1>6. CASE r = s
  <2>1. Listed(t, s, k + 1)
    BY <1>3, <1>4 DEF Listed
  <2> QED BY <1>6, <2>1
<1>7. CASE r = Append(s, x)
  <2>1. r \in Seq(Block) /\ Len(r) = m + 1 /\ r[m + 1] = x /\ \A i \in 1..m : r[i] = s[i]
    BY <1>3, <1>7, AppendProperties
  <2>2. NoTwice(r)
    <3> SUFFICES ASSUME NEW i \in 1..(m + 1), NEW j \in 1..(m + 1), r[i] = r[j] PROVE i = j
      BY <2>1 DEF NoTwice
    <3>1. CASE i \in 1..m /\ j \in 1..m
      BY <1>3, <2>1, <3>1 DEF NoTwice
    <3>2. CASE i = m + 1 \/ j = m + 1
      BY <1>5, <2>1, <3>2
    <3> QED BY <3>1, <3>2
  <2>3. Listed(t, r, k + 1)
    <3> SUFFICES ASSUME NEW i \in 1..(m + 1) PROVE \E j \in 2..(k + 1) : r[i] = t.list[j]
      BY <2>1 DEF Listed
    <3>1. CASE i \in 1..m
      BY <1>4, <2>1, <3>1
    <3>2. CASE i = m + 1
      <4>1. k + 1 \in 2..(k + 1)
        BY <1>0
      <4> QED BY <1>1, <2>1, <3>2, <4>1
    <3> QED BY <3>1, <3>2
  <2> QED BY <2>1, <2>2, <2>3
<1> QED BY <1>1, <1>6, <1>7

\* The rest of the list: blocks of the target, each once, and not its head.
LEMMA OthersAre ==
  ASSUME NEW t \in Targets
  PROVE  Others(t) \in Seq(Block) /\ NoTwice(Others(t)) /\ Listed(t, Others(t), Len(t.list))
<1>0. PICK n \in Nat \ {0} : n = Len(t.list)
  BY TargetList
<1>1. PICK w : KeptTo(t, n, w) /\ Others(t) = w[n]
  BY <1>0, OthersKept
<1> DEFINE Good(k) == w[k] \in Seq(Block) /\ NoTwice(w[k]) /\ Listed(t, w[k], k)
           T == {k \in Nat : k + 1 <= n => Good(k + 1)}
<1>2. 0 \in T
  <2>1. w[1] = <<>>
    BY <1>0, <1>1 DEF KeptTo, Follows, KeptAt
  <2>2. <<>> \in Seq(Block) /\ Len(<<>>) = 0
    OBVIOUS
  <2>3. NoTwice(<<>>) /\ Listed(t, <<>>, 1)
    BY <2>2 DEF NoTwice, Listed
  <2>4. Good(1) /\ 0 + 1 = 1
    BY <2>1, <2>2, <2>3
  <2> HIDE DEF Good
  <2> QED BY <2>4
<1>3. ASSUME NEW k \in Nat, k \in T PROVE k + 1 \in T
  <2> SUFFICES ASSUME (k + 1) + 1 <= n PROVE Good((k + 1) + 1)
    OBVIOUS
  <2> HIDE DEF Good
  <2>1. PICK m \in 1..(n - 1) : m = k + 1
    OBVIOUS
  <2>2. Good(m)
    BY <1>3, <2>1
  <2>3. w[m + 1] \in {w[m], Append(w[m], t.list[m + 1])}
    <3>1. m + 1 \in 1..n /\ m + 1 # 1 /\ (m + 1) - 1 = m
      OBVIOUS
    <3>2. w[m + 1] = KeptAt(t, w, m + 1)
      BY <1>1, <3>1, Zenon DEF KeptTo, Follows
    <3> QED BY <3>1, <3>2 DEF KeptAt
  <2>4. PICK s, r : s = w[m] /\ r = w[m + 1]
    OBVIOUS
  <2>5. s \in Seq(Block) /\ NoTwice(s) /\ Listed(t, s, m)
    BY <2>2, <2>4 DEF Good
  <2>6. r \in Seq(Block) /\ NoTwice(r) /\ Listed(t, r, m + 1)
    <3>1. m \in 1..(Len(t.list) - 1) /\ r \in {s, Append(s, t.list[m + 1])}
      BY <1>0, <2>3, <2>4
    <3> QED BY <2>5, <3>1, ListedMore
  <2> QED BY <2>1, <2>4, <2>6 DEF Good
<1> HIDE DEF T
<1>4. Nat \subseteq T
  BY <1>2, <1>3, Upwards
<1>5. n - 1 \in T /\ (n - 1) + 1 = n
  BY <1>4
<1>6. Good(n)
  BY <1>5 DEF T
<1> QED BY <1>0, <1>1, <1>6

\* So many of them as a miss takes: as many as there are ways at least.
LEMMA Missing ==
  ASSUME NEW t \in Targets, NEW o, o = ForMiss(Others(t))
  PROVE  /\ o \in Seq(Row(t)) /\ NoTwice(o) /\ Len(o) >= Ways
         /\ ~ In(o, Head(t.list))
<1>0. PICK l \in Nat \ {0} : l = Len(t.list)
  BY TargetList
<1>1. PICK s \in Seq(Block) : s = Others(t) /\ NoTwice(s) /\ Listed(t, s, l)
  BY <1>0, OthersAre
<1>2. PICK n \in Nat, k \in Nat : n = Len(s) /\ k = Smaller(EvictSize, n) /\ k <= n /\ k >= Ways
  BY <1>1, LenProperties, CodeGenAssumption, MeaningAssumption DEF Smaller
<1>3. o = SubSeq(s, 1, k)
  BY <1>1, <1>2, Zenon DEF ForMiss
<1>4. o \in Seq(Block) /\ Len(o) = k /\ \A i \in 1..k : o[i] = s[i]
  <2>1. \A i \in 1..k : s[i] \in Block
    BY <1>2
  <2> QED BY <1>2, <1>3, <2>1, SubSeqProperties
<1>5. \A i \in 1..k : \E j \in 2..l : o[i] = t.list[j]
  BY <1>1, <1>2, <1>4 DEF Listed
<1>6. o \in Seq(Row(t))
  <2>1. \A i \in 1..k : o[i] \in Row(t)
    BY <1>0, <1>5 DEF Row
  <2>2. o = [i \in 1..k |-> o[i]]
    BY <1>4
  <2> QED BY <2>1, <2>2, AsSequence
<1>7. NoTwice(o)
  BY <1>1, <1>2, <1>4 DEF NoTwice
<1>8. ~ In(o, Head(t.list))
  <2>1. Head(t.list) = t.list[1] /\ \A i, j \in 1..l : t.list[i] = t.list[j] => i = j
    BY <1>0, RowBlocks, CodeGenAssumption
  <2>2. \A i \in 1..k : o[i] # t.list[1]
    BY <1>0, <1>5, <2>1
  <2>3. DOMAIN o = 1..k
    BY <1>4
  <2> QED BY <2>1, <2>2, <2>3 DEF In
<1> QED BY <1>2, <1>4, <1>6, <1>7, <1>8

-----------------------------------------------------------------------------
\* The most recent blocks are those loaded last, and one more in front of them.
LEMMA Pushed ==
  ASSUME NEW D, NEW s \in Seq(D), NEW x \in D, NEW k \in Nat, NEW N, x \notin N,
         \A i \in 1..Len(s) : i <= k => s[i] \in N, NEW v, v = Touch(s, x)
  PROVE  \A i \in 1..Len(v) : i <= k + 1 => v[i] \in N \cup {x}
<1>1. PICK r : r = Forget(s, x)
  OBVIOUS
<1>2. v[1] = x /\ \A i \in 2..Len(v) : i - 1 \in 1..Len(r) /\ v[i] = r[i-1]
  <2>1. s \in Seq(D) /\ x \in D
    OBVIOUS
  <2>2. /\ Touch(s, x)[1] = x
        /\ \A i \in 2..Len(Touch(s, x)) :
             i - 1 \in 1..Len(Forget(s, x)) /\ Touch(s, x)[i] = Forget(s, x)[i-1]
    BY ONLY <2>1, Touches
  <2> QED BY <1>1, <2>2, Zenon
<1>3. PICK m \in Nat : m = Len(s) /\ DOMAIN s = 1..m
  BY LenProperties
<1>4. \A i \in 1..Len(r) : i <= k => r[i] \in N
  <2>1. CASE ~ In(s, x)
    BY <1>1, <1>3, <2>1 DEF Forget
  <2>2. CASE In(s, x)
    <3>1. PICK p \in 1..m : p = Where(s, x) /\ s[p] = x
      BY <1>3, <2>2, WhereIs
    <3>2. p > k
      BY <1>3, <3>1
    <3>3. Len(r) = m - 1 /\ \A i \in 1..m-1 : r[i] = IF i < p THEN s[i] ELSE s[i+1]
      BY <1>1, <1>3, <2>2, <3>1, Forgets
    <3> SUFFICES ASSUME NEW i \in 1..m-1, i <= k PROVE r[i] \in N
      BY <3>3
    <3>4. r[i] = s[i] /\ i \in 1..m
      BY <3>2, <3>3
    <3> QED BY <1>3, <3>4
  <2> QED BY <2>1, <2>2
<1> SUFFICES ASSUME NEW i \in 1..Len(v), i <= k + 1 PROVE v[i] \in N \cup {x}
  OBVIOUS
<1>5. CASE i = 1
  BY <1>2, <1>5
<1>6. CASE i # 1
  <2>1. Len(v) \in Nat
    BY Touches, LenProperties
  <2>2. i \in 2..Len(v) /\ i - 1 <= k
    BY <1>6, <2>1
  <2>3. i - 1 \in 1..Len(r) /\ v[i] = r[i-1]
    BY <1>2, <2>2
  <2>4. r[i-1] \in N
    BY <1>4, <2>2, <2>3
  <2> QED BY <2>3, <2>4
<1> QED BY <1>5, <1>6

-----------------------------------------------------------------------------
\* The loads of some blocks, one by one.
LEMMA LoadsAre ==
  ASSUME NEW D, NEW o \in Seq(D)
  PROVE  /\ IsCode(Loads(o)) /\ Len(Loads(o)) = Len(o)
         /\ \A k \in 1..Len(o) : Loads(o)[k] = About("load", o[k])
<1>1. PICK n \in Nat : n = Len(o) /\ DOMAIN o = 1..n
  BY LenProperties
<1>2. PICK v : v = [k \in 1..n |-> About("load", o[k])]
  OBVIOUS
<1>3. Loads(o) = v
  BY <1>1, <1>2, Zenon DEF Loads, About
<1> DEFINE R == {About("load", o[k]) : k \in 1..n}
<1>4. \A k \in 1..n : About("load", o[k]) \in R
  OBVIOUS
<1> HIDE DEF R
<1>5. v = [k \in 1..n |-> v[k]] /\ (\A k \in 1..n : v[k] \in R) /\ \A k \in 1..n : v[k] = About("load", o[k])
  BY <1>2, <1>4
<1>6. v \in Seq(R) /\ Len(v) = n
  BY <1>5, AsSequence
<1>7. IsCode(v)
  BY <1>6, SomeCode, Zenon
<1> QED BY <1>1, <1>3, <1>5, <1>6, <1>7

\* The blocks loaded so far.
Recent(o, k) == {o[j] : j \in 1..k}

\* The cache d after the first k loads of o: these are the most recent of the set, and no
\* other block of the target came closer.
Filled(t, c, o, k, d) ==
  /\ d.out = c.out /\ Ordered(t, d.set)
  /\ \A j \in 1..(t.level - 1) : \A x \in Row(t) : x \in d.near[j] => x \in Recent(o, k)
  /\ \A i \in 1..Len(d.set) : i <= k => d.set[i] \in Recent(o, k)
  /\ k >= 1 => Len(d.set) <= Ways

\* One load more.
LEMMA FilledMore ==
  ASSUME NEW t \in Targets, NEW c, NEW o \in Seq(Row(t)), NoTwice(o),
         NEW k \in 0..(Len(o) - 1), NEW d, Filled(t, c, o, k, d),
         NEW e, e = Load(t, d, o[k + 1])
  PROVE  Filled(t, c, o, k + 1, e)
<1>0. PICK n \in Nat : n = Len(o)
  BY LenProperties
<1>1. PICK x \in Row(t) : x = o[k + 1]
  BY <1>0
<1>2. PICK N : N = Recent(o, k)
  OBVIOUS
<1>3. x \notin N
  BY <1>0, <1>1, <1>2 DEF Recent, NoTwice
<1>4. Recent(o, k + 1) = N \cup {x}
  <2>1. 1..(k + 1) = 1..k \cup {k + 1}
    BY <1>0
  <2> QED BY <1>1, <1>2, <2>1 DEF Recent
<1>5. PICK s : s = d.set /\ Ordered(t, s)
  BY DEF Filled
<1>6. Far(t, d, x)
  BY <1>2, <1>3 DEF Filled, Far
<1>7. PICK v : v = Touch(s, x) /\ e.set = v
  <2>1. e = Load(t, d, x)
    BY <1>1
  <2>2. e.set = Touch(d.set, x)
    BY <1>6, <2>1, LoadsAway
  <2> QED BY <1>5, <2>2
<1>8. e.out = d.out /\ \A j \in 1..2 : e.near[j] = d.near[j] \cup {x}
  BY <1>1, LoadKeeps
<1>9. \A j \in 1..(t.level - 1) : j \in 1..2
  BY RowBlocks
<1>10. \A j \in 1..(t.level - 1) : \A y \in Row(t) : y \in e.near[j] => y \in N \cup {x}
  BY <1>2, <1>8, <1>9 DEF Filled
<1>11. Ordered(t, v)
  <2>1. Ordered(t, Touch(s, x))
    BY <1>5, OrderedKept
  <2> QED BY <1>7, <2>1
<1>12. \A i \in 1..Len(v) : i <= k + 1 => v[i] \in N \cup {x}
  <2>1. s \in Seq(Row(t)) /\ k \in Nat
    BY <1>0, <1>5 DEF Ordered
  <2>2. \A i \in 1..Len(s) : i <= k => s[i] \in N
    BY <1>2, <1>5 DEF Filled
  <2> QED BY <1>3, <1>7, <2>1, <2>2, Pushed
<1>13. Len(v) <= Ways
  <2>1. s \in Seq(Row(t)) /\ x \in Row(t)
    BY <1>5 DEF Ordered
  <2>2. Len(Touch(s, x)) <= Ways
    BY ONLY <2>1, Touches
  <2> QED BY <1>7, <2>2
<1> QED BY <1>4, <1>7, <1>8, <1>10, <1>11, <1>12, <1>13 DEF Filled

\* As many loads as the set has ways, of other blocks of the target, leave it without b.
LEMMA LoadsRun ==
  ASSUME NEW t \in Targets, NEW b \in Row(t), NEW o \in Seq(Row(t)), NoTwice(o), ~ In(o, b),
         Len(o) >= Ways, NEW c, Ordered(t, c.set), Away(t, c), NEW d, d = Run(t, c, Loads(o))
  PROVE  d.out = c.out /\ Far(t, d, b) /\ ~ In(d.set, b)
<1>n. PICK n \in Nat : n = Len(o) /\ DOMAIN o = 1..n /\ n >= 1 /\ n >= Ways
  BY LenProperties, MeaningAssumption
<1>0. PICK a : n = Len(o) /\ DOMAIN o = 1..n /\ n >= 1 /\ n >= Ways /\ a = Loads(o)
  BY <1>n
<1>1. Len(a) = n /\ \A k \in 1..n : a[k] = About("load", o[k])
  BY <1>0, LoadsAre
<1>2. PICK w : Steps(t, c, a, n, w)
  BY SomeRun
<1> DEFINE T == {k \in Nat : k <= n => Filled(t, c, o, k, w[k])}
<1>3. 0 \in T
  <2>1. w[0] = c
    BY <1>2 DEF Steps
  <2>2. \A j \in 1..(t.level - 1) : \A x \in Row(t) : x \notin c.near[j]
    BY DEF Away, Far
  <2>3. Filled(t, c, o, 0, c)
    BY <2>2 DEF Filled
  <2> QED BY <2>1, <2>3
<1>4. ASSUME NEW k \in Nat, k \in T PROVE k + 1 \in T
  <2> SUFFICES ASSUME k + 1 <= n PROVE Filled(t, c, o, k + 1, w[k + 1])
    OBVIOUS
  <2>1. k \in 0..(Len(o) - 1) /\ k + 1 \in 1..n /\ (k + 1) - 1 = k
    BY <1>0
  <2>2. PICK g, h : g = w[k] /\ h = w[k + 1]
    OBVIOUS
  <2>3. Filled(t, c, o, k, g)
    BY <1>4, <2>1, <2>2
  <2>4. h = Exec(t, g, About("load", o[k + 1]))
    BY <1>1, <1>2, <2>1, <2>2 DEF Steps
  <2>5. h = Load(t, g, o[k + 1])
    BY <2>4, ExecLoad
  <2>6. Filled(t, c, o, k + 1, h)
    BY <2>1, <2>3, <2>5, FilledMore
  <2> QED BY <2>2, <2>6
<1> HIDE DEF T
<1>5. Nat \subseteq T
  BY <1>3, <1>4, Upwards
<1>6. d = w[n]
  BY <1>0, <1>1, <1>2, RunIs
<1>7. Filled(t, c, o, n, d)
  BY <1>0, <1>5, <1>6 DEF T
<1>8. b \notin Recent(o, n)
  BY <1>0 DEF Recent, In
<1>9. Far(t, d, b)
  BY <1>7, <1>8 DEF Filled, Far
<1>10. ~ In(d.set, b)
  <2>1. PICK m \in Nat : m = Len(d.set) /\ DOMAIN d.set = 1..m
    BY <1>7, LenProperties DEF Filled, Ordered
  <2>2. Ways \in Nat /\ m <= Ways
    BY <1>0, <1>7, <2>1, MeaningAssumption DEF Filled
  <2>3. \A i \in 1..m : d.set[i] \in Recent(o, n)
    BY <1>0, <1>7, <2>1, <2>2 DEF Filled
  <2> QED BY <1>8, <2>1, <2>3 DEF In
<1> QED BY <1>7, <1>9, <1>10 DEF Filled

-----------------------------------------------------------------------------
\* Two and four instructions.
LEMMA RunTwo ==
  ASSUME NEW t, NEW c, NEW x, NEW y
  PROVE  Run(t, c, <<x, y>>) = Exec(t, Exec(t, c, x), y)
<1>0. Len(<<x, y>>) = 2 /\ <<x, y>>[1] = x /\ <<x, y>>[2] = y
  OBVIOUS
<1>1. PICK s : s = <<x, y>> /\ Len(s) = 2 /\ s[1] = x /\ s[2] = y
  BY <1>0, Zenon
<1>2. PICK d1, d2 : d1 = Exec(t, c, x) /\ d2 = Exec(t, d1, y)
  OBVIOUS
<1> DEFINE w == [k \in 0..2 |-> IF k = 0 THEN c ELSE IF k = 1 THEN d1 ELSE d2]
<1>3. w[0] = c /\ w[1] = d1 /\ w[2] = d2
  OBVIOUS
<1> HIDE DEF w
<1>4. \A k \in 1..2 : (k = 1 /\ k - 1 = 0) \/ (k = 2 /\ k - 1 = 1)
  OBVIOUS
<1>5. Steps(t, c, s, 2, w)
  BY <1>1, <1>2, <1>3, <1>4 DEF Steps
<1>6. Run(t, c, s) = w[2]
  BY <1>1, <1>5, RunIs
<1> QED BY <1>1, <1>2, <1>3, <1>6, Zenon

\* Four instructions.
LEMMA RunFour ==
  ASSUME NEW t, NEW c, NEW x, NEW y, NEW z, NEW u
  PROVE  Run(t, c, <<x, y, z, u>>) = Exec(t, Exec(t, Exec(t, Exec(t, c, x), y), z), u)
<1>0. /\ Len(<<x, y, z, u>>) = 4 /\ <<x, y, z, u>>[1] = x /\ <<x, y, z, u>>[2] = y
      /\ <<x, y, z, u>>[3] = z /\ <<x, y, z, u>>[4] = u
  OBVIOUS
<1>1. PICK s : s = <<x, y, z, u>> /\ Len(s) = 4 /\ s[1] = x /\ s[2] = y /\ s[3] = z /\ s[4] = u
  BY <1>0, Zenon
<1>2. PICK d1, d2, d3, d4 : d1 = Exec(t, c, x) /\ d2 = Exec(t, d1, y) /\ d3 = Exec(t, d2, z) /\ d4 = Exec(t, d3, u)
  OBVIOUS
<1> DEFINE w == [k \in 0..4 |-> IF k = 0 THEN c ELSE IF k = 1 THEN d1 ELSE IF k = 2 THEN d2
                               ELSE IF k = 3 THEN d3 ELSE d4]
<1>3. w[0] = c /\ w[1] = d1 /\ w[2] = d2 /\ w[3] = d3 /\ w[4] = d4
  OBVIOUS
<1> HIDE DEF w
<1>4. \A k \in 1..4 : \/ k = 1 /\ k - 1 = 0
                      \/ k = 2 /\ k - 1 = 1
                      \/ k = 3 /\ k - 1 = 2
                      \/ k = 4 /\ k - 1 = 3
  OBVIOUS
<1>5. Steps(t, c, s, 4, w)
  BY <1>1, <1>2, <1>3, <1>4 DEF Steps
<1>6. Run(t, c, s) = w[4]
  BY <1>1, <1>5, RunIs
<1> QED BY <1>1, <1>2, <1>3, <1>6, Zenon

\* The first load of the head, from memory, puts it in front.
LEMMA FirstRun ==
  ASSUME NEW t \in Targets, NEW b \in Row(t), NEW c, Ordered(t, c.set),
         NEW d, d = Run(t, c, <<About("flush", b), About("load", b)>>)
  PROVE  d.out = c.out /\ Ordered(t, d.set) /\ In(d.set, b)
<1>1. PICK x, y : x = About("flush", b) /\ y = About("load", b)
  OBVIOUS
<1>2. PICK g : g = Exec(t, c, x)
  OBVIOUS
<1>3. d = Load(t, g, b)
  <2>1. Run(t, c, <<x, y>>) = Exec(t, Exec(t, c, x), y)
    BY RunTwo
  <2>2. Exec(t, g, y) = Load(t, g, b)
    BY <1>1, ExecLoad
  <2> QED BY <1>1, <1>2, <2>1, <2>2, Zenon
<1>4. g.set = Forget(c.set, b) /\ g.out = c.out /\ \A k \in 1..2 : g.near[k] = c.near[k] \ {b}
  BY <1>1, <1>2, ExecFlush
<1>5. PICK s : s = g.set /\ Ordered(t, s)
  BY <1>4, OrderedKept
<1>6. Far(t, g, b)
  <2>1. \A k \in 1..(t.level - 1) : k \in 1..2
    BY RowBlocks
  <2> QED BY <1>4, <2>1 DEF Far
<1>7. d.set = Touch(g.set, b)
  BY <1>3, <1>6, LoadsAway
<1>8. d.out = g.out
  BY <1>3, LoadKeeps
<1>9. Ordered(t, Touch(s, b)) /\ In(Touch(s, b), b)
  <2>1. s \in Seq(Row(t)) /\ NoTwice(s)
    BY <1>5 DEF Ordered
  <2> QED BY <1>5, <2>1, OrderedKept, TouchesMember
<1> QED BY <1>4, <1>5, <1>7, <1>8, <1>9

\* The load that is timed, of a block that no closer level holds.
LEMMA LastRun ==
  ASSUME NEW t \in Targets, NEW b \in Row(t), NEW c, Far(t, c, b), c.out = <<>>,
         NEW d, d = Run(t, c, <<Op("pre", {}), About("load", b), Op("post", {}), Op("ret", {})>>)
  PROVE  d.out = <<IF In(c.set, b) THEN t.level ELSE 0>>
<1>1. PICK x, y, z, u : x = Op("pre", {}) /\ y = About("load", b) /\ z = Op("post", {}) /\ u = Op("ret", {})
  OBVIOUS
<1>2. PICK g : g = Load(t, c, b)
  OBVIOUS
<1>3. PICK e : e = Exec(t, g, z)
  OBVIOUS
<1>7. d = e
  <2>1. Exec(t, c, x) = c
    BY <1>1, ExecOther
  <2>2. Exec(t, c, y) = g
    BY <1>1, <1>2, ExecLoad
  <2>3. Run(t, c, <<x, y, z, u>>) = Exec(t, Exec(t, Exec(t, Exec(t, c, x), y), z), u)
    BY RunFour
  <2>4. Exec(t, e, u) = e
    BY <1>1, ExecOther
  <2> QED BY <1>1, <1>3, <2>1, <2>2, <2>3, <2>4, Zenon
<1>8. e.out = Append(g.out, g.last)
  BY <1>1, <1>3, ExecPost
<1>9. g.out = c.out /\ g.last = IF In(c.set, b) THEN t.level ELSE 0
  BY <1>2, LoadKeeps, LoadsAway
<1>10. PICK l : l = IF In(c.set, b) THEN t.level ELSE 0
  OBVIOUS
<1>11. d.out = Append(<<>>, l)
  BY <1>7, <1>8, <1>9, <1>10
<1>12. Append(<<>>, l) = <<l>>
  OBVIOUS
<1> QED BY <1>10, <1>11, <1>12

-----------------------------------------------------------------------------
\* The code of a calibration times a load that its name says, from any cold cache.
LEMMA CalibrationRun ==
  ASSUME NEW t \in Targets, NEW miss \in BOOLEAN, NEW E1, NEW E2, EvictedBy(t, E1, E2),
         NEW X1, NEW X2, Empties(t, X1, X2), NEW c, Cold(t, c)
  PROVE  Run(t, c, CalibrationCode(t, miss, E1, E2, X1, X2)).out = <<IF miss THEN 0 ELSE t.level>>
<1>b. PICK b \in Row(t) : b = Head(t.list)
  BY RowBlocks
<1>1. PICK o : b = Head(t.list) /\ o = ForMiss(Others(t))
  BY <1>b
<1>2. o \in Seq(Row(t)) /\ NoTwice(o) /\ Len(o) >= Ways /\ ~ In(o, b)
  BY <1>1, Missing
<1>3. PICK c1, c2, c3, c4, c5 :
        /\ c1 = <<About("flush", b), About("load", b)>>
        /\ c2 = Evicting("evict1", E1, X1) /\ c3 = Evicting("evict2", E2, X2)
        /\ c4 = IF miss THEN Loads(o) ELSE <<>>
        /\ c5 = <<Op("pre", {}), About("load", b), Op("post", {}), Op("ret", {})>>
  OBVIOUS
<1>4. CalibrationCode(t, miss, E1, E2, X1, X2) = (((c1 \o c2) \o c3) \o c4) \o c5
  BY <1>1, <1>3, Zenon DEF CalibrationCode, Evicting, About
<1>5. IsCode(c1) /\ IsCode(c2) /\ IsCode(c3) /\ IsCode(c4) /\ IsCode(c5)
  <2>1. \A x, y : IsCode(<<x, y>>)
    <3> SUFFICES ASSUME NEW x, NEW y PROVE IsCode(<<x, y>>)
      OBVIOUS
    <3>1. <<x, y>> \in Seq({x, y})
      OBVIOUS
    <3> QED BY <3>1, SomeCode, Zenon
  <2>2. \A x, y, z, u : IsCode(<<x, y, z, u>>)
    <3> SUFFICES ASSUME NEW x, NEW y, NEW z, NEW u PROVE IsCode(<<x, y, z, u>>)
      OBVIOUS
    <3>1. <<x, y, z, u>> \in Seq({x, y, z, u})
      OBVIOUS
    <3> QED BY <3>1, SomeCode, Zenon
  <2>3. IsCode(c2) /\ IsCode(c3)
    BY <1>3, RunEvicting
  <2>4. IsCode(Loads(o)) /\ IsCode(<<>>)
    BY <1>2, LoadsAre, Nothing, Zenon
  <2> QED BY <1>3, <2>1, <2>2, <2>3, <2>4, Zenon
<1>6. PICK d1, d3, d4, d5 : d1 = Run(t, c, c1) /\ d3 = Run(t, Run(t, d1, c2), c3)
                            /\ d4 = Run(t, d3, c4) /\ d5 = Run(t, d4, c5)
  OBVIOUS
<1>7. Run(t, c, (((c1 \o c2) \o c3) \o c4) \o c5) = d5
  <2>1. IsCode(c1 \o c2) /\ IsCode((c1 \o c2) \o c3)
    BY <1>5, Joined, Zenon
  <2>2. IsCode(((c1 \o c2) \o c3) \o c4)
    BY <1>5, <2>1, Joined, Zenon
  <2>3. Run(t, c, c1 \o c2) = Run(t, d1, c2)
    BY <1>5, <1>6, RunJoined
  <2>4. Run(t, c, (c1 \o c2) \o c3) = d3
    BY <1>5, <1>6, <2>1, <2>3, RunJoined
  <2>5. Run(t, c, ((c1 \o c2) \o c3) \o c4) = d4
    BY <1>5, <1>6, <2>1, <2>4, RunJoined
  <2> QED BY <1>5, <1>6, <2>2, <2>5, RunJoined
<1>8. d1.out = <<>> /\ Ordered(t, d1.set) /\ In(d1.set, b)
  <2>1. Ordered(t, c.set) /\ c.out = <<>>
    BY DEF Cold
  <2>2. d1 = Run(t, c, <<About("flush", b), About("load", b)>>)
    BY <1>3, <1>6
  <2> QED BY <2>1, <2>2, FirstRun
<1>9. d3.set = d1.set /\ d3.out = d1.out /\ Away(t, d3)
  BY <1>3, <1>6, SweptRun
<1>10. d4.out = <<>> /\ Far(t, d4, b) /\ (In(d4.set, b) <=> ~ miss)
  <2>1. CASE miss
    <3>1. d4 = Run(t, d3, Loads(o))
      BY <1>3, <1>6, <2>1
    <3>2. Ordered(t, d3.set)
      BY <1>8, <1>9
    <3>3. d4.out = d3.out /\ Far(t, d4, b) /\ ~ In(d4.set, b)
      BY <1>2, <1>9, <3>1, <3>2, LoadsRun
    <3> QED BY <1>8, <1>9, <2>1, <3>3
  <2>2. CASE ~ miss
    <3>1. d4 = Run(t, d3, <<>>)
      BY <1>3, <1>6, <2>2
    <3>2. d4 = d3
      BY <3>1, RunNone
    <3> QED BY <1>8, <1>9, <2>2, <3>2 DEF Away
  <2> QED BY <2>1, <2>2
<1>11. d5.out = <<IF In(d4.set, b) THEN t.level ELSE 0>>
  <2>1. d5 = Run(t, d4, <<Op("pre", {}), About("load", b), Op("post", {}), Op("ret", {})>>)
    BY <1>3, <1>6
  <2> QED BY <1>10, <2>1, LastRun
<1>12. (IF In(d4.set, b) THEN t.level ELSE 0) = (IF miss THEN 0 ELSE t.level)
  BY <1>10
<1> QED BY <1>4, <1>7, <1>11, <1>12

-----------------------------------------------------------------------------
\* What a calibration evicts with is enough, though nothing is banned.
LEMMA EnoughToCalibrate ==
  ASSUME NEW t \in Targets, NEW E1 \in Evict1Of(t),
         NEW E2, t.level \in {1, 2} => E2 = {},
         t.level = 3 => E2 \in Capped(Candidates2(Head(t.list)), MARGIN * EV2),
         NEW X1 \in Capped({x \in E1 : Apart(1, x, Head(t.list))}, EV1),
         NEW X2 \in Capped({x \in E2 : Loc(x) # Loc(Head(t.list))}, EV2)
  PROVE  EvictedBy(t, E1, E2) /\ Empties(t, X1, X2)
<1>1. PICK h \in Block : h = Head(t.list)
  BY RowBlocks
<1>2. PICK a : a \in CodeAreas
  BY CodeGenAssumption
<1>3. PICK m1 \in Nat \ {0}, m2 \in Nat \ {0} : m1 = EV1 /\ m2 = EV2
  BY CodeGenAssumption
<1>4. t.level \in {1, 2, 3}
  BY RowBlocks
<1>5. IsFiniteSet(Candidates1(h)) /\ IsFiniteSet(Candidates2(h))
  <2>1. Candidates1(h) \in SUBSET Block /\ Candidates2(h) \in SUBSET Block
    BY CodeGenAssumption DEF Candidates1, Candidates2
  <2>2. IsFiniteSet(Block)
    BY MeaningAssumption
  <2> QED BY <2>1, <2>2, FS_Subset
<1>6. t.level = 1 => E1 = {}
  BY DEF Evict1Of
<1>7. ASSUME t.level \in {2, 3}
      PROVE  E1 # {} /\ X1 \subseteq Candidates1(h) /\ Cardinality(X1) >= EV1
  <2>1. E1 \in SUBSET Candidates1(h)
    BY <1>1, <1>7 DEF Evict1Of, Capped
  <2>2. {x \in E1 : Apart(1, x, h)} = E1
    BY <2>1 DEF Apart, Candidates1
  <2>3. X1 \in Capped(E1, EV1)
    BY <1>1, <2>2
  <2>4. PICK F \in SUBSET E1 : Cardinality(F) >= m1
    <3>1. Cardinality(Free1(a, E1)) >= m1
      BY <1>2, <1>3, <1>7, MeaningAssumption
    <3> QED BY <3>1 DEF Free1
  <2>5. IsFiniteSet(E1)
    BY <1>5, <2>1, FS_Subset
  <2>6. X1 \subseteq E1 /\ Cardinality(X1) >= m1
    <3>1. m1 \in Nat /\ m1 >= m1 /\ X1 \in Capped(E1, m1)
      BY <1>3, <2>3
    <3> QED BY <2>4, <2>5, <3>1, CappedSize
  <2>7. E1 # {}
    <3>1. E1 = {} => X1 = {}
      BY <2>6
    <3> QED BY <1>3, <2>6, <3>1, FS_EmptySet
  <2> QED BY <1>3, <2>1, <2>6, <2>7
<1>8. ASSUME t.level = 3
      PROVE  E2 # {} /\ X2 \subseteq Candidates2(h) /\ Cardinality(X2) >= EV2
  <2>1. E2 \in SUBSET Candidates2(h)
    BY <1>1, <1>8 DEF Capped
  <2>2. {x \in E2 : Loc(x) # Loc(h)} = E2
    BY <2>1 DEF Candidates2
  <2>3. X2 \in Capped(E2, EV2)
    BY <1>1, <2>2
  <2>4. PICK F \in SUBSET E2 : Cardinality(F) >= m2
    <3>1. Cardinality(Free2(t, a, E2)) >= m2
      BY <1>2, <1>3, <1>8, MeaningAssumption
    <3> QED BY <3>1 DEF Free2
  <2>5. IsFiniteSet(E2)
    BY <1>5, <2>1, FS_Subset
  <2>6. X2 \subseteq E2 /\ Cardinality(X2) >= m2
    <3>1. m2 \in Nat /\ m2 >= m2 /\ X2 \in Capped(E2, m2)
      BY <1>3, <2>3
    <3> QED BY <2>4, <2>5, <3>1, CappedSize
  <2>7. E2 # {}
    <3>1. E2 = {} => X2 = {}
      BY <2>6
    <3> QED BY <1>3, <2>6, <3>1, FS_EmptySet
  <2> QED BY <1>3, <2>1, <2>6, <2>7
<1>9. EvictedBy(t, E1, E2)
  BY <1>4, <1>6, <1>7, <1>8 DEF EvictedBy
<1>10. Empties(t, X1, X2)
  BY <1>1, <1>7, <1>8 DEF Empties
<1> QED BY <1>9, <1>10

-----------------------------------------------------------------------------
\* The code of a calibration times what its name says, whatever blocks of the target the
\* set holds before it and whatever the closer levels do (main.c:366-474).
CalibrationCold ==
  pc \in {"hit", "miss"} =>
    \A c : Cold(target, c) => Answers(c) = <<IF pc = "miss" THEN 0 ELSE target.level>>

\* A calibration starts with no code.
LEMMA CalibrateMeant ==
  ASSUME MInv, NEW t \in Targets, NEW miss \in BOOLEAN, Calibrate(t, miss)
  PROVE  CalibrationCold'
<1>1. pc = "idle" /\ target' = t /\ evict2' \in Evict2Of(t) /\ UNCHANGED evict1
  BY DEF Calibrate
<1>2. PICK E1, E2 : E1 = evict1[t] /\ E2 = IF t \in DOMAIN evict2' THEN evict2'[t] ELSE {}
  OBVIOUS
<1>3. PICK then : then = IF miss THEN "miss" ELSE "hit"
  OBVIOUS
<1>4. PICK X1 \in Capped({x \in E1 : Apart(1, x, Head(t.list))}, EV1),
           X2 \in Capped({x \in E2 : Loc(x) # Loc(Head(t.list))}, EV2) :
        Emit(CalibrationCode(t, miss, E1, E2, X1, X2), then)
  BY <1>2, <1>3, Zenon DEF Calibrate
<1>5. pc' \in {then, "err"}
  BY <1>3, <1>4 DEF Emit
<1>6. Pools'
  <2>1. pc' \notin Compiling
    BY <1>3, <1>5 DEF Compiling
  <2> QED BY <1>1, <2>1, PoolsFound DEF MInv
<1>7. /\ E1 \in Evict1Of(t) /\ (t.level \in {1, 2} => E2 = {})
      /\ t.level = 3 => E2 \in Capped(Candidates2(Head(t.list)), MARGIN * EV2)
  <2>1. E1 \in Evict1Of(t)
    BY <1>1, <1>2 DEF MInv, Pools
  <2>2. t.level \in {1, 2} => E2 = {}
    BY <1>2, <1>6 DEF Pools
  <2>3. t.level = 3 => t \in DOMAIN evict2'
    BY <1>1 DEF Evict2Of, With
  <2>4. t.level = 3 => E2 \in Capped(Candidates2(Head(t.list)), MARGIN * EV2)
    BY <1>2, <1>6, <2>3 DEF Pools
  <2> QED BY <2>1, <2>2, <2>4
<1>8. EvictedBy(t, E1, E2) /\ Empties(t, X1, X2)
  BY <1>4, <1>7, EnoughToCalibrate
<1>9. PICK o, ins : o = code /\ ins = CalibrationCode(t, miss, E1, E2, X1, X2)
  OBVIOUS
<1>10. IsCode(ins) /\ IsCode(o) /\ Len(code) <= Limit /\ o = <<>>
  BY <1>1, <1>9, CalibrationIsCode DEF MInv, GInv, Typed, TypeOK, Progress
<1>11. pc' # "err" => code' = o \o ins
  BY <1>4, <1>9, <1>10, Emitted
<1>12. \A c : Run(t, c, o \o ins) = Run(t, c, ins)
  BY <1>10, RunJoined, RunNone
<1>13. pc' # "err" => (pc' = "miss" <=> miss)
  BY <1>3, <1>5
<1> SUFFICES ASSUME pc' # "err", NEW c, Cold(t, c)
             PROVE  Run(t, c, code').out = <<IF miss THEN 0 ELSE t.level>>
  BY <1>1, <1>13 DEF CalibrationCold, Answers
<1>14. Run(t, c, ins).out = <<IF miss THEN 0 ELSE t.level>>
  BY <1>8, <1>9, CalibrationRun
<1> QED BY <1>11, <1>12, <1>14

\* No other step leaves code of a calibration.
LEMMA StepCalibration == MInv /\ CalibrationCold /\ [Next]_vars => CalibrationCold'
<1> SUFFICES ASSUME MInv, CalibrationCold, [Next]_vars PROVE CalibrationCold'
  OBVIOUS
<1>1. ASSUME NEW t \in Targets, NEW q \in Queries, NEW c \in Confs, Begin(t, q, c) PROVE CalibrationCold'
  BY <1>1 DEF Begin, CalibrationCold
<1>2. ASSUME NEW t \in Targets, NEW q \in Queries, NoPages(t, q) PROVE CalibrationCold'
  BY <1>2 DEF NoPages, CalibrationCold
<1>3. ASSUME NEW t \in Targets, NEW miss \in BOOLEAN, Calibrate(t, miss) PROVE CalibrationCold'
  BY <1>3, CalibrateMeant
<1>4. CASE Known \/ \E i \in next..Len(target.list) : Choose(i)
  <2>1. pc = "assign" /\ Advance("prime")
    BY <1>4 DEF Known, Choose
  <2> QED BY <2>1 DEF Advance, CalibrationCold
<1>5. CASE Exhausted \/ Free
  BY <1>5 DEF Exhausted, Free, Forgotten, CalibrationCold
<1>6. CASE Prime \/ End
  BY <1>6 DEF Prime, End, Emit, CalibrationCold
<1>7. CASE Flush \/ Access
  <2>1. \E ins : Continue(ins)
    BY <1>7 DEF Flush, Access
  <2> QED BY <2>1 DEF Continue, Emit, CalibrationCold
<1>8. CASE UNCHANGED vars
  BY <1>8 DEF vars, inputs, CalibrationCold, Answers
<1> QED BY <1>1, <1>2, <1>3, <1>4, <1>5, <1>6, <1>7, <1>8 DEF Next

\* Both calibrations, from every cold cache.
LEMMA AlwaysCalibrated == Spec => [](MInv /\ CalibrationCold)
<1>1. Init => CalibrationCold
  BY DEF Init, CalibrationCold
<1> QED BY AlwaysMeant, <1>1, StepCalibration, PTL DEF Spec

\* From all or nothing, as from any cold cache.
LEMMA ColdCalibrates == MInv /\ CalibrationCold => CalibrationMeasures
<1> SUFFICES ASSUME MInv, CalibrationCold PROVE CalibrationMeasures
  OBVIOUS
<1>1. target \in Targets
  BY DEF MInv, NInv
<1> QED BY <1>1, BeforeCold DEF CalibrationCold, CalibrationMeasures

\* A threshold is calibrated on what its name says: the load that a hit calibration
\* times is served by the level under test, that of a miss calibration by none up to it
\* (main.c:366-474).
THEOREM CalibrationMeasured == Spec => []CalibrationMeasures
BY AlwaysCalibrated, ColdCalibrates, PTL

\* The same from any content of the target set and of the closer levels
\* (main.c:366-474).
THEOREM ColdCalibrated == Spec => []CalibrationCold
BY AlwaysCalibrated, PTL
=============================================================================
