----------------------------- MODULE CodeMeaning -----------------------------
(***************************************************************************)
(* What the code of CodeGen does when it runs, on an abstract cache whose  *)
(* target set follows LRU with Ways ways, and what the user asked for: the *)
(* same query on a set of its own that starts empty.                       *)
(***************************************************************************)
EXTENDS CodeGen

CONSTANT Ways

\* The blocks of an eviction set that neither the code nor a leader set bans.
OffCode(a, x) == L3Index(x) # Or(a[1][1], a[1][2])
Free1(a, X) == {x \in X : OffCode(a, x) /\ Set2(x) # a[1][1] % S2 /\ Loc(x) \notin Leader}
Free2(t, a, X) == {x \in X : OffCode(a, x) /\ (Loc(x) \notin Leader \/ Loc(Head(t.list)) \in Leader)}

\* What the pools are made large enough for (MARGIN, settings.h:36-67): every eviction
\* set has blocks left to evict with, every list those that a miss takes.  A thrash set is
\* not one that is queried.
ASSUME MeaningAssumption ==
  /\ IsFiniteSet(Block) /\ S2 % S1 = 0
  /\ Ways \in Nat \ {0} /\ Ways <= EvictSize
  /\ \A t \in Targets :
       /\ Ways <= Len(Others(t))
       /\ t.level > 1 => \A a \in CodeAreas, X \in Evict1Of(t) : Cardinality(Free1(a, X)) >= EV1
       /\ t.level = 3 =>
            /\ \A a \in CodeAreas, X \in Capped(Candidates2(Head(t.list)), MARGIN * EV2) :
                  Cardinality(Free2(t, a, X)) >= EV2
            /\ \A x \in Thrash : ~ Congruent(3, x, Head(t.list))

-----------------------------------------------------------------------------
\* Recency orders, most recent first: without b, and with b in front.
In(s, b) == \E i \in DOMAIN s : s[i] = b
Where(s, b) == CHOOSE i \in {j \in DOMAIN s : s[j] = b} : TRUE
Forget(s, b) ==
  IF In(s, b) THEN [i \in 1..Len(s)-1 |-> IF i < Where(s, b) THEN s[i] ELSE s[i+1]] ELSE s
Touch(s, b) ==
  [i \in 1..Smaller(Ways, Len(Forget(s, b)) + 1) |-> IF i = 1 THEN b ELSE Forget(s, b)[i-1]]

\* The cache as far as the target set is concerned: its content, most recent
\* first; the blocks that closer levels hold; the level the last load was
\* served from, 0 being memory; those of the profiled loads.
Cache(set, near, last, out) == [set |-> set, near |-> near, last |-> last, out |-> out]

\* The closest level that holds b, 0 if it comes from memory or a farther level.
ServedBy(t, c, b) ==
  LET near == {k \in 1..t.level-1 : b \in c.near[k]}
  IN  IF near # {} THEN CHOOSE k \in near : \A j \in near : k <= j
      ELSE IF In(c.set, b) THEN t.level ELSE 0

Load(t, c, b) ==
  Cache(IF ServedBy(t, c, b) \in 1..t.level-1 THEN c.set ELSE Touch(c.set, b),
        [k \in 1..2 |-> c.near[k] \cup {b}], ServedBy(t, c, b), c.out)

\* Loads of blocks X that are meant to empty the set of level k that X shares;
\* n of them do.  A block of the target set among them disturbs its content.
Sweep(t, c, X, k, n) ==
  Cache(IF \E x \in X : Congruent(t.level, x, Head(t.list)) THEN <<>> ELSE c.set,
        [j \in 1..2 |-> IF j = k /\ Cardinality(X) >= n
                        THEN {b \in c.near[j] : \A x \in X : ~ Congruent(k, b, x)} ELSE c.near[j]],
        c.last, c.out)

\* The block of an instruction about one.
On(i) == CHOOSE b \in i.on : TRUE

Exec(t, c, i) ==
  CASE i.op = "prime"  -> Load(t, Load(t, Load(t, c, On(i)), On(i)), On(i))
    [] i.op = "load"   -> Load(t, c, On(i))
    [] i.op = "flush"  -> Cache(Forget(c.set, On(i)), [k \in 1..2 |-> c.near[k] \ {On(i)}], c.last, c.out)
    [] i.op = "wbinvd" -> Cache(<<>>, [k \in 1..2 |-> {}], c.last, c.out)
    [] i.op = "evict1" -> Sweep(t, c, i.on, 1, EV1)
    [] i.op = "evict2" -> Sweep(t, c, i.on, 2, EV2)
    [] i.op = "thrash" -> Sweep(t, c, i.on, 2, Cardinality(Block) + 1)
    [] i.op = "post"   -> Cache(c.set, c.near, c.last, Append(c.out, c.last))
    [] OTHER           -> c

\* The cache after some code.
Run(t, c, ins) ==
  LET after[k \in 0..Len(ins)] == IF k = 0 THEN c ELSE Exec(t, after[k-1], ins[k])
  IN  after[Len(ins)]

\* Before the code runs nothing is known of the cache: here, all or nothing.
Before == {Cache(<<>>, [k \in 1..2 |-> X], 0, <<>>) : X \in {{}, Block}}
          \cup {Cache(SubSeq(target.list, 1, Smaller(Ways, Len(target.list))), [k \in 1..2 |-> {}], 0, <<>>)}

Answers(c) == Run(target, c, code).out

-----------------------------------------------------------------------------
\* The query on an LRU set of its own, by name: the set, and for each "name?" if it hit.
AskStep(a, e) ==
  CASE e.kind = "inv"   -> [set |-> <<>>, out |-> a.out]
    [] e.kind = "flush" -> [set |-> Forget(a.set, e.id), out |-> a.out]
    [] OTHER -> [set |-> Touch(a.set, e.id),
                 out |-> IF e.kind = "ask" THEN Append(a.out, In(a.set, e.id)) ELSE a.out]

\* After the first n elements.
Asked(q, n) ==
  LET after[k \in 0..Len(q)] == IF k = 0 THEN [set |-> <<>>, out |-> <<>>] ELSE AskStep(after[k-1], q[k])
  IN  after[n]

\* The levels of the first AskMax answers.
Levels(t, hits) == [k \in 1..Smaller(AskMax, Len(hits)) |-> IF hits[k] THEN t.level ELSE 0]

-----------------------------------------------------------------------------
\* Running the code on any cache measures the query on the target set alone:
\* every profiled load is served by the target level on a hit and by a farther
\* one on a miss, never by a closer one, whatever the priming, the evictions
\* and the thrash set load in between (parser.c:418-665).
MeasuresQuery ==
  pc = "done" /\ ~ conf.one =>
    \A c \in Before : Answers(c) = Levels(target, Asked(query, Len(query)).out)

\* A threshold is calibrated on what its name says: with any cache before it,
\* the timed load of a hit calibration is served by the level under test, not
\* by a closer one, and that of a miss calibration by no level up to that one
\* (main.c:366-474).
CalibrationMeasures ==
  pc \in {"hit", "miss"} =>
    \A c \in Before : Answers(c) = <<IF pc = "miss" THEN 0 ELSE target.level>>
=============================================================================
