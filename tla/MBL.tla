--------------------------------- MODULE MBL ---------------------------------
(***************************************************************************)
(* MemBlockLang: how cachequery.py turns a line into the texts it writes   *)
(* to a run file.  A line is a sequence of items (the trees of the         *)
(* grammar), an item a group with an optional power and an optional tag,   *)
(* or "!".  The transformer works bottom up and from left to right.        *)
(***************************************************************************)
EXTENDS Naturals, SequencesExt

CONSTANTS
  Alphabet,       \* the identifiers '@' and '_' take, in order
  Ways            \* the associativity of the target

\* seq is a block or (...), par is [...], expand is '@', unfold is '_'.  A power
\* that is there is <<n>>, a tag that is there "?" or "!".
Item(kind, names, power, tag) == [kind |-> kind, names |-> names, power |-> power, tag |-> tag]
Wbinvd == Item("inv", <<>>, <<>>, "")

Element(kind, id) == [kind |-> kind, id |-> id]
KindOf(tag) == CASE tag = "?" -> "ask" [] tag = "!" -> "flush" [] OTHER -> "access"

-----------------------------------------------------------------------------
\* alphabet[:ways]
Macro == SubSeq(Alphabet, 1, IF Ways < Len(Alphabet) THEN Ways ELSE Len(Alphabet))

Names(item) == IF item.kind \in {"expand", "unfold"} THEN Macro ELSE item.names

\* A name that is new to the line goes to the end of dir.
\* Mutant: every name does.
Trans_Append(dir, x) == Append(dir, x)
Trans(dir, x) == IF Contains(dir, x) THEN dir ELSE Append(dir, x)

Directory(line) ==
  FoldLeft(Trans, <<>>, FlattenSeq([i \in DOMAIN line |-> Names(line[i])]))

\* dir.index
Number(dir, x) == SelectInSeq(dir, LAMBDA y : y = x) - 1

\* A sequence of queries for each group.
Singletons(s) == [i \in DOMAIN s |-> <<s[i]>>]
Groups(item) ==
  IF item.kind \in {"par", "unfold"} THEN Singletons(Names(item)) ELSE <<Names(item)>>

Modify(dir, item) ==
  LET tagged(s) == [k \in DOMAIN s |-> Element(KindOf(item.tag), Number(dir, s[k]))]
  IN  [i \in DOMAIN Groups(item) |-> tagged(Groups(item)[i])]

\* With a power everything becomes one query, the alternatives of '_' too.
ModifyPower(dir, item) ==
  <<FlattenSeq([k \in 1..item.power[1] |-> FlattenSeq(Modify(dir, item))])>>

Trace(dir, item) ==
  CASE item = Wbinvd         -> <<<<Element("inv", 0)>>>>
    [] item.power # <<>>     -> ModifyPower(dir, item)
    [] OTHER                 -> Modify(dir, item)

\* Every query so far, extended by each of the next item's.
\* Mutant: in front instead of behind.
Concat_Before(traces, queries) ==
  FlattenSeq([i \in DOMAIN traces |-> [j \in DOMAIN queries |-> queries[j] \o traces[i]]])
Concat(traces, queries) ==
  FlattenSeq([i \in DOMAIN traces |-> [j \in DOMAIN queries |-> traces[i] \o queries[j]]])

Queries(line) ==
  LET dir == Directory(line)
  IN  FoldLeft(Concat, <<<<>>>>, [i \in DOMAIN line |-> Trace(dir, line[i])])

-----------------------------------------------------------------------------
Digit == <<"0", "1", "2", "3", "4", "5", "6", "7", "8", "9">>

\* str of a number.
Decimal[n \in Nat] ==
  IF n < 10 THEN <<Digit[n + 1]>> ELSE Append(Decimal[n \div 10], Digit[(n % 10) + 1])

\* out: "_0" goes behind each number; the text ends with a newline.
\* Mutant: the tag is lost.
Spelled_Untagged(e) == IF e.kind = "inv" THEN <<"!">> ELSE Decimal[e.id] \o <<"_", "0">>
Spelled(e) ==
  CASE e.kind = "inv"    -> <<"!">>
    [] e.kind = "access" -> Decimal[e.id] \o <<"_", "0">>
    [] e.kind = "ask"    -> Decimal[e.id] \o <<"_", "0", "?">>
    [] e.kind = "flush"  -> Decimal[e.id] \o <<"_", "0", "!">>

Out(q) ==
  FlattenSeq([k \in DOMAIN q |-> IF k = 1 THEN Spelled(q[k]) ELSE <<" ">> \o Spelled(q[k])])
    \o <<"\n">>
=============================================================================
