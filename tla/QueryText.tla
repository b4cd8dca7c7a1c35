------------------------------ MODULE QueryText ------------------------------
(***************************************************************************)
(* From a line of the shell to the list of blocks the code generator gets: *)
(* the line is expanded, each of its queries is written to the run file as *)
(* a text, and a store of that file parses it, block by block, into the    *)
(* list of the set.  Another client may write any text.                    *)
(***************************************************************************)
EXTENDS MBL, Lexer, FiniteSets

CONSTANTS
  Lines,          \* lines of the shell, as sequences of items
  Texts,          \* texts another client writes
  TableSize,      \* entries of query_blocks, indexed by the numbers of blocks
  MaxRefusals     \* bound: blocks there is no memory for, in all

ASSUME QueryTextAssumption == \A x \in Lines : x # <<>>

VARIABLES
  pc,             \* line | write | lex | done
  line,           \* of the shell, <<>> if another client writes
  todo,           \* texts to write
  text, ptr,      \* lexer->source and ptr
  list,           \* the blocks from lexer->head on
  ends,           \* where in the text each block of the list ends (a history)
  lists,          \* the list each text so far was parsed to (a history)
  refused         \* which of them lack of memory has ended (a history)

vars == <<pc, line, todo, text, ptr, list, ends, lists, refused>>

\* parse of the frontend.
Expand ==
  /\ pc = "line"
  /\ pc' = "write"
  /\ todo' = LET q == Queries(line) IN [i \in DOMAIN q |-> Out(q[i])]
  /\ UNCHANGED <<line, text, ptr, list, ends, lists, refused>>

\* lexer_clean, then the pointers.   Mutant: the blocks of the last text stay.
Clean_Keep == list' = list /\ ends' = ends
Clean == list' = <<>> /\ ends' = <<>>

Write ==
  /\ pc = "write" /\ todo # <<>>
  /\ pc' = "lex"
  /\ text' = Head(todo) /\ todo' = Tail(todo) /\ ptr' = 1
  /\ Clean
  /\ UNCHANGED <<line, lists, refused>>

NextBlock == ReadBlock(text, ptr)

\* Mutant: the tag of the last block is read as a block of its own.
Rest_AtTag == IF NextBlock.block.kind = "flush" THEN NextBlock.ptr - 1 ELSE NextBlock.ptr
Rest == NextBlock.ptr

Read ==
  /\ pc = "lex" /\ NextBlock.found
  /\ list' = Append(list, NextBlock.block)
  /\ ptr' = Rest /\ ends' = Append(ends, Rest - 1)
  /\ UNCHANGED <<pc, line, todo, text, lists, refused>>

\* The end of the text or a syntax error: the store does not tell them apart.
Stored ==
  /\ pc = "lex" /\ ~NextBlock.found
  /\ pc' = "write"
  /\ lists' = Append(lists, list)
  /\ UNCHANGED <<line, todo, text, ptr, list, ends, refused>>

\* No memory for a block, which is asked for before the text is looked at; nor is
\* this told from the end of the text.
Refused ==
  /\ pc = "lex" /\ ptr \in DOMAIN text /\ Cardinality(refused) < MaxRefusals
  /\ pc' = "write"
  /\ lists' = Append(lists, list) /\ refused' = refused \cup {Len(lists')}
  /\ UNCHANGED <<line, todo, text, ptr, list, ends>>

Done ==
  /\ pc = "write" /\ todo = <<>>
  /\ pc' = "done"
  /\ UNCHANGED <<line, todo, text, ptr, list, ends, lists, refused>>

Init ==
  /\ \/ pc = "line" /\ line \in Lines /\ todo = <<>>
     \/ pc = "write" /\ line = <<>> /\ \E t \in Texts : todo = <<t>>
  /\ text = <<>> /\ ptr = 1 /\ list = <<>> /\ ends = <<>> /\ lists = <<>>
  /\ refused = {}

Next == Expand \/ Write \/ Read \/ Stored \/ Refused \/ Done

Spec == Init /\ [][Next]_vars

-----------------------------------------------------------------------------
(* What a line means (README.md, MemBlockLang): one query for every choice  *)
(* of an alternative in each of its items.                                 *)
Alternatives(item) ==
  LET n == Names(item)
      once == IF item.kind \in {"par", "unfold"} THEN Singletons(n) ELSE <<n>>
  IN  IF item.power = <<>> THEN once
      ELSE <<FlattenSeq([k \in 1..item.power[1] |-> FlattenSeq(once)])>>

Tagged(item, s) ==
  IF item = Wbinvd THEN <<[kind |-> "inv", name |-> "none"]>>
  ELSE [k \in DOMAIN s |-> [kind |-> KindOf(item.tag), name |-> s[k]]]

Picks(x) == {c \in [DOMAIN x -> 1..Ways + 2] : \A i \in DOMAIN x : c[i] \in DOMAIN Alternatives(x[i])}

Meaning(x, c) == FlattenSeq([i \in DOMAIN x |-> Tagged(x[i], Alternatives(x[i])[c[i]])])

\* The list is the query, under the numbering of the names.
Same(number, s, l) ==
  /\ Len(s) = Len(l)
  /\ \A k \in DOMAIN s :
       l[k].kind = s[k].kind /\ (s[k].kind # "inv" => l[k].id = number[s[k].name])

NamesOf(x) == UNION {ToSet(Names(x[i])) : i \in DOMAIN x}

\* What is in the list m of a query s: all of it, or a beginning if memory ran out.
Reads(number, s, m) ==
  IF m \in refused
  THEN \E k \in 0..Len(s) : Same(number, SubSeq(s, 1, k), lists[m])
  ELSE Same(number, s, lists[m])

\* Whatever macros, powers and tags a line combines, the kernel gets each of the
\* queries it means, once, with different numbers for different names, the same
\* ones in all queries of the line, and, if the line has no more names than
\* query_blocks has entries, with numbers that are in it.  Without memory for a
\* block it gets the beginning of that query, and the others whole
\* (cachequery.py:230-288, parser.c:59-155, 377).
KernelReadsLine ==
  LET number == [x \in NamesOf(line) |-> Number(Directory(line), x)]
  IN  pc = "done" /\ line # <<>> /\ Cardinality(NamesOf(line)) <= TableSize =>
        /\ number \in [NamesOf(line) -> 0..TableSize-1]
        /\ \A x, y \in NamesOf(line) : number[x] = number[y] => x = y
        /\ Len(lists) = Cardinality(Picks(line))
        /\ \A c \in Picks(line) : \E m \in DOMAIN lists : Reads(number, Meaning(line, c), m)
        /\ \A m \in DOMAIN lists : \E c \in Picks(line) : Reads(number, Meaning(line, c), m)

-----------------------------------------------------------------------------
\* The spellings of a block, and the value of a number that fits.
Numeral(s) == s # <<>> /\ ToSet(s) \subseteq Digits
Denotes(s, n) ==
  IF Len(s) > MaxDigits THEN n = Invalid
  ELSE n = FoldLeft(LAMBDA v, c : 10 * v + Value(c), 0, s)

TagOf(kind) == CASE kind = "ask" -> <<"?">> [] kind = "flush" -> <<"!">> [] OTHER -> <<>>

\* Digits up to m, digits up to n, and a tag.
Shaped(s, m, n, kind) ==
  /\ m < n /\ s[m] = "_" /\ SubSeq(s, n + 1, Len(s)) = TagOf(kind)
  /\ Numeral(SubSeq(s, 1, m - 1)) /\ Numeral(SubSeq(s, m + 1, n))
  /\ \E v \in 0..MaxSet-1 : Denotes(SubSeq(s, m + 1, n), v)

Spells(s, b) ==
  IF b.kind = "inv" THEN s = <<"!">>
  ELSE \E m, n \in DOMAIN s : Shaped(s, m, n, b.kind) /\ Denotes(SubSeq(s, 1, m - 1), b.id)

SpellsOne(s) ==
  \/ s = <<"!">>
  \/ \E m, n \in DOMAIN s, kind \in {"access", "ask", "flush"} : Shaped(s, m, n, kind)

\* Any text, well formed or not: the blocks are spelled in it one behind the other
\* with nothing but padding between them, a number that is too long counts as
\* invalid and never as a shorter one, and the list ends only where the text does,
\* where no block begins, or where there is no memory for the next.  What follows an error is ignored, what precedes it
\* is measured: the store reports neither (parser.c:49-164, 206, 195-216).
Piece(i) == SubSeq(text, IF i = 1 THEN 1 ELSE ends[i-1] + 1, ends[i])
Padded(s, Test(_)) ==
  \E k \in 0..Len(s) : ToSet(SubSeq(s, 1, k)) \subseteq Padding /\ Test(SubSeq(s, k + 1, Len(s)))

ReadsExactly ==
  /\ pc = "lex" =>
       \A i \in DOMAIN list : Padded(Piece(i), LAMBDA s : Spells(s, list[i]))
  /\ pc = "lex" /\ ~NextBlock.found =>
       \A p \in ptr..Len(text) :
         CharAt(text, p+1) \notin Digits => ~Padded(SubSeq(text, ptr, p), SpellsOne)
=============================================================================
