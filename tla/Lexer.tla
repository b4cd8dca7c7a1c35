-------------------------------- MODULE Lexer --------------------------------
(***************************************************************************)
(* read_block and str_to_num: how the kernel takes the next block off a    *)
(* text.  A text is a sequence of characters; behind its end the buffer of *)
(* sysfs holds a NUL.                                                      *)
(***************************************************************************)
EXTENDS Naturals, SequencesExt

CONSTANTS
  MaxDigits,      \* MAX_NUM_DIGITS
  Invalid,        \* -1, as the unsigned number it is stored in
  MaxSet          \* the number of sets of the level

Padding == {" ", "\n", "\t"}
Digits == {"0", "1", "2", "3", "4", "5", "6", "7", "8", "9"}
NUL == "NUL"

Value(c) ==
  CASE c = "0" -> 0 [] c = "1" -> 1 [] c = "2" -> 2 [] c = "3" -> 3 [] c = "4" -> 4
    [] c = "5" -> 5 [] c = "6" -> 6 [] c = "7" -> 7 [] c = "8" -> 8 [] c = "9" -> 9

CharAt(t, p) == IF p \in DOMAIN t THEN t[p] ELSE NUL

\* The first position from p on whose character is not in C.
Beyond(t, p, C) ==
  CHOOSE r \in p..Len(t)+1 : CharAt(t, r) \notin C /\ \A k \in p..r-1 : t[k] \in C

\* str_to_num of the characters from l to r - 1.
\* Mutant: a longer number is cut.
StrToNum_Cut(t, l, r) ==
  FoldLeft(LAMBDA n, c : 10 * n + Value(c), 0,
           SubSeq(t, l, IF r - l > MaxDigits THEN l + MaxDigits - 1 ELSE r - 1))
StrToNum(t, l, r) ==
  IF r - l > MaxDigits THEN Invalid
  ELSE FoldLeft(LAMBDA n, c : 10 * n + Value(c), 0, SubSeq(t, l, r - 1))

KindAt(t, p) ==
  CASE CharAt(t, p) = "?" -> "ask" [] CharAt(t, p) = "!" -> "flush" [] OTHER -> "access"

None == [found |-> FALSE]
Found(kind, id, ptr) == [found |-> TRUE, block |-> [kind |-> kind, id |-> id], ptr |-> ptr]

\* The block that begins at p, if any, and where the next one may begin, given memory
\* for it.
ReadBlock(t, p) ==
  LET l == Beyond(t, p, Padding)
      r == Beyond(t, l, Digits)
      e == IF r < Len(t) THEN Beyond(t, r + 1, Digits) ELSE r + 1
      kind == KindAt(t, e)
  IN  CASE CharAt(t, l) = "!" -> Found("inv", 0, l + 1)
        [] /\ r > l /\ CharAt(t, r) = "_"
           /\ e > r + 1 /\ StrToNum(t, r + 1, e) < MaxSet ->
             Found(kind, StrToNum(t, l, r), IF kind = "access" THEN e ELSE e + 1)
        [] OTHER -> None
=============================================================================
