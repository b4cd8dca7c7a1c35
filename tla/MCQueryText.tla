----------------------------- MODULE MCQueryText -----------------------------
EXTENDS QueryText

MCAlphabet == <<"a", "b", "c">>

\* Groups over a name of the alphabet and one that is not; "m" comes first in
\* some, so that the numbers do not follow the alphabet.
MCGroups ==
  {<<"seq", <<"m">>>>, <<"seq", <<"b">>>>, <<"seq", <<"m", "a">>>>,
   <<"par", <<"b", "m">>>>, <<"expand", <<>>>>, <<"unfold", <<>>>>}

MCItems ==
  {Wbinvd} \cup
  {Item(g[1], g[2], p, t) : g \in MCGroups, p \in {<<>>, <<2>>}, t \in {"", "?", "!"}}
   \cup {Item("seq", <<"m">>, <<0>>, "?"), Item("unfold", <<>>, <<3>>, "")}

\* As many names as the table has entries, some of them in the alphabet.
MCMany == Item("seq", <<"c", "d", "e", "f", "g", "h", "i", "j", "k", "b", "a", "m">>, <<>>, "?")

MCLines == {<<x>> : x \in MCItems} \cup {<<x, y>> : x, y \in MCItems}
  \cup {<<x, y, z>> : x, y, z \in {Item(g[1], g[2], <<>>, "?") : g \in MCGroups}}
  \cup {<<x, MCMany>> : x \in MCItems}

\* Every text of up to six characters.
MCTexts == UNION {[1..n -> {"0", "1", "_", "?", "!", " ", "x"}] : n \in 0..6}
  \cup {<<"1", "0", "0", "_", "0">>, <<"1", "0", "_", "0", "0", "0">>}
=============================================================================
