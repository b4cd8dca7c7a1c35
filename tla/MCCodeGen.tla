------------------------------ MODULE MCCodeGen ------------------------------
(***************************************************************************)
(* A small geometry: 2 L1 sets, 8 L2 sets, 16 L3 sets in 2 slices.  A      *)
(* block is <<set3, slice, n>>.                                            *)
(***************************************************************************)
EXTENDS CodeMeaning, SequencesExt

L3List == <<<<0, 0, 1>>, <<0, 0, 2>>, <<0, 0, 3>>>>
L2List == <<<<1, 0, 1>>, <<1, 1, 1>>, <<9, 1, 1>>>>
L1List == <<<<2, 0, 1>>, <<4, 1, 1>>, <<12, 0, 1>>, <<6, 1, 2>>>>
MCTargets == {[level |-> 3, list |-> L3List], [level |-> 2, list |-> L2List],
              [level |-> 1, list |-> L1List]}

\* <<6, 1>> is a leader set; <<2, 0>> holds the first line of the code, so that
\* L2 set 2 is banned, and <<4, 0>> the second, whose L2 set 4 is not.
MCL1Pool == {<<2, 1, 4>>, <<4, 1, 4>>, <<12, 0, 4>>, <<6, 1, 4>>, <<0, 0, 4>>,
             <<3, 0, 4>>, <<7, 1, 4>>, <<1, 0, 4>>}
MCL2Pool == {<<8, 0, 5>>, <<0, 1, 5>>, <<0, 0, 5>>}
MCThrash == {<<3, 1, 1>>}
MCBlock == UNION {ToSet(t.list) : t \in MCTargets} \cup MCL1Pool \cup MCL2Pool \cup MCThrash

MCSet3 == [b \in MCBlock |-> b[1]]
MCSlice == [b \in MCBlock |-> b[2]]
MCOr(a, b) == IF b = 0 \/ a % 2 = 1 THEN a ELSE a + b
MCLeader == {<<6, 1>>}
MCCodeAreas == {<< <<2, 0>>, <<4, 0>> >>}

MCId == {0, 1, 2}
MCConfs == {[one |-> FALSE, thrash |-> TRUE], [one |-> TRUE, thrash |-> FALSE]}
Kinds == {"load", "ask", "flush", "inv"}

\* Names are numbered in the order they come; "!" carries name 0.
Canonical(q) ==
  \A i \in 1..Len(q) : /\ q[i].kind = "inv" => q[i].id = 0
                       /\ q[i].id > 0 => \E j \in 1..i-1 : q[j].id = q[i].id - 1
MCQueries == {q \in SeqOf([id : MCId, kind : Kinds], 3) : Canonical(q)}
=============================================================================
