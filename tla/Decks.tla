-------------------------------- MODULE Decks --------------------------------
(***************************************************************************)
(* What init_lists promises, without pointers: every block of the pool     *)
(* goes on top of the deck of its cache set, and then each deck is         *)
(* shuffled by exchanging two of its blocks, never the top one.            *)
(***************************************************************************)
EXTENDS Naturals, Sequences

CONSTANTS Block, Index   \* the blocks of a pool; the sets of the level
VARIABLE deck            \* the blocks of each set

Exchanged(d, i, j) == [d EXCEPT ![i] = d[j], ![j] = d[i]]

Init == deck = [s \in Index |-> <<>>]

\* A block that is in no deck yet.
Push(s, b) ==
  /\ \A t \in Index : \A k \in 1..Len(deck[t]) : deck[t][k] # b
  /\ deck' = [deck EXCEPT ![s] = <<b>> \o @]

Exchange(s, i, j) ==
  /\ i \in 2..Len(deck[s]) /\ j \in 2..Len(deck[s])
  /\ deck' = [deck EXCEPT ![s] = Exchanged(@, i, j)]

Next == \E s \in Index :
  \/ \E b \in Block : Push(s, b)
  \/ \E i, j \in 2..Len(deck[s]) : Exchange(s, i, j)

Spec == Init /\ [][Next]_deck
=============================================================================
