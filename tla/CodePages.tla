------------------------------ MODULE CodePages ------------------------------
(***************************************************************************)
(* Where code may be: allocate_code_pages rejects pages that share a cache *)
(* set with the queried one.  A page is aligned to its size: its lines are *)
(* in consecutive L3 sets, and every line adds its own part to the hash    *)
(* that gives the slice (the masks of get_l3_slice have bits below 12).    *)
(***************************************************************************)
EXTENDS Naturals

CONSTANTS
  Lines,          \* cache lines of a page, 64 in the code
  Hash,           \* the part of line k of a page in the slice: [0..Lines-1 -> slices]
  Xor(_, _),      \* bitwise exclusive or of two slices
  S2              \* L2 sets, a multiple of Lines

ASSUME PagesAssumption == Lines \in Nat \ {0} /\ S2 \in Nat \ {0} /\ S2 % Lines = 0

\* A page: its L3 sets are those of one row, its first line is in slice.
LinesOf(page) == {<<page.row * Lines + k, Xor(page.slice, Hash[k])>> : k \in 0..Lines-1}

\* The set numbers shifted by the bits of a line number, and the slice, compared.
SameL3(page, set) == page.row = set.set3 \div Lines /\ page.slice = set.slice
SameL2(page, set) == (page.row * Lines % S2) \div Lines = (set.set3 % S2) \div Lines

Rejected(level, page, set) ==
  CASE level = 3        -> SameL3(page, set)
    [] level \in {1, 2} -> SameL3(page, set) \/ SameL2(page, set)
    [] OTHER            -> FALSE

\* The loop over the pages.   Mutant: it ends after the first.
Suits_First(level, area, set) == ~Rejected(level, area[1], set)
Suits(level, area, set) == \A p \in DOMAIN area : ~Rejected(level, area[p], set)
=============================================================================
