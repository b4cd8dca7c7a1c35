----------------------------- MODULE MCFrontend ------------------------------
EXTENDS Frontend, TLC

CONSTANTS a, b, L1, L3, s1, s2

\* A plain line, and one with a macro that expands to two queries.
MCLine == {<<a>>, <<a, b>>}

\* Number s2 exists at one level only.
MCSets == L1 :> {s1} @@ L3 :> {s1, s2}
=============================================================================
