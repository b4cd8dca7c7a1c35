------------------------------ MODULE QueryFile ------------------------------
(***************************************************************************)
(* What a `run` file promises to one client: a read answers the query      *)
(* written last, measured by code that is compiled at the first read after *)
(* the write and kept until the next one.  The configuration the code was  *)
(* compiled for is part of the answer.                                     *)
(***************************************************************************)
EXTENDS Naturals

CONSTANTS
  Query,          \* the queries a text parses to
  NoQuery,        \* the parse of a text without a block
  Asks,           \* the marked accesses of each query that count
  Bare,           \* the queries that end in an access that is not one of these
  Fits            \* the queries whose code fits in the code pages

VARIABLES
  stored,         \* the query of the last write
  compiled,       \* the code: [state |-> "none", "whole" or "partial", query, one]
  one,            \* only_one_time
  reply,          \* the last reply
  crashed

vars == <<stored, compiled, one, reply, crashed>>

Code(s, q, o) == [state |-> s, query |-> q, one |-> o]
NoCode == Code("none", NoQuery, FALSE)

Empty == [kind |-> "empty"]
Exception == [kind |-> "exception"]
Answer(q, o, n) == [kind |-> "answer", query |-> q, one |-> o, n |-> n]

\* The accesses code profiles.  Compiled under only_one_time, it profiles the last
\* one too, marked or not.
Count(code) == Asks[code.query] + (IF code.one /\ code.query \in Bare THEN 1 ELSE 0)

Init ==
  /\ stored = NoQuery /\ compiled = NoCode
  /\ one = FALSE /\ reply = Empty /\ crashed = FALSE

Write(q) ==
  /\ stored' = q /\ compiled' = NoCode
  /\ UNCHANGED <<one, reply, crashed>>

\* The client is not told when this happens, nor that it fails for want of memory
\* or blocks; when it fails for want of room the partial code stays.
Compile ==
  /\ stored # NoQuery /\ compiled = NoCode
  /\ \/ stored \in Fits /\ compiled' = Code("whole", stored, one) /\ UNCHANGED reply
     \/ stored \notin Fits /\ compiled' = Code("partial", stored, one) /\ reply' = Empty
  /\ UNCHANGED <<stored, one, crashed>>

\* A read of a compiled query: a number for each access that was profiled when it
\* was compiled.  Under only_one_time the result goes to the log.
Read ==
  /\ compiled.state = "whole"
  /\ reply' \in {Exception} \cup (IF one THEN {Empty}
                 ELSE {Answer(compiled.query, compiled.one, Count(compiled))})
  /\ UNCHANGED <<stored, compiled, one, crashed>>

ReadNothing ==
  /\ compiled = NoCode
  /\ reply' = Empty
  /\ UNCHANGED <<stored, compiled, one, crashed>>

\* Partial code is run, or the mean is divided by one access less than was profiled.
Crash ==
  /\ compiled.state = "partial" \/ (compiled.state = "whole" /\ one /\ Count(compiled) = 1)
  /\ crashed' = TRUE
  /\ UNCHANGED <<stored, compiled, one, reply>>

Configure == one' = ~ one /\ UNCHANGED <<stored, compiled, reply, crashed>>

Next ==
  \/ \E q \in Query \cup {NoQuery} : Write(q)
  \/ Compile \/ Read \/ ReadNothing \/ Crash \/ Configure

Spec == Init /\ [][Next]_vars
=============================================================================
