------------------------------ MODULE Frontend -------------------------------
(***************************************************************************)
(* cachequery.py: a session of the shell over the run files, with the      *)
(* LevelDB cache that outlives it.  A command is one run of a line, or for *)
(* R one run and its repetitions; a run asks every query its line expands  *)
(* to, from the cache or from the kernel.  Any access to a file may fail,  *)
(* and nothing catches the exception.                                      *)
(***************************************************************************)
EXTENDS Naturals, Sequences

CONSTANTS
  Level, Sets,      \* the levels; the set numbers in use at each
  Query, NoQuery,   \* queries; what no file has been given yet
  Line,             \* the sequences of queries that lines expand to
  Repeat,           \* how often R repeats
  Nothing           \* no entry of the cache, no answer

Target == UNION {{l} \X Sets[l] : l \in Level}
Choices == {f \in [Level -> UNION {Sets[l] : l \in Level}] : \A l \in Level : f[l] \in Sets[l]}

\* What comes back: a measurement of a query on a set, the empty line of code
\* that could not be generated, or "Runtime exception!".
Measured(x, l, s) == [kind |-> "measured", query |-> x, level |-> l, set |-> s]
Failed(k) == [kind |-> k, query |-> NoQuery, level |-> NoQuery, set |-> NoQuery]
Empty == Failed("empty")
Exception == Failed("exception")
Answer == {Measured(x, t[1], t[2]) : x \in Query, t \in Target} \cup {Empty, Exception}

ASSUME FrontendAssumption ==
  /\ NoQuery \notin Query /\ Line \subseteq Seq(Query) \ {<<>>}
  /\ Repeat \in Nat
  /\ Nothing \notin Answer

VARIABLES
  pc,               \* prompt | lookup | write | read | out
  level, set,       \* the target: conf.cache('set') is a number for each level
  refresh, caching, \* of the ini file: refresh; whether db_cache is named
  open,             \* self.db is not None
  db,               \* the cache
  file,             \* the query each run file was given last
  line,             \* the queries of the command
  runs,             \* the runs left: [bypass, refresh]
  n,                \* the query of the line under way
  printed           \* the last line the command printed: [query, level, set, answer, cached]

target == <<level, set, refresh, caching>>
vars == <<pc, target, open, db, file, line, runs, n, printed>>

q == line[n]
run == Head(runs)
Out == pc' = "out" /\ open' = FALSE /\ line' = <<>> /\ runs' = <<>> /\ n' = 1 /\ printed' = Nothing

-----------------------------------------------------------------------------
\* The ini file and the command line give a level, and a set for each.
Start(l, f) ==
  /\ pc = "out"
  /\ pc' = "prompt" /\ open' = caching
  /\ level' = l /\ set' = f
  /\ UNCHANGED <<refresh, caching, db, file, line, runs, n, printed>>

\* do_set changes the number of the current level, do_level the level.
DoSet(s) ==
  /\ pc = "prompt"
  /\ set' = [set EXCEPT ![level] = s]
  /\ UNCHANGED <<pc, level, refresh, caching, open, db, file, line, runs, n, printed>>

DoLevel(l) ==
  /\ pc = "prompt"
  /\ level' = l
  /\ UNCHANGED <<pc, set, refresh, caching, open, db, file, line, runs, n, printed>>

\* close, by unlog: the cache goes with the log.
DoUnlog ==
  /\ pc = "prompt" /\ open
  /\ open' = FALSE
  /\ UNCHANGED <<pc, target, db, file, line, runs, n, printed>>

DoQuit ==
  /\ pc = "prompt"
  /\ Out
  /\ UNCHANGED <<target, db, file>>

Run(b, r) == [bypass |-> b, refresh |-> r]
Command(x, modes) ==
  /\ pc = "prompt"
  /\ pc' = "lookup" /\ line' = x /\ runs' = modes /\ n' = 1
  /\ printed' = Nothing
  /\ UNCHANGED <<target, open, db, file>>

DoR(x)   == Command(x, <<Run(FALSE, TRUE)>>)
DoRR(x)  == Command(x, <<Run(TRUE, TRUE)>>)
Repeated(x) == Command(x, <<Run(FALSE, TRUE)>> \o [k \in 1..Repeat |-> Run(TRUE, refresh)])

-----------------------------------------------------------------------------
\* An entry serves if it is there and not the empty string.
Usable(e) == e \notin {Nothing, Empty}

\* Mutant: the test is the wrong way round.
Consulted_Not == open /\ run.bypass
Consulted == open /\ ~run.bypass

\* The next query of the line, the next run, or the prompt.
\* Mutants: a query too many; the same run for ever.
Proceed_Beyond ==
  IF n <= Len(line) THEN pc' = "lookup" /\ n' = n + 1 /\ UNCHANGED <<line, runs>>
  ELSE pc' = "prompt" /\ n' = 1 /\ line' = <<>> /\ runs' = <<>>
Proceed_Again ==
  IF n < Len(line) THEN pc' = "lookup" /\ n' = n + 1 /\ UNCHANGED <<line, runs>>
  ELSE pc' = "lookup" /\ n' = 1 /\ UNCHANGED <<line, runs>>
Proceed ==
  CASE n < Len(line) -> pc' = "lookup" /\ n' = n + 1 /\ UNCHANGED <<line, runs>>
    [] n = Len(line) /\ Len(runs) > 1 ->
         pc' = "lookup" /\ n' = 1 /\ runs' = Tail(runs) /\ UNCHANGED line
    [] OTHER -> pc' = "prompt" /\ n' = 1 /\ line' = <<>> /\ runs' = <<>>

Printed(a, c) ==
  printed' = [query |-> q, level |-> level, set |-> set[level], answer |-> a, cached |-> c]

Hit ==
  /\ pc = "lookup" /\ Consulted /\ Usable(db[q])
  /\ Printed(db[q], TRUE)
  /\ Proceed
  /\ UNCHANGED <<target, open, db, file>>

Miss ==
  /\ pc = "lookup" /\ ~(Consulted /\ Usable(db[q]))
  /\ pc' = IF run.refresh THEN "write" ELSE "read"
  /\ UNCHANGED <<target, open, db, file, line, runs, n, printed>>

\* The file of the target.   Mutant: of the set number of another level.
Path_Default == <<level, set[CHOOSE l \in Level : TRUE]>>
Path == <<level, set[level]>>

\* Mutant: code that is there is used again.
Stored_Once(old) == IF old = NoQuery THEN q ELSE old
Stored(old) == q

Write ==
  /\ pc = "write"
  /\ pc' = "read"
  /\ file' = [file EXCEPT ![Path] = Stored(@)]
  /\ UNCHANGED <<target, open, db, line, runs, n, printed>>

Answers(p) ==
  IF file[p] = NoQuery THEN {Empty}
  ELSE {Measured(file[p], p[1], p[2]), Empty, Exception}

\* What is read is put in the cache, if it is open, and printed.
Read ==
  /\ pc = "read"
  /\ \E a \in Answers(Path) :
       /\ db' = IF open THEN [db EXCEPT ![q] = a] ELSE db
       /\ Printed(a, FALSE)
  /\ Proceed
  /\ UNCHANGED <<target, open, file>>

\* The file cannot be opened, written or read: nothing is put or printed.
AccessFails ==
  /\ pc \in {"write", "read"}
  /\ Out
  /\ UNCHANGED <<target, db, file>>

-----------------------------------------------------------------------------
Init ==
  /\ pc = "out" /\ level \in Level /\ set \in Choices
  /\ refresh \in BOOLEAN /\ caching \in BOOLEAN /\ open = FALSE
  /\ db = [x \in Query |-> Nothing]
  /\ file = [p \in Target |-> NoQuery]
  /\ line = <<>> /\ runs = <<>> /\ n = 1
  /\ printed = Nothing

Step == Hit \/ Miss \/ Write \/ Read \/ AccessFails
Next ==
  \/ Step \/ DoUnlog \/ DoQuit
  \/ \E l \in Level, f \in Choices : Start(l, f)
  \/ \E s \in Sets[level] : DoSet(s)
  \/ \E l \in Level : DoLevel(l)
  \/ \E x \in Line : DoR(x) \/ DoRR(x) \/ Repeated(x)

\* The interpreter runs, and calls on sysfs return.
Spec == Init /\ [][Next]_vars /\ WF_vars(Step)

-----------------------------------------------------------------------------
TypeOK ==
  /\ pc \in {"prompt", "lookup", "write", "read", "out"}
  /\ level \in Level /\ set \in Choices
  /\ {refresh, caching, open} \subseteq BOOLEAN /\ (open => caching)
  /\ db \in [Query -> Answer \cup {Nothing}]
  /\ file \in [Target -> Query \cup {NoQuery}]
  /\ line \in Line \cup {<<>>} /\ n \in 1..Len(line) \cup {1}
  /\ pc \in {"lookup", "write", "read"} => runs # <<>> /\ line # <<>>
  /\ printed # Nothing => printed.answer \in Answer

IsMeasurement == printed # Nothing /\ printed.answer.kind = "measured"

OfQuery == IsMeasurement => printed.answer.query = printed.query
OfTarget == IsMeasurement =>
  printed.answer.level = printed.level /\ printed.answer.set = printed.set

\* If the code is regenerated each time (refresh), every answer printed for a
\* query measures that query, whatever was asked of which set before, in this
\* session or in the one that filled the cache (cachequery.py:300-339).
OwnQuery == refresh => OfQuery

\* Without the cache every answer is of the set and level of the prompt, however
\* set, level and the commands follow on each other (cachequery.py:301, 366-383).
OwnTarget == ~caching => OfTarget

\* A usable entry of the cache is replaced by a bypassing run only, and never
\* lost, across sessions (cachequery.py:329-334).
EntriesStay == [][\A x \in Query :
  Usable(db[x]) /\ db'[x] # db[x] => run.bypass /\ db'[x] # Nothing]_vars

\* Every command, R with its repetitions included, comes back to the prompt
\* unless an access fails (cachequery.py:318-339, 385-389).
CommandsReturn == pc \in {"lookup", "write", "read"} ~> pc \in {"prompt", "out"}
=============================================================================
