--------------------------- MODULE FrontendProofs ----------------------------
(***************************************************************************)
(* For any levels, sets, queries and lines: what the shell prints is of    *)
(* the query it names if the code is regenerated each time, of the target  *)
(* it names without the cache, and entries of the cache stay.              *)
(***************************************************************************)
EXTENDS Frontend, SequenceTheorems, TLAPS

Mode == [bypass : BOOLEAN, refresh : BOOLEAN]
Asking == {"lookup", "write", "read"}

\* The runs left are runs, and while a command is under way there is a query.
Running ==
  /\ runs \in Seq(Mode)
  /\ pc \in Asking => n \in 1..Len(line)

TInv == TypeOK /\ Running

\* What the file of the target was given last, and what the cache has, if the
\* code is regenerated for every run.
Refreshed == refresh =>
  /\ \A k \in 1..Len(runs) : runs[k].refresh
  /\ pc = "read" => file[Path] = q
  /\ \A x \in Query : db[x] # Nothing /\ db[x].kind = "measured" => db[x].query = x

\* The cache was of no use to the query that is being asked.
Asked == pc \in {"write", "read"} => ~(Consulted /\ Usable(db[q]))

-----------------------------------------------------------------------------
LEMMA PathIsTarget ==
  ASSUME TypeOK
  PROVE  Path \in Target
<1>1. level \in Level /\ set[level] \in Sets[level]
  BY DEF TypeOK, Choices
<1>2. Path \in {level} \X Sets[level]
  BY <1>1 DEF Path
<1> QED BY <1>1, <1>2 DEF Target

LEMMA QueryOfLine ==
  ASSUME TInv, pc \in Asking
  PROVE  /\ line \in Line /\ line \in Seq(Query) /\ n \in 1..Len(line)
         /\ q \in Query
         /\ runs \in Seq(Mode) /\ runs # <<>> /\ Len(runs) \in Nat \ {0}
         /\ run = runs[1] /\ run \in Mode
<1>1. /\ line \in Line /\ line \in Seq(Query) /\ n \in 1..Len(line)
      /\ runs \in Seq(Mode) /\ runs # <<>>
  BY FrontendAssumption DEF TInv, TypeOK, Running, Asking
<1> QED BY <1>1 DEF q, run

\* What a file can answer, and what is then in an answer.
LEMMA AnswersOfTarget ==
  ASSUME TInv, NEW p \in Target, NEW a \in Answers(p)
  PROVE  /\ a \in Answer
         /\ a.kind = "measured" =>
              a.query = file[p] /\ a.level = p[1] /\ a.set = p[2]
<1>1. file[p] \in Query \cup {NoQuery}
  BY DEF TInv, TypeOK
<1>2. CASE file[p] = NoQuery
  BY <1>2 DEF Answers, Answer, Empty, Failed
<1>3. CASE file[p] \in Query /\ a = Measured(file[p], p[1], p[2])
  <2>1. a \in Answer
    BY <1>3 DEF Answer
  <2> QED BY <1>3, <2>1 DEF Measured
<1>4. CASE a \in {Empty, Exception}
  BY <1>4 DEF Answer, Empty, Exception, Failed
<1> QED BY <1>1, <1>2, <1>3, <1>4 DEF Answers

\* The next query, the next run, or the prompt.
LEMMA Proceeding ==
  ASSUME TInv, pc \in Asking, Proceed
  PROVE  /\ pc' \in {"lookup", "prompt"}
         /\ line' \in Line \cup {<<>>} /\ n' \in 1..Len(line') \cup {1}
         /\ runs' \in Seq(Mode)
         /\ pc' = "lookup" => runs' # <<>> /\ line' # <<>> /\ n' \in 1..Len(line')
         /\ \A k \in 1..Len(runs') : \E j \in 1..Len(runs) : runs'[k] = runs[j]
<1>1. /\ line \in Line /\ line \in Seq(Query) /\ n \in 1..Len(line) /\ line # <<>>
      /\ runs \in Seq(Mode) /\ runs # <<>> /\ Len(line) \in Nat
  BY QueryOfLine
<1>2. CASE n < Len(line)
  <2>1. pc' = "lookup" /\ n' = n + 1 /\ line' = line /\ runs' = runs
    BY <1>2 DEF Proceed
  <2>2. n + 1 \in 1..Len(line)
    BY <1>1, <1>2
  <2> QED BY <1>1, <2>1, <2>2
<1>3. CASE n = Len(line) /\ Len(runs) > 1
  <2>1. pc' = "lookup" /\ n' = 1 /\ runs' = Tail(runs) /\ line' = line
    BY <1>1, <1>3 DEF Proceed
  <2>2. /\ runs' \in Seq(Mode) /\ Len(runs') = Len(runs) - 1 /\ Len(runs) \in Nat
        /\ \A k \in 1..Len(runs') : runs'[k] = runs[k + 1]
    BY <1>1, <2>1, HeadTailProperties, LenProperties
  <2>3. runs' # <<>> /\ \A k \in 1..Len(runs') : k + 1 \in 1..Len(runs)
    BY <1>3, <2>2, EmptySeq
  <2>4. 1 \in 1..Len(line)
    BY <1>1
  <2> QED BY <1>1, <2>1, <2>2, <2>3, <2>4
<1>4. CASE ~(n < Len(line)) /\ ~(n = Len(line) /\ Len(runs) > 1)
  <2>1. pc' = "prompt" /\ n' = 1 /\ line' = <<>> /\ runs' = <<>>
    BY <1>4 DEF Proceed
  <2>2. runs' \in Seq(Mode) /\ Len(runs') = 0
    BY <2>1, EmptySeq
  <2> QED BY <2>1, <2>2
<1> QED BY <1>2, <1>3, <1>4

\* A command that begins.
LEMMA Commanding ==
  ASSUME NEW x \in Line, NEW modes \in Seq(Mode), modes # <<>>, Command(x, modes), TInv
  PROVE  TInv'
<1>1. /\ pc' = "lookup" /\ line' = x /\ runs' = modes /\ n' = 1 /\ printed' = Nothing
      /\ UNCHANGED <<target, open, db, file>>
  BY DEF Command
<1>2. x \in Seq(Query) /\ x # <<>> /\ 1 \in 1..Len(x)
  BY FrontendAssumption
<1> QED BY <1>1, <1>2 DEF TInv, TypeOK, Running, Asking, target

-----------------------------------------------------------------------------
\* A sequence of one run, and one followed by the repetitions of R.
LEMMA OneRun ==
  ASSUME NEW b \in BOOLEAN, NEW r \in BOOLEAN
  PROVE  /\ <<Run(b, r)>> \in Seq(Mode) /\ Len(<<Run(b, r)>>) = 1
         /\ <<Run(b, r)>>[1].refresh = r /\ <<Run(b, r)>> # <<>>
BY DEF Run, Mode

LEMMA TableIsSeq ==
  ASSUME NEW S, NEW k \in Nat, NEW f \in [1..k -> S]
  PROVE  f \in Seq(S) /\ Len(f) = k
OBVIOUS

LEMMA Repetitions ==
  ASSUME refresh \in BOOLEAN
  PROVE  LET all == <<Run(FALSE, TRUE)>> \o [k \in 1..Repeat |-> Run(TRUE, refresh)]
         IN  /\ all \in Seq(Mode) /\ all # <<>>
             /\ refresh => \A k \in 1..Len(all) : all[k].refresh
<1> DEFINE more == [k \in 1..Repeat |-> Run(TRUE, refresh)]
           first == <<Run(FALSE, TRUE)>>
<1>1. Run(TRUE, refresh) \in Mode /\ Run(TRUE, refresh).refresh = refresh
  BY DEF Run, Mode
<1>2. more \in Seq(Mode) /\ Len(more) = Repeat /\ Repeat \in Nat
  <2>1. Repeat \in Nat
    BY FrontendAssumption
  <2>2. more \in [1..Repeat -> Mode]
    BY <1>1
  <2> QED BY <2>1, <2>2, TableIsSeq
<1>3. \A k \in 1..Repeat : more[k].refresh = refresh
  BY <1>1
<1>4. first \in Seq(Mode) /\ Len(first) = 1 /\ first[1].refresh = TRUE
  BY OneRun
<1> HIDE DEF more, first
<1>5. /\ first \o more \in Seq(Mode) /\ Len(first \o more) = 1 + Repeat
      /\ \A k \in 1..1 + Repeat :
           (first \o more)[k] = IF k <= 1 THEN first[k] ELSE more[k - 1]
  <2>1. first \in Seq(Mode) /\ more \in Seq(Mode)
    BY <1>2, <1>4
  <2>2. /\ first \o more \in Seq(Mode)
        /\ Len(first \o more) = Len(first) + Len(more)
        /\ \A k \in 1..Len(first) + Len(more) :
             (first \o more)[k] = IF k <= Len(first) THEN first[k] ELSE more[k - Len(first)]
    BY <2>1, ConcatProperties, Zenon
  <2> QED BY <1>2, <1>4, <2>2
<1>6. first \o more # <<>>
  BY <1>2, <1>5, EmptySeq
<1>7. ASSUME refresh, NEW k \in 1..1 + Repeat PROVE (first \o more)[k].refresh
  <2>1. CASE k = 1
    BY <1>2, <1>4, <1>5, <2>1
  <2>2. CASE k # 1
    <3>1. k - 1 \in 1..Repeat /\ (first \o more)[k] = more[k - 1]
      BY <1>2, <1>5, <2>2
    <3> QED BY <1>3, <1>7, <3>1
  <2> QED BY <2>1, <2>2
<1> QED BY <1>5, <1>6, <1>7 DEF more, first

-----------------------------------------------------------------------------
LEMMA InitTypes == Init => TInv
<1> SUFFICES ASSUME Init PROVE TInv
  OBVIOUS
<1>1. TypeOK
  BY DEF Init, TypeOK
<1>2. Running
  BY EmptySeq DEF Init, Running, Asking
<1> QED BY <1>1, <1>2 DEF TInv

\* A step of the command that leaves the target, the files and the cache alone or
\* changes them within their types, prints an answer and proceeds.
LEMMA ProceedTypes ==
  ASSUME TInv, pc \in Asking, Proceed, UNCHANGED <<target, open>>,
         db' \in [Query -> Answer \cup {Nothing}],
         file' \in [Target -> Query \cup {NoQuery}],
         NEW a \in Answer, NEW c, Printed(a, c)
  PROVE  TInv'
<1>1. printed'.answer = a
  BY DEF Printed
<1> QED BY <1>1, Proceeding DEF TInv, TypeOK, Running, Asking, target

LEMMA UsableIsAnswer ==
  ASSUME TypeOK, NEW x \in Query, Usable(db[x])
  PROVE  db[x] \in Answer
BY DEF TypeOK, Usable

LEMMA StepTypes == TInv /\ [Next]_vars => TInv'
<1> SUFFICES ASSUME TInv, [Next]_vars PROVE TInv'
  OBVIOUS
<1> USE DEF TInv
<1>1. CASE UNCHANGED vars
  BY <1>1 DEF vars, target, TypeOK, Running
<1>2. CASE Hit
  <2>1. pc \in Asking /\ q \in Query
    BY <1>2, QueryOfLine DEF Hit, Asking
  <2>2. db[q] \in Answer
    BY <1>2, <2>1, UsableIsAnswer DEF Hit
  <2>3. db' \in [Query -> Answer \cup {Nothing}] /\ file' \in [Target -> Query \cup {NoQuery}]
    BY <1>2 DEF Hit, TypeOK
  <2> QED BY <1>2, <2>1, <2>2, <2>3, ProceedTypes DEF Hit
<1>3. CASE Miss
  BY <1>3 DEF Miss, target, TypeOK, Running, Asking
<1>4. CASE Write
  <2>1. q \in Query /\ Path \in Target
    BY <1>4, QueryOfLine, PathIsTarget DEF Write, Asking
  <2>2. file' \in [Target -> Query \cup {NoQuery}]
    BY <1>4, <2>1 DEF Write, Stored, TypeOK
  <2> QED BY <1>4, <2>2 DEF Write, target, TypeOK, Running, Asking
<1>5. CASE Read
  <2>1. pc \in Asking /\ q \in Query /\ Path \in Target
    BY <1>5, QueryOfLine, PathIsTarget DEF Read, Asking
  <2>2. PICK a \in Answers(Path) : /\ db' = IF open THEN [db EXCEPT ![q] = a] ELSE db
                                   /\ Printed(a, FALSE)
    BY <1>5 DEF Read
  <2>3. a \in Answer
    BY <2>1, AnswersOfTarget
  <2>4. db' \in [Query -> Answer \cup {Nothing}] /\ file' \in [Target -> Query \cup {NoQuery}]
    BY <1>5, <2>2, <2>3 DEF Read, TypeOK
  <2> QED BY <1>5, <2>1, <2>2, <2>3, <2>4, ProceedTypes DEF Read
<1>6. CASE AccessFails \/ DoQuit
  <2>1. /\ pc' = "out" /\ open' = FALSE /\ line' = <<>> /\ runs' = <<>> /\ n' = 1
        /\ printed' = Nothing /\ UNCHANGED <<target, db, file>>
    BY <1>6 DEF AccessFails, DoQuit, Out
  <2>2. runs' \in Seq(Mode)
    BY <2>1, EmptySeq
  <2> QED BY <2>1, <2>2 DEF target, TypeOK, Running, Asking
<1>7. CASE DoUnlog
  BY <1>7 DEF DoUnlog, target, TypeOK, Running, Asking
<1>8. ASSUME NEW l \in Level, NEW f \in Choices, Start(l, f) PROVE TInv'
  BY <1>8 DEF Start, target, TypeOK, Running, Asking
<1>9. ASSUME NEW s \in Sets[level], DoSet(s) PROVE TInv'
  <2>1. [set EXCEPT ![level] = s] \in Choices
    <3>1. set \in Choices /\ level \in Level
      BY DEF TypeOK
    <3> QED BY <3>1 DEF Choices
  <2> QED BY <1>9, <2>1 DEF DoSet, target, TypeOK, Running, Asking
<1>10. ASSUME NEW l \in Level, DoLevel(l) PROVE TInv'
  BY <1>10 DEF DoLevel, target, TypeOK, Running, Asking
<1>11. ASSUME NEW x \in Line, DoR(x) \/ DoRR(x) \/ Repeated(x) PROVE TInv'
  <2>1. refresh \in BOOLEAN
    BY DEF TypeOK
  <2>2. PICK modes \in Seq(Mode) : modes # <<>> /\ Command(x, modes)
    BY <1>11, <2>1, OneRun, Repetitions DEF DoR, DoRR, Repeated
  <2> QED BY <2>2, Commanding
<1> QED BY <1>1, <1>2, <1>3, <1>4, <1>5, <1>6, <1>7, <1>8, <1>9, <1>10, <1>11 DEF Next, Step

-----------------------------------------------------------------------------
\* The cache is open in a session with the cache only, so a session without
\* prints what it reads from the file of its target.
LEMMA InitTarget == Init => OwnTarget
BY DEF Init, OwnTarget, OfTarget, IsMeasurement

LEMMA StepTarget == TInv /\ OwnTarget /\ [Next]_vars => OwnTarget'
<1> SUFFICES ASSUME TInv, OwnTarget, [Next]_vars, ~caching' PROVE OfTarget'
  BY DEF OwnTarget
<1> USE DEF OfTarget, IsMeasurement
<1>1. caching' = caching
  BY DEF Next, Step, vars, target, Hit, Miss, Write, Read, AccessFails, DoUnlog, DoQuit,
         Start, DoSet, DoLevel, DoR, DoRR, Repeated, Command
<1>2. ~open /\ OfTarget
  BY <1>1 DEF TInv, TypeOK, OwnTarget
<1>3. CASE UNCHANGED printed
  BY <1>2, <1>3
<1>4. CASE printed' = Nothing
  BY <1>4
<1>5. CASE Hit
  BY <1>2, <1>5 DEF Hit, Consulted
<1>6. CASE Read
  <2>1. Path \in Target
    BY PathIsTarget DEF TInv
  <2>2. PICK a \in Answers(Path) : Printed(a, FALSE)
    BY <1>6 DEF Read
  <2>3. a.kind = "measured" => a.level = level /\ a.set = set[level]
    BY <2>1, AnswersOfTarget DEF Path
  <2> QED BY <2>2, <2>3 DEF Printed
<1> QED BY <1>3, <1>4, <1>5, <1>6
        DEF Next, Step, vars, Miss, Write, AccessFails, Out, DoUnlog, DoQuit,
            Start, DoSet, DoLevel, DoR, DoRR, Repeated, Command

-----------------------------------------------------------------------------
\* With refresh every run writes the query before it reads the answer.
LEMMA InitRefreshed == Init => Refreshed /\ OwnQuery
<1> SUFFICES ASSUME Init PROVE Refreshed /\ OwnQuery
  OBVIOUS
<1>1. runs = <<>> /\ Len(<<>>) = 0 /\ pc = "out" /\ printed = Nothing
  BY EmptySeq DEF Init
<1>2. \A x \in Query : db[x] = Nothing
  BY DEF Init
<1> QED BY <1>1, <1>2 DEF Refreshed, OwnQuery, OfQuery, IsMeasurement

LEMMA StepRefreshed ==
  TInv /\ Refreshed /\ OwnQuery /\ [Next]_vars => Refreshed' /\ OwnQuery'
<1> SUFFICES ASSUME TInv, Refreshed, OwnQuery, [Next]_vars, refresh'
             PROVE  Refreshed' /\ OwnQuery'
  BY DEF Refreshed, OwnQuery
<1>0. refresh' = refresh
  BY DEF Next, Step, vars, target, Hit, Miss, Write, Read, AccessFails, DoUnlog, DoQuit,
         Start, DoSet, DoLevel, DoR, DoRR, Repeated, Command
<1> DEFINE AllFresh == \A k \in 1..Len(runs) : runs[k].refresh
           OwnEntries == \A x \in Query :
             db[x] # Nothing /\ db[x].kind = "measured" => db[x].query = x
<1>1. refresh /\ AllFresh /\ OwnEntries /\ OfQuery /\ (pc = "read" => file[Path] = q)
  BY <1>0 DEF Refreshed, OwnQuery
<1>2. SUFFICES AllFresh' /\ OwnEntries' /\ OfQuery' /\ (pc' = "read" => file'[Path'] = q')
  BY DEF Refreshed, OwnQuery
<1>3. CASE UNCHANGED vars
  BY <1>1, <1>3 DEF vars, target, OfQuery, IsMeasurement, Path, q
<1>4. CASE Hit
  <2>1. pc \in Asking /\ q \in Query
    BY <1>4, QueryOfLine DEF Hit, Asking
  <2>2. AllFresh' /\ pc' # "read"
    BY <1>1, <1>4, <2>1, Proceeding DEF Hit
  <2>3. OfQuery'
    BY <1>1, <1>4, <2>1 DEF Hit, Printed, Usable, OfQuery, IsMeasurement
  <2> QED BY <1>1, <1>4, <2>2, <2>3 DEF Hit
<1>5. CASE Miss
  <2>1. run.refresh
    BY <1>1, <1>5, QueryOfLine DEF Miss, Asking
  <2> QED BY <1>1, <1>5, <2>1 DEF Miss, OfQuery, IsMeasurement
<1>6. CASE Write
  <2>1. Path \in Target
    BY PathIsTarget DEF TInv
  <2>2. file'[Path] = q
    BY <1>6, <2>1 DEF Write, Stored, TInv, TypeOK
  <2>3. Path' = Path /\ q' = q
    BY <1>6 DEF Write, target, Path, q
  <2> QED BY <1>1, <1>6, <2>2, <2>3 DEF Write, OfQuery, IsMeasurement
<1>7. CASE Read
  <2>1. pc \in Asking /\ q \in Query /\ Path \in Target
    BY <1>7, QueryOfLine, PathIsTarget DEF Read, Asking, TInv
  <2>2. AllFresh' /\ pc' # "read"
    BY <1>1, <1>7, <2>1, Proceeding DEF Read
  <2>3. PICK a \in Answers(Path) : /\ db' = IF open THEN [db EXCEPT ![q] = a] ELSE db
                                   /\ Printed(a, FALSE)
    BY <1>7 DEF Read
  <2>4. a.kind = "measured" => a.query = q
    BY <1>1, <1>7, <2>1, AnswersOfTarget DEF Read
  <2>5. OwnEntries'
    BY <1>1, <2>3, <2>4 DEF TInv, TypeOK
  <2>6. OfQuery'
    BY <2>3, <2>4 DEF Printed, OfQuery, IsMeasurement
  <2> QED BY <2>2, <2>5, <2>6
<1>8. CASE AccessFails \/ DoQuit
  <2>1. runs' = <<>> /\ Len(<<>>) = 0 /\ printed' = Nothing /\ db' = db /\ pc' = "out"
    BY <1>8, EmptySeq DEF AccessFails, DoQuit, Out
  <2> QED BY <1>1, <2>1 DEF OfQuery, IsMeasurement
<1>9. CASE \/ DoUnlog \/ \E l \in Level, f \in Choices : Start(l, f)
           \/ (\E s \in Sets[level] : DoSet(s)) \/ \E l \in Level : DoLevel(l)
  <2>1. pc' \in {"out", "prompt"} /\ UNCHANGED <<db, runs, printed>>
    BY <1>9 DEF DoUnlog, Start, DoSet, DoLevel
  <2> QED BY <1>1, <2>1 DEF OfQuery, IsMeasurement
<1>10. ASSUME NEW x \in Line, DoR(x) \/ DoRR(x) \/ Repeated(x)
       PROVE  AllFresh' /\ OwnEntries' /\ OfQuery' /\ (pc' = "read" => file'[Path'] = q')
  <2>1. PICK modes \in Seq(Mode) :
          Command(x, modes) /\ \A k \in 1..Len(modes) : modes[k].refresh
    <3>1. refresh \in BOOLEAN
      BY DEF TInv, TypeOK
    <3>2. \A b \in BOOLEAN : /\ <<Run(b, TRUE)>> \in Seq(Mode)
                             /\ \A k \in 1..Len(<<Run(b, TRUE)>>) : <<Run(b, TRUE)>>[k].refresh
      <4> SUFFICES ASSUME NEW b \in BOOLEAN
                   PROVE  /\ <<Run(b, TRUE)>> \in Seq(Mode)
                          /\ \A k \in 1..Len(<<Run(b, TRUE)>>) : <<Run(b, TRUE)>>[k].refresh
        OBVIOUS
      <4>1. <<Run(b, TRUE)>> \in Seq(Mode)
        BY OneRun
      <4>2. <<Run(b, TRUE)>>[1].refresh
        BY OneRun
      <4>3. Len(<<Run(b, TRUE)>>) = 1
        BY OneRun
      <4>4. \A k \in 1..1 : k = 1
        OBVIOUS
      <4> QED BY <4>1, <4>2, <4>3, <4>4, Zenon
    <3>3. CASE DoR(x) \/ DoRR(x)
      BY <3>2, <3>3 DEF DoR, DoRR
    <3>4. CASE Repeated(x)
      BY <1>1, <3>1, <3>4, Repetitions DEF Repeated
    <3> QED BY <1>10, <3>3, <3>4
  <2> QED BY <1>1, <2>1 DEF Command, OfQuery, IsMeasurement
<1> QED BY <1>3, <1>4, <1>5, <1>6, <1>7, <1>8, <1>9, <1>10 DEF Next, Step

-----------------------------------------------------------------------------
\* A query is sent to the kernel when the cache has nothing for it or the run
\* passes the cache by, and this is so until the answer is read.
LEMMA StepAsked == TInv /\ Asked /\ [Next]_vars => Asked'
<1> SUFFICES ASSUME TInv, Asked, [Next]_vars PROVE Asked'
  OBVIOUS
<1>1. CASE UNCHANGED vars
  BY <1>1 DEF vars, Asked, Consulted, q, run
<1>2. CASE Hit \/ Read
  <2>1. pc' \in {"lookup", "prompt"}
    BY <1>2, Proceeding DEF Hit, Read, Asking
  <2> QED BY <2>1 DEF Asked
<1>3. CASE Miss \/ Write
  <2>1. UNCHANGED <<open, db, line, runs, n>> /\ ~(Consulted /\ Usable(db[q]))
    BY <1>3 DEF Miss, Write, Asked
  <2> QED BY <2>1 DEF Asked, Consulted, q, run
<1>4. CASE AccessFails \/ DoUnlog \/ DoQuit
  BY <1>4 DEF AccessFails, DoUnlog, DoQuit, Out, Asked
<1>5. CASE \/ \E l \in Level, f \in Choices : Start(l, f)
           \/ (\E s \in Sets[level] : DoSet(s)) \/ (\E l \in Level : DoLevel(l))
           \/ \E x \in Line : DoR(x) \/ DoRR(x) \/ Repeated(x)
  <2>1. pc' \in {"prompt", "lookup"}
    BY <1>5 DEF Start, DoSet, DoLevel, DoR, DoRR, Repeated, Command
  <2> QED BY <2>1 DEF Asked
<1> QED BY <1>1, <1>2, <1>3, <1>4, <1>5 DEF Next, Step

LEMMA EntriesStep ==
  ASSUME TInv, Asked, [Next]_vars, NEW x \in Query, Usable(db[x]), db'[x] # db[x]
  PROVE  run.bypass /\ db'[x] # Nothing
<1>1. CASE Read
  <2>1. pc \in Asking /\ q \in Query /\ run \in Mode /\ Path \in Target
    BY <1>1, QueryOfLine, PathIsTarget DEF Read, Asking, TInv
  <2>2. PICK a \in Answers(Path) : db' = IF open THEN [db EXCEPT ![q] = a] ELSE db
    BY <1>1 DEF Read
  <2>3. a # Nothing
    BY <2>1, AnswersOfTarget, FrontendAssumption
  <2>4. open /\ x = q /\ db'[x] = a
    BY <2>2 DEF TInv, TypeOK
  <2>5. ~Consulted
    BY <1>1, <2>4 DEF Read, Asked
  <2> QED BY <2>1, <2>3, <2>4, <2>5 DEF Consulted, Mode
<1>2. CASE UNCHANGED db
  BY <1>2
<1> QED BY <1>1, <1>2 DEF Next, Step, vars, Hit, Miss, Write, AccessFails, DoUnlog, DoQuit,
            Start, DoSet, DoLevel, DoR, DoRR, Repeated, Command

-----------------------------------------------------------------------------
\* The state of a session has its types, for any levels, sets, queries and lines.
THEOREM TypeCorrect == Spec => []TypeOK
<1>1. TInv => TypeOK
  BY DEF TInv
<1> QED BY InitTypes, StepTypes, <1>1, PTL DEF Spec

\* If the code is regenerated each time, what is printed for a query measures that
\* query, over any number of sessions that share one cache.
THEOREM QueryCorrect == Spec => []OwnQuery
<1> QED BY InitTypes, StepTypes, InitRefreshed, StepRefreshed, PTL DEF Spec

\* Without the cache what is printed is of the level and set of the prompt.
THEOREM TargetCorrect == Spec => []OwnTarget
<1> QED BY InitTypes, StepTypes, InitTarget, StepTarget, PTL DEF Spec

\* Only a run that passes the cache by replaces a usable entry, and none is lost.
THEOREM EntriesCorrect == Spec => EntriesStay
<1>1. Init => Asked
  BY DEF Init, Asked
<1>2. TInv /\ Asked /\ [Next]_vars =>
        [\A x \in Query : Usable(db[x]) /\ db'[x] # db[x] => run.bypass /\ db'[x] # Nothing]_vars
  BY EntriesStep
<1> QED BY InitTypes, StepTypes, StepAsked, <1>1, <1>2, PTL DEF Spec, EntriesStay
=============================================================================
