------------------------------- MODULE CacheSet ------------------------------
(***************************************************************************)
(* One cache set of the module as its clients see it: the files `run` and  *)
(* `code` of a cacheset_obj, the parsed query and the generated code they  *)
(* share, and the option only_one_time.  A system call is the sequence of  *)
(* steps between which the code can be preempted; sysfs serialises calls   *)
(* on one open file and no others, and the module takes no lock.           *)
(***************************************************************************)
EXTENDS Naturals, FiniteSets

CONSTANTS
  Proc,           \* the clients, each with the files open on its own
  Query, NoQuery, \* what a text parses to; NoQuery: not even one block
  Asks,           \* the marked accesses of each query that count, at most 63
  Bare,           \* the queries that end in an access that is not one of these
  Fits,           \* the queries whose code fits in the code pages
  Placeable,      \* the queries for which the set has enough blocks
  Region, NULL,   \* code pages; the null pointer
  NumReps         \* num_repetitions

ASSUME CacheSetAssumption ==
  /\ NoQuery \notin Query /\ NULL \notin Region
  /\ Asks \in [Query -> 0..63]
  /\ Bare \subseteq Query /\ Fits \subseteq Query /\ Placeable \subseteq Query
  /\ NumReps \in Nat \ {0}

VARIABLES
  pc,             \* where each client is in its call
  loc,            \* what the call keeps to itself, see Fresh
  holds,          \* the clients whose pointer into lexer->head is good
  lexer,          \* kobj->lexer
  start, len, asks, \* kobj->code; of len only whether it is 0
  heap,           \* the pages: [state, query, one], see Pages
  one,            \* only_one_time
  reply,          \* what the last read of `run` returned
  fault           \* "none", or why the kernel oopsed

buffer == <<start, len, asks>>
vars == <<pc, loc, holds, lexer, buffer, heap, one, reply, fault>>

Empty == [kind |-> "empty"]
Exception == [kind |-> "exception"]
Answer(q, o, n) == [kind |-> "answer", query |-> q, one |-> o, n |-> n]

\* Pages are free, blank, or hold the code of a query, generated under a
\* setting of only_one_time: the whole of it or what fitted.
Pages(s, q, o) == [state |-> s, query |-> q, one |-> o]
Free == Pages("free", NoQuery, FALSE)
Blank == Pages("blank", NoQuery, FALSE)

\* A store keeps the text it was given; a call that frees the code where it goes
\* on; a show its pointer to the code, the repetitions, the value of i after the
\* last one, and, to tell what was measured, the code that ran.
Fresh == [arg |-> NoQuery, back |-> "idle", run |-> NULL, rep |-> 0, i |-> 0, got |-> Free]

Goto(p, l) == pc' = [pc EXCEPT ![p] = l] /\ UNCHANGED loc
GotoWith(p, l, x) == pc' = [pc EXCEPT ![p] = l] /\ loc' = [loc EXCEPT ![p] = x]
Leave(p) == GotoWith(p, "idle", Fresh)
Return(p, r) == Leave(p) /\ reply' = r
Oops(p, why) == GotoWith(p, "dead", Fresh) /\ fault' = why

Live(r) == r # NULL /\ heap[r] # Free

\* vfree(code->start); the null pointer is no error.
Vfree == heap' = IF start = NULL THEN heap ELSE [heap EXCEPT ![start] = Free]

\* smart_buffer_init.   Mutant: it is not called.
InitBuffer_Not == UNCHANGED buffer
InitBuffer == start' = NULL /\ len' = 0 /\ asks' = 0

\* free_code_pages, called by a store, by generate_code for the code there was,
\* and by its "beach": the pages go first, then the pointer.
FreePages(p, l) == GotoWith(p, "vfree", [Fresh EXCEPT !.back = l])

FreeCode(p) ==
  /\ pc[p] = "vfree"
  /\ Vfree
  /\ Goto(p, "init")
  /\ UNCHANGED <<holds, lexer, buffer, one, reply, fault>>

ResetCode(p) ==
  /\ pc[p] = "init"
  /\ InitBuffer
  /\ GotoWith(p, loc[p].back, Fresh)
  /\ UNCHANGED <<holds, lexer, heap, one, reply, fault>>

-----------------------------------------------------------------------------
\* cacheset_store: lexer_clean, read_block until none is left, free_code_pages.
WriteRun(p, q) ==
  /\ pc[p] = "idle"
  /\ lexer' = NoQuery
  /\ holds' = {}
  /\ GotoWith(p, "parse", [Fresh EXCEPT !.arg = q])
  /\ UNCHANGED <<buffer, heap, one, reply, fault>>

\* The blocks read are appended to the list.  It is empty, unless two stores
\* overlap: what then results is some query.
Appended(q) ==
  IF lexer = NoQuery THEN {q} ELSE IF q = NoQuery THEN {lexer} ELSE Query

\* Mutant: the code of the old query is kept.
Parse_KeepCode(p) ==
  /\ pc[p] = "parse"
  /\ lexer' \in Appended(loc[p].arg)
  /\ Leave(p)
  /\ UNCHANGED <<holds, buffer, heap, one, reply, fault>>

Parse(p) ==
  /\ pc[p] = "parse"
  /\ lexer' \in Appended(loc[p].arg)
  /\ FreePages(p, "idle")
  /\ UNCHANGED <<holds, buffer, heap, one, reply, fault>>

-----------------------------------------------------------------------------
\* val_show: the code is generated unless there is some.
ReadRun(p) ==
  /\ pc[p] = "idle"
  /\ Goto(p, IF start = NULL THEN "gen" ELSE "fix")
  /\ UNCHANGED <<holds, lexer, buffer, heap, one, reply, fault>>

\* generate_code, its check of the lexer.
CheckLexer(p) ==
  /\ pc[p] = "gen"
  /\ \/ lexer = NoQuery /\ Return(p, Empty) /\ UNCHANGED holds
     \/ lexer # NoQuery /\ Goto(p, "drop") /\ holds' = holds \cup {p} /\ UNCHANGED reply
  /\ UNCHANGED <<lexer, buffer, heap, one, fault>>

\* "If cacheset had code, free it and generate new."
DropCode(p) ==
  /\ pc[p] = "drop"
  /\ IF start = NULL THEN Goto(p, "alloc") ELSE FreePages(p, "alloc")
  /\ UNCHANGED <<holds, lexer, buffer, heap, one, reply, fault>>

Allocate(p) ==
  /\ pc[p] = "alloc"
  /\ \E r \in Region :
       /\ heap[r] = Free
       /\ heap' = [heap EXCEPT ![r] = Blank]
       /\ start' = r /\ len' = 0
  /\ Goto(p, "place")
  /\ UNCHANGED <<holds, lexer, asks, one, reply, fault>>

NoPages(p) ==
  /\ pc[p] = "alloc"
  /\ Return(p, Empty)
  /\ UNCHANGED <<holds, lexer, buffer, heap, one, fault>>

\* Every name gets a block, if there are enough; if not, "beach" frees the pages
\* before the call gives up.   Mutant: it only forgets them.
Place_Leak(p) ==
  /\ pc[p] = "place" /\ p \in holds
  /\ IF lexer \in Placeable THEN Goto(p, "emit")
                            ELSE GotoWith(p, "init", [Fresh EXCEPT !.back = "err"])
  /\ UNCHANGED <<holds, lexer, buffer, heap, one, reply, fault>>
Place(p) ==
  /\ pc[p] = "place" /\ p \in holds
  /\ IF lexer \in Placeable THEN Goto(p, "emit") ELSE FreePages(p, "err")
  /\ UNCHANGED <<holds, lexer, buffer, heap, one, reply, fault>>

GiveUp(p) ==
  /\ pc[p] = "err"
  /\ Return(p, Empty)
  /\ UNCHANGED <<holds, lexer, buffer, heap, one, fault>>

\* The accesses the code of q profiles.  Under only_one_time the last access is one
\* of them, marked or not, and whether or not 63 have been counted.
Count(q, o) == Asks[q] + (IF o /\ q \in Bare THEN 1 ELSE 0)

\* The opcodes are written.  When the pages are full, or the buffer was reset,
\* the call gives up and what has been written stays.  only_one_time is read for
\* each access; what is counted depends on the reading for the last one.
Emit(p) ==
  /\ pc[p] = "emit" /\ p \in holds
  /\ start = NULL \/ Live(start)
  /\ IF start = NULL
     THEN Return(p, Empty) /\ UNCHANGED <<heap, len>>
     ELSE /\ heap' = [heap EXCEPT ![start] =
                        Pages(IF lexer \in Fits THEN "whole" ELSE "partial", lexer, one)]
          /\ len' = 1
          /\ IF lexer \in Fits
             THEN GotoWith(p, "asks", [Fresh EXCEPT !.i = Count(lexer, one)]) /\ UNCHANGED reply
             ELSE Return(p, Empty)
  /\ UNCHANGED <<holds, lexer, start, asks, one, fault>>

\* The list or the pages were freed by another call.
Dangling(p) ==
  /\ \/ pc[p] \in {"place", "emit"} /\ p \notin holds
     \/ pc[p] = "emit" /\ start # NULL /\ ~ Live(start)
  /\ Oops(p, "generate")
  /\ UNCHANGED <<holds, lexer, buffer, heap, one, reply>>

SetAsks(p) ==
  /\ pc[p] = "asks"
  /\ asks' = loc[p].i
  /\ Goto(p, "fix")
  /\ UNCHANGED <<holds, lexer, start, len, heap, one, reply, fault>>

-----------------------------------------------------------------------------
\* "Fix ptr to generated code"; the warm-up comes next.
FixRun(p) ==
  /\ pc[p] = "fix"
  /\ GotoWith(p, "warm", [Fresh EXCEPT !.run = start])
  /\ UNCHANGED <<holds, lexer, buffer, heap, one, reply, fault>>

Whole(p) == loc[p].run # NULL /\ heap[loc[p].run].state = "whole"

Warm(p) ==
  /\ pc[p] = "warm" /\ Whole(p)
  /\ Goto(p, "run")
  /\ UNCHANGED <<holds, lexer, buffer, heap, one, reply, fault>>

Execute(p) ==
  /\ pc[p] = "run" /\ Whole(p)
  /\ GotoWith(p, "tally", [loc[p] EXCEPT !.got = heap[loc[p].run]])
  /\ UNCHANGED <<holds, lexer, buffer, heap, one, reply, fault>>

\* The code met a time it does not believe.
\* Mutant: the code is run again, as the dead code after `goto err` intends.
Exceptional_Retry(p) ==
  /\ pc[p] = "run" /\ Whole(p)
  /\ Goto(p, "warm")
  /\ UNCHANGED <<holds, lexer, buffer, heap, one, reply, fault>>

Exceptional(p) ==
  /\ pc[p] = "run" /\ Whole(p)
  /\ Return(p, Exception)
  /\ UNCHANGED <<holds, lexer, buffer, heap, one, fault>>

\* A jump to pages that are gone, or to code without an end.
Derail(p) ==
  /\ pc[p] \in {"warm", "run"} /\ ~ Whole(p)
  /\ Oops(p, IF Live(loc[p].run) THEN "partial" ELSE "run")
  /\ UNCHANGED <<holds, lexer, buffer, heap, one, reply>>

\* rep < num_repetitions fails after this repetition.   Mutant: rep <= num_repetitions.
LastRep_Inclusive(p) == loc[p].rep + 1 > NumReps
LastRep(p) == loc[p].rep + 1 = NumReps

\* One repetition is counted, in hist or in trace; i counts the bits walked.
Tally(p) ==
  /\ pc[p] = "tally"
  /\ GotoWith(p, IF LastRep(p) THEN "print" ELSE "run",
              [loc[p] EXCEPT !.rep = @ + 1,
                             !.i = IF ~ one /\ asks > 0 THEN asks ELSE @])
  /\ UNCHANGED <<holds, lexer, buffer, heap, one, reply, fault>>

\* The numbers go to the reader, or the statistics to the log.
Report(p) ==
  /\ pc[p] = "print"
  /\ one => loc[p].i # 1
  /\ Return(p, IF one THEN Empty ELSE Answer(loc[p].got.query, loc[p].got.one, asks))
  /\ UNCHANGED <<holds, lexer, buffer, heap, one, fault>>

\* get_mean(hist, i-1) divides by 0.
DivideByZero(p) ==
  /\ pc[p] = "print"
  /\ one /\ loc[p].i = 1
  /\ Oops(p, "divide")
  /\ UNCHANGED <<holds, lexer, buffer, heap, one, reply>>

-----------------------------------------------------------------------------
\* code_show: a length, a check, a copy.
ReadCode(p) ==
  /\ pc[p] = "idle"
  /\ Goto(p, "check")
  /\ UNCHANGED <<holds, lexer, buffer, heap, one, reply, fault>>

CheckCode(p) ==
  /\ pc[p] = "check"
  /\ Goto(p, IF start # NULL /\ len > 0 THEN "copy" ELSE "idle")
  /\ UNCHANGED <<holds, lexer, buffer, heap, one, reply, fault>>

CopyCode(p) ==
  /\ pc[p] = "copy"
  /\ IF Live(start) THEN Goto(p, "idle") /\ UNCHANGED fault ELSE Oops(p, "copy")
  /\ UNCHANGED <<holds, lexer, buffer, heap, one, reply>>

\* A write to config/only_one_time, by anybody, at any time.
Configure ==
  /\ one' = ~ one
  /\ UNCHANGED <<pc, loc, holds, lexer, buffer, heap, reply, fault>>

-----------------------------------------------------------------------------
Init ==
  /\ pc = [p \in Proc |-> "idle"]
  /\ loc = [p \in Proc |-> Fresh]
  /\ holds = {}
  /\ lexer = NoQuery
  /\ start = NULL /\ len = 0 /\ asks = 0
  /\ heap = [r \in Region |-> Free]
  /\ one = FALSE
  /\ reply = Empty
  /\ fault = "none"

\* A step of a call that is under way.
Step(p) ==
  \/ Parse(p) \/ FreeCode(p) \/ ResetCode(p)
  \/ CheckLexer(p) \/ DropCode(p) \/ Allocate(p) \/ NoPages(p) \/ Place(p)
  \/ GiveUp(p) \/ Emit(p) \/ Dangling(p) \/ SetAsks(p)
  \/ FixRun(p) \/ Warm(p) \/ Execute(p) \/ Exceptional(p) \/ Derail(p)
  \/ Tally(p) \/ Report(p) \/ DivideByZero(p)
  \/ CheckCode(p) \/ CopyCode(p)

Call(p) ==
  \/ \E q \in Query \cup {NoQuery} : WriteRun(p, q)
  \/ ReadRun(p) \/ ReadCode(p)

Next == Configure \/ \E p \in Proc : Step(p) \/ Call(p)

Spec == Init /\ [][Next]_vars

\* A call that is under way is run by the kernel to its end.
FairSpec == Spec /\ \A p \in Proc : WF_vars(Step(p))

-----------------------------------------------------------------------------
Label == {"idle", "dead", "parse", "vfree", "init", "gen", "drop", "alloc", "place",
          "err", "emit", "asks", "fix", "warm", "run", "tally", "print", "check", "copy"}
Page == [state : {"free", "blank", "whole", "partial"}, query : Query \cup {NoQuery},
         one : BOOLEAN]
Local == [arg : Query \cup {NoQuery}, back : {"idle", "alloc", "err"},
          run : Region \cup {NULL}, rep : 0..NumReps, i : 0..64, got : Page]

TypeOK ==
  /\ pc \in [Proc -> Label]
  /\ loc \in [Proc -> Local]
  /\ heap \in [Region -> Page]
  /\ holds \subseteq Proc
  /\ lexer \in Query \cup {NoQuery}
  /\ start \in Region \cup {NULL} /\ len \in 0..1 /\ asks \in 0..64
  /\ one \in BOOLEAN
  /\ fault \in {"none", "generate", "partial", "run", "divide", "copy"}

\* With one client no call reads, runs or copies what another has freed, and
\* only a query too long for the pages leaves code without an end, which then
\* is run (main.c:576-595, parser.c:682-686).
SafeCode ==
  /\ fault \notin {"generate", "run", "copy"}
  /\ fault = "partial" => lexer \notin Fits

\* Pages that are allocated are those code->start points to: no call, whether
\* it succeeds or fails, loses code pages (parser.c:210-270, 330-338, 682-683).
NoLeak == \A r \in Region : heap[r] # Free => r = start

\* Whatever the clients do at once, code->start points to freed pages only while a
\* call of free_code_pages is between its two halves, be it that of a store, of a
\* read that replaces code or of one that gives up: a stale pointer never outlives
\* the contention (main.c:213-214, parser.c:266-270, 330-338, 682-683).
NoStaleStart == (\A p \in Proc : pc[p] # "init") => start = NULL \/ Live(start)

\* The run file keeps the promise of QueryFile.  A write takes effect when the
\* old query is dropped; a query is compiled when its last opcode is written.
Storing(l) == \E p \in Proc : pc[p] \in l

Stored ==
  IF Storing({"parse"}) THEN loc[CHOOSE p \in Proc : pc[p] = "parse"].arg ELSE lexer
Compiled ==
  IF Storing({"parse", "vfree", "init"}) \/ ~ Live(start) \/ heap[start] = Blank
  THEN Pages("none", NoQuery, FALSE) ELSE heap[start]

Q == INSTANCE QueryFile WITH
  stored <- Stored, compiled <- Compiled, crashed <- fault # "none"

ImplementsQueryFile == Q!Spec

\* A call returns or oopses; nothing makes it run for ever (main.c:597-660).
CallsReturn == \A p \in Proc : pc[p] # "idle" ~> pc[p] \in {"idle", "dead"}
=============================================================================
