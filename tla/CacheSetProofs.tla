---------------------------- MODULE CacheSetProofs ---------------------------
(***************************************************************************)
(* What CacheSet promises for any number of clients, queries and pages:    *)
(* types, and that a stale pointer does not outlive the call that made     *)
(* it.  For a single client: no fault but the one for code that does not   *)
(* fit, no page lost, and the file does what QueryFile promises.           *)
(***************************************************************************)
EXTENDS CacheSet, TLAPS

-----------------------------------------------------------------------------
(* Types *)

\* A call that may read the list finds a query in it.
Held == holds # {} => lexer \in Query

\* A repetition is under way only while one is left.
Counted == \A p \in Proc : pc[p] \in {"warm", "run", "tally"} => loc[p].rep < NumReps

TInv == TypeOK /\ Held /\ Counted

\* A client moves: the places and the locals keep their types, and the count
\* its bound if the new one has it.
LEMMA GotoWithTyped ==
  ASSUME NEW p \in Proc, NEW l \in Label, NEW x \in Local, TInv, GotoWith(p, l, x),
         l \in {"warm", "run", "tally"} => x.rep < NumReps
  PROVE  /\ pc' \in [Proc -> Label] /\ loc' \in [Proc -> Local]
         /\ Counted'
BY DEF TInv, TypeOK, Counted, GotoWith

LEMMA GotoTyped ==
  ASSUME NEW p \in Proc, NEW l \in Label, TInv, Goto(p, l),
         l \in {"warm", "run", "tally"} => loc[p].rep < NumReps
  PROVE  /\ pc' \in [Proc -> Label] /\ loc' \in [Proc -> Local]
         /\ Counted'
BY DEF TInv, TypeOK, Counted, Goto

LEMMA FreshTyped == Fresh \in Local /\ Fresh.rep < NumReps
BY CacheSetAssumption DEF Fresh, Local, Free, Pages, Page

LEMMA BackTyped ==
  ASSUME NEW l \in {"idle", "alloc", "err"}
  PROVE  [Fresh EXCEPT !.back = l] \in Local /\ [Fresh EXCEPT !.back = l].rep < NumReps
BY FreshTyped DEF Local

LEMMA FreePagesTyped ==
  ASSUME NEW p \in Proc, TInv, NEW l \in {"idle", "alloc", "err"}, FreePages(p, l)
  PROVE  pc' \in [Proc -> Label] /\ loc' \in [Proc -> Local] /\ Counted'
BY BackTyped, GotoWithTyped DEF FreePages, Label

\* An answer more than there are marks that count.
LEMMA CountTyped ==
  ASSUME NEW q \in Query, NEW o
  PROVE  Count(q, o) \in 0..64
<1>1. Asks[q] \in 0..63
  BY CacheSetAssumption
<1> QED BY <1>1 DEF Count

LEMMA LeaveTyped ==
  ASSUME NEW p \in Proc, TInv, Leave(p)
  PROVE  pc' \in [Proc -> Label] /\ loc' \in [Proc -> Local] /\ Counted'
BY GotoWithTyped, FreshTyped DEF Leave, Label

LEMMA OopsTyped ==
  ASSUME NEW p \in Proc, TInv, NEW why \in {"generate", "partial", "run", "divide", "copy"},
         Oops(p, why)
  PROVE  /\ pc' \in [Proc -> Label] /\ loc' \in [Proc -> Local] /\ Counted'
         /\ fault' \in {"none", "generate", "partial", "run", "divide", "copy"}
BY GotoWithTyped, FreshTyped DEF Oops, Label

LEMMA VfreeTyped ==
  ASSUME TInv, Vfree
  PROVE  heap' \in [Region -> Page]
BY DEF TInv, TypeOK, Vfree, Free, Pages, Page

LEMMA InitTyped == Init => TInv
<1> SUFFICES ASSUME Init PROVE TInv
  OBVIOUS
<1>1. pc \in [Proc -> Label] /\ loc \in [Proc -> Local]
  BY FreshTyped DEF Init, Label
<1>2. heap \in [Region -> Page]
  BY DEF Init, Free, Pages, Page
<1>3. Held /\ Counted
  BY DEF Init, Held, Counted
<1>4. holds \subseteq Proc /\ lexer = NoQuery /\ start = NULL /\ len = 0 /\ asks = 0
      /\ one = FALSE /\ fault = "none"
  BY DEF Init
<1>5. len \in 0..1 /\ asks \in 0..64
  BY <1>4
<1> QED BY <1>1, <1>2, <1>3, <1>4, <1>5 DEF TInv, TypeOK

\* What a step of a store, of the generator and of a measurement keeps.
LEMMA StoreTyped ==
  ASSUME TInv, NEW p \in Proc,
         \/ \E q \in Query \cup {NoQuery} : WriteRun(p, q)
         \/ Parse(p) \/ FreeCode(p) \/ ResetCode(p)
  PROVE  TInv'
<1> USE DEF TInv
<1>1. CASE \E q \in Query \cup {NoQuery} : WriteRun(p, q)
  <2> PICK q \in Query \cup {NoQuery} : WriteRun(p, q)
    BY <1>1
  <2>1. [Fresh EXCEPT !.arg = q] \in Local /\ [Fresh EXCEPT !.arg = q].rep < NumReps
    BY FreshTyped DEF Local
  <2>2. pc' \in [Proc -> Label] /\ loc' \in [Proc -> Local] /\ Counted'
    BY <2>1, GotoWithTyped DEF WriteRun, Label
  <2> QED BY <2>2 DEF WriteRun, TypeOK, Held, buffer
<1>2. CASE Parse(p)
  <2>1. pc' \in [Proc -> Label] /\ loc' \in [Proc -> Local] /\ Counted'
    BY <1>2, FreePagesTyped DEF Parse
  <2>2. lexer' \in Query \cup {NoQuery} /\ (lexer \in Query => lexer' \in Query)
    BY <1>2, CacheSetAssumption DEF Parse, Appended, TypeOK, Local
  <2> QED BY <1>2, <2>1, <2>2 DEF Parse, TypeOK, Held, buffer
<1>3. CASE FreeCode(p)
  <2>1. pc' \in [Proc -> Label] /\ loc' \in [Proc -> Local] /\ Counted'
    BY <1>3, GotoTyped DEF FreeCode, Label
  <2> QED BY <1>3, <2>1, VfreeTyped DEF FreeCode, TypeOK, Held, buffer
<1>4. CASE ResetCode(p)
  <2>1. loc[p].back \in {"idle", "alloc", "err"}
    BY DEF TypeOK, Local
  <2>2. pc' \in [Proc -> Label] /\ loc' \in [Proc -> Local] /\ Counted'
    BY <1>4, <2>1, GotoWithTyped, FreshTyped DEF ResetCode, Label
  <2>3. start' \in Region \cup {NULL} /\ len' \in 0..1 /\ asks' \in 0..64
    BY <1>4 DEF ResetCode, InitBuffer
  <2> QED BY <1>4, <2>2, <2>3 DEF ResetCode, TypeOK, Held
<1> QED BY <1>1, <1>2, <1>3, <1>4

LEMMA GenerateTyped ==
  ASSUME TInv, NEW p \in Proc,
         \/ ReadRun(p) \/ CheckLexer(p) \/ DropCode(p) \/ Allocate(p) \/ NoPages(p)
         \/ Place(p) \/ GiveUp(p) \/ Emit(p) \/ Dangling(p) \/ SetAsks(p)
  PROVE  TInv'
<1> USE DEF TInv
<1>1. CASE ReadRun(p)
  BY <1>1, GotoTyped DEF ReadRun, Label, TypeOK, Held, buffer
<1>2. CASE CheckLexer(p)
  <2>1. CASE lexer = NoQuery /\ Return(p, Empty) /\ UNCHANGED holds
    BY <1>2, <2>1, LeaveTyped DEF CheckLexer, Return, TypeOK, Held, buffer
  <2>2. CASE lexer # NoQuery /\ Goto(p, "drop") /\ holds' = holds \cup {p}
    BY <1>2, <2>2, GotoTyped DEF CheckLexer, Label, TypeOK, Held, buffer
  <2> QED BY <1>2, <2>1, <2>2 DEF CheckLexer
<1>3. CASE DropCode(p)
  BY <1>3, GotoTyped, FreePagesTyped DEF DropCode, Label, TypeOK, Held, buffer
<1>4. CASE Allocate(p)
  BY <1>4, GotoTyped DEF Allocate, Label, TypeOK, Held, Blank, Pages, Page
<1>5. CASE NoPages(p)
  BY <1>5, LeaveTyped DEF NoPages, Return, TypeOK, Held, buffer
<1>6. CASE Place(p)
  BY <1>6, GotoTyped, FreePagesTyped DEF Place, Label, TypeOK, Held, buffer
<1>7. CASE Emit(p)
  <2>1. pc' \in [Proc -> Label] /\ loc' \in [Proc -> Local] /\ Counted'
    <3>1. CASE start # NULL /\ lexer \in Fits
      <4>1. lexer \in Query
        BY <3>1, CacheSetAssumption
      <4>2. [Fresh EXCEPT !.i = Count(lexer, one)] \in Local
        BY <4>1, FreshTyped, CountTyped DEF Local
      <4> QED BY <1>7, <3>1, <4>2, GotoWithTyped DEF Emit, Label, Fresh
    <3>2. CASE ~ (start # NULL /\ lexer \in Fits)
      BY <1>7, <3>2, LeaveTyped DEF Emit, Return
    <3> QED BY <3>1, <3>2
  <2>2. heap' \in [Region -> Page] /\ len' \in 0..1
    BY <1>7 DEF Emit, TypeOK, Pages, Page
  <2> QED BY <1>7, <2>1, <2>2 DEF Emit, TypeOK, Held
<1>8. CASE Dangling(p)
  BY <1>8, OopsTyped DEF Dangling, TypeOK, Held, buffer
<1>9. CASE SetAsks(p)
  <2>1. loc[p].i \in 0..64
    BY DEF TypeOK, Local
  <2> QED BY <1>9, <2>1, GotoTyped DEF SetAsks, Label, TypeOK, Held
<1>10. CASE GiveUp(p)
  BY <1>10, LeaveTyped DEF GiveUp, Return, TypeOK, Held, buffer
<1> QED BY <1>1, <1>2, <1>3, <1>4, <1>5, <1>6, <1>7, <1>8, <1>9, <1>10

LEMMA MeasureTyped ==
  ASSUME TInv, NEW p \in Proc,
         \/ FixRun(p) \/ Warm(p) \/ Execute(p) \/ Exceptional(p) \/ Derail(p)
         \/ Tally(p) \/ Report(p) \/ DivideByZero(p)
         \/ ReadCode(p) \/ CheckCode(p) \/ CopyCode(p)
  PROVE  TInv'
<1> USE DEF TInv
<1>1. CASE FixRun(p)
  <2>1. [Fresh EXCEPT !.run = start] \in Local /\ [Fresh EXCEPT !.run = start].rep < NumReps
    BY FreshTyped DEF Local, TypeOK
  <2> QED BY <1>1, <2>1, GotoWithTyped DEF FixRun, Label, TypeOK, Held, buffer
<1>2. CASE Warm(p)
  <2>1. loc[p].rep < NumReps
    BY <1>2 DEF Warm, Counted
  <2> QED BY <1>2, <2>1, GotoTyped DEF Warm, Label, TypeOK, Held, buffer
<1>3. CASE Execute(p)
  <2> DEFINE x == [loc[p] EXCEPT !.got = heap[loc[p].run]]
  <2>1. x \in Local /\ x.rep < NumReps
    BY <1>3 DEF Execute, Whole, Counted, TypeOK, Local
  <2> QED BY <1>3, <2>1, GotoWithTyped DEF Execute, Label, TypeOK, Held, buffer
<1>4. CASE Exceptional(p)
  BY <1>4, LeaveTyped DEF Exceptional, Return, TypeOK, Held, buffer
<1>5. CASE Derail(p)
  BY <1>5, OopsTyped DEF Derail, TypeOK, Held, buffer
<1>6. CASE Tally(p)
  <2> DEFINE x == [loc[p] EXCEPT !.rep = @ + 1,
                                 !.i = IF ~ one /\ asks > 0 THEN asks ELSE @]
  <2>1. loc[p].rep < NumReps
    BY <1>6 DEF Tally, Counted
  <2>2. x \in Local /\ x.rep = loc[p].rep + 1
    <3> DEFINE j == IF ~ one /\ asks > 0 THEN asks ELSE loc[p].i
    <3>1. loc[p] \in Local
      BY DEF TypeOK
    <3>2. loc[p].rep + 1 \in 0..NumReps
      BY <2>1, <3>1, CacheSetAssumption DEF Local
    <3>3. j \in 0..64
      BY <3>1 DEF TypeOK, Local
    <3>4. x = [loc[p] EXCEPT !.rep = loc[p].rep + 1, !.i = j]
      OBVIOUS
    <3> QED BY <3>1, <3>2, <3>3, <3>4 DEF Local
  <2>3. ~ LastRep(p) => x.rep < NumReps
    BY <2>1, <2>2, CacheSetAssumption DEF LastRep, TypeOK, Local
  <2> QED BY <1>6, <2>2, <2>3, GotoWithTyped DEF Tally, Label, TypeOK, Held, buffer
<1>7. CASE Report(p)
  BY <1>7, LeaveTyped DEF Report, Return, TypeOK, Held, buffer
<1>8. CASE DivideByZero(p)
  BY <1>8, OopsTyped DEF DivideByZero, TypeOK, Held, buffer
<1>9. CASE ReadCode(p)
  BY <1>9, GotoTyped DEF ReadCode, Label, TypeOK, Held, buffer
<1>10. CASE CheckCode(p)
  BY <1>10, GotoTyped DEF CheckCode, Label, TypeOK, Held, buffer
<1>11. CASE CopyCode(p)
  BY <1>11, GotoTyped, OopsTyped DEF CopyCode, Label, TypeOK, Held, buffer
<1> QED BY <1>1, <1>2, <1>3, <1>4, <1>5, <1>6, <1>7, <1>8, <1>9, <1>10, <1>11

LEMMA StepTyped == TInv /\ [Next]_vars => TInv'
<1> SUFFICES ASSUME TInv, [Next]_vars PROVE TInv'
  OBVIOUS
<1>1. CASE UNCHANGED vars
  BY <1>1 DEF vars, buffer, TInv, TypeOK, Held, Counted
<1>2. CASE Configure
  BY <1>2 DEF Configure, buffer, TInv, TypeOK, Held, Counted
<1>3. ASSUME NEW p \in Proc, Step(p) \/ Call(p) PROVE TInv'
  BY <1>3, StoreTyped, GenerateTyped, MeasureTyped DEF Step, Call
<1> QED BY <1>1, <1>2, <1>3 DEF Next

\* The module's types hold for any number of clients and whatever they do at
\* once: asks is at most the width of the result, which only code made under
\* only_one_time reaches, no repetition runs past
\* num_repetitions, the pages are in one of the states of the allocator.
THEOREM TypeCorrect == Spec => []TypeOK
<1>1. TInv => TypeOK
  BY DEF TInv
<1> QED BY InitTyped, StepTyped, <1>1, PTL DEF Spec

-----------------------------------------------------------------------------
(* No stale pointer *)

LEMMA BlankLives == Blank # Free /\ \A q, o : /\ Pages("whole", q, o) # Free
                                            /\ Pages("partial", q, o) # Free
BY DEF Blank, Free, Pages

\* A step that leaves the pointer and the pages alone, and no reset behind.
LEMMA QuietStep ==
  ASSUME NoStaleStart, UNCHANGED <<start, heap>>,
         \A r \in Proc : pc[r] = "init" => pc'[r] = "init"
  PROVE  NoStaleStart'
BY DEF NoStaleStart, Live

\* The steps of client p that move no other client and are no reset.
LEMMA OthersStay ==
  ASSUME TInv, NEW p \in Proc, pc[p] # "init",
         \E l, x : Goto(p, l) \/ GotoWith(p, l, x)
  PROVE  \A r \in Proc : pc[r] = "init" => pc'[r] = "init"
BY DEF TInv, TypeOK, Goto, GotoWith

LEMMA StepNoStale == TInv /\ NoStaleStart /\ [Next]_vars => NoStaleStart'
<1> SUFFICES ASSUME TInv, NoStaleStart, [Next]_vars PROVE NoStaleStart'
  OBVIOUS
<1>1. CASE UNCHANGED vars
  BY <1>1, QuietStep DEF vars, buffer
<1>2. CASE Configure
  BY <1>2, QuietStep DEF Configure, buffer
<1>3. ASSUME NEW p \in Proc, Step(p) \/ Call(p) PROVE NoStaleStart'
  <2>1. CASE FreeCode(p)
    <3>1. pc'[p] = "init"
      BY <2>1 DEF FreeCode, Goto, TInv, TypeOK
    <3> QED BY <3>1 DEF NoStaleStart
  <2>2. CASE ResetCode(p)
    BY <2>2 DEF ResetCode, InitBuffer, NoStaleStart
  <2>3. CASE DropCode(p) \/ Place(p) \/ GiveUp(p)
    <3>1. pc[p] # "init" /\ UNCHANGED <<start, heap>>
      BY <2>3 DEF DropCode, Place, GiveUp, buffer
    <3>2. \E l, x : Goto(p, l) \/ GotoWith(p, l, x)
      BY <2>3 DEF DropCode, Place, GiveUp, FreePages, Return, Leave
    <3>3. \A r \in Proc : pc[r] = "init" => pc'[r] = "init"
      BY <3>1, <3>2, OthersStay
    <3> QED BY <3>1, <3>3, QuietStep
  <2>4. CASE Allocate(p)
    <3>1. PICK r \in Region : heap' = [heap EXCEPT ![r] = Blank] /\ start' = r
      BY <2>4 DEF Allocate
    <3>2. heap'[r] = Blank /\ r # NULL
      BY <3>1, CacheSetAssumption DEF TInv, TypeOK
    <3> QED BY <3>1, <3>2, BlankLives DEF NoStaleStart, Live
  <2>6. CASE Emit(p)
    <3>1. CASE start = NULL
      BY <2>6, <3>1 DEF Emit, NoStaleStart
    <3>2. CASE start # NULL
      <4>1. start \in Region /\ start' = start
        BY <2>6, <3>2 DEF Emit, TInv, TypeOK
      <4>2. heap'[start] # Free
        BY <2>6, <3>2, <4>1, BlankLives DEF Emit, TInv, TypeOK
      <4> QED BY <4>1, <4>2 DEF NoStaleStart, Live
    <3> QED BY <3>1, <3>2
  <2>7. ASSUME \/ \E q \in Query \cup {NoQuery} : WriteRun(p, q)
               \/ Parse(p) \/ ReadRun(p) \/ CheckLexer(p) \/ NoPages(p)
               \/ Dangling(p) \/ SetAsks(p)
               \/ FixRun(p) \/ Warm(p) \/ Execute(p) \/ Exceptional(p) \/ Derail(p)
               \/ Tally(p) \/ Report(p) \/ DivideByZero(p)
               \/ ReadCode(p) \/ CheckCode(p) \/ CopyCode(p)
        PROVE  NoStaleStart'
    <3>1. pc[p] # "init" /\ UNCHANGED <<start, heap>>
      BY <2>7 DEF WriteRun, Parse, ReadRun, CheckLexer, NoPages, Dangling, SetAsks,
                  FixRun, Warm, Execute, Exceptional, Derail, Tally, Report,
                  DivideByZero, ReadCode, CheckCode, CopyCode, buffer
    <3>2. \E l, x : Goto(p, l) \/ GotoWith(p, l, x)
      BY <2>7 DEF WriteRun, Parse, ReadRun, CheckLexer, NoPages, Dangling, SetAsks,
                  FixRun, Warm, Execute, Exceptional, Derail, Tally, Report,
                  DivideByZero, ReadCode, CheckCode, CopyCode, FreePages, Return, Leave, Oops
    <3>3. \A r \in Proc : pc[r] = "init" => pc'[r] = "init"
      BY <3>1, <3>2, OthersStay
    <3> QED BY <3>1, <3>3, QuietStep
  <2> QED BY <1>3, <2>1, <2>2, <2>3, <2>4, <2>6, <2>7 DEF Step, Call
<1> QED BY <1>1, <1>2, <1>3 DEF Next

\* Whatever the clients do at once, once every call that freed code, to store a query,
\* to replace the code or to give up, has reset the buffer, the pointer of the cache
\* set is null or points to allocated pages.
THEOREM StalenessEnds == Spec => []NoStaleStart
<1>1. Init => NoStaleStart
  BY DEF Init, NoStaleStart
<1> QED BY InitTyped, StepTyped, StepNoStale, <1>1, PTL DEF Spec

-----------------------------------------------------------------------------
(* A single client *)

\* The code of a query that does not fit is all that can be wrong with the pages.
Generated(c) ==
  Live(start) /\ pc[c] \notin {"place", "emit", "vfree"} =>
    /\ heap[start].state \in {"whole", "partial"}
    /\ heap[start].state = "partial" /\ pc[c] # "parse" => lexer \notin Fits

\* Where the client is and where the pointer points.
Pointing(c) ==
  /\ pc[c] \notin {"init"} => start = NULL \/ Live(start)
  /\ pc[c] = "init" => ~ Live(start)
  /\ pc[c] \in {"vfree", "init"} => loc[c].back # "alloc"
  /\ pc[c] \in {"gen", "drop", "alloc", "err"} => start = NULL
  /\ pc[c] \in {"place", "emit", "asks", "fix", "warm", "run", "tally", "copy"} => Live(start)
  /\ pc[c] \in {"drop", "alloc", "place", "emit"} => c \in holds
  /\ pc[c] \in {"warm", "run", "tally"} => loc[c].run = start

CInv(c) ==
  /\ TInv /\ NoLeak /\ Generated(c) /\ Pointing(c) /\ SafeCode
  /\ fault # "none" => pc[c] = "dead"

\* What the client does next depends on where it has moved to.
LEMMA Moved ==
  ASSUME TInv, NEW c \in Proc, NEW l, NEW x
  PROVE  /\ Goto(c, l) => pc'[c] = l /\ loc'[c] = loc[c]
         /\ GotoWith(c, l, x) => pc'[c] = l /\ loc'[c] = x
         /\ Leave(c) => pc'[c] = "idle"
         /\ \A why : Oops(c, why) => pc'[c] = "dead" /\ fault' = why
BY DEF TInv, TypeOK, Goto, GotoWith, Leave, Oops

\* And where a call of free_code_pages will come back.
LEMMA MovedToFree ==
  ASSUME TInv, NEW c \in Proc, NEW l, FreePages(c, l)
  PROVE  pc'[c] = "vfree" /\ loc'[c].back = l
BY Moved DEF FreePages, Fresh

\* Freeing the pages the buffer points to leaves none allocated.
LEMMA NothingLeft ==
  ASSUME TInv, NoLeak, Vfree
  PROVE  \A r \in Region : heap'[r] = Free
BY CacheSetAssumption DEF Vfree, NoLeak, TInv, TypeOK

LEMMA SafeStore ==
  ASSUME NEW c, Proc = {c}, CInv(c), TInv',
         \/ \E q \in Query \cup {NoQuery} : WriteRun(c, q)
         \/ Parse(c) \/ FreeCode(c) \/ ResetCode(c)
  PROVE  CInv(c)'
<1> c \in Proc
  OBVIOUS
<1>1. CASE \E q \in Query \cup {NoQuery} : WriteRun(c, q)
  <2>1. pc[c] = "idle" /\ pc'[c] = "parse" /\ UNCHANGED <<start, heap, fault>>
    BY <1>1, Moved DEF WriteRun, buffer, CInv
  <2> QED BY <2>1 DEF CInv, NoLeak, Generated, Pointing, SafeCode, Live
<1>2. CASE Parse(c)
  <2>1. pc[c] = "parse" /\ pc'[c] = "vfree" /\ UNCHANGED <<start, heap, fault>>
    BY <1>2, MovedToFree DEF Parse, buffer, CInv
  <2>2. loc'[c].back = "idle"
    BY <1>2, MovedToFree DEF Parse, CInv
  <2> QED BY <2>1, <2>2 DEF CInv, NoLeak, Generated, Pointing, SafeCode, Live
<1>3. CASE FreeCode(c)
  <2>1. /\ pc[c] = "vfree" /\ pc'[c] = "init" /\ loc'[c] = loc[c] /\ Vfree
        /\ UNCHANGED <<start, fault, lexer>>
    BY <1>3, Moved DEF FreeCode, buffer, CInv
  <2>2. \A r \in Region : heap'[r] = Free
    BY <2>1, NothingLeft DEF CInv
  <2> QED BY <2>1, <2>2, CacheSetAssumption
             DEF CInv, NoLeak, Generated, Pointing, SafeCode, Live, TInv, TypeOK
<1>4. CASE ResetCode(c)
  <2>0. loc[c].back \in {"idle", "alloc", "err"}
    BY DEF CInv, TInv, TypeOK, Local
  <2>1. /\ pc[c] = "init" /\ pc'[c] \in {"idle", "err"} /\ start' = NULL
        /\ UNCHANGED <<heap, fault, lexer>>
    BY <1>4, <2>0, Moved DEF ResetCode, InitBuffer, CInv, Pointing
  <2>2. \A r \in Region : heap[r] = Free
    BY <2>1, CacheSetAssumption DEF CInv, NoLeak, Pointing, Live
  <2> QED BY <2>1, <2>2 DEF CInv, NoLeak, Generated, Pointing, SafeCode, Live
<1> QED BY <1>1, <1>2, <1>3, <1>4

LEMMA SafeGenerate ==
  ASSUME NEW c, Proc = {c}, CInv(c), TInv',
         \/ ReadRun(c) \/ CheckLexer(c) \/ DropCode(c) \/ Allocate(c) \/ NoPages(c)
         \/ Place(c) \/ GiveUp(c) \/ Emit(c) \/ Dangling(c) \/ SetAsks(c)
  PROVE  CInv(c)'
<1> c \in Proc
  OBVIOUS
<1>1. CASE ReadRun(c)
  <2>1. /\ pc[c] = "idle" /\ pc'[c] = IF start = NULL THEN "gen" ELSE "fix"
        /\ UNCHANGED <<start, heap, fault, lexer>>
    BY <1>1, Moved DEF ReadRun, buffer, CInv
  <2> QED BY <2>1 DEF CInv, NoLeak, Generated, Pointing, SafeCode, Live
<1>2. CASE CheckLexer(c)
  <2>1. /\ pc[c] = "gen" /\ pc'[c] \in {"idle", "drop"}
        /\ pc'[c] = "drop" => c \in holds'
        /\ UNCHANGED <<start, heap, fault, lexer>>
    BY <1>2, Moved DEF CheckLexer, Return, buffer, CInv
  <2> QED BY <2>1 DEF CInv, NoLeak, Generated, Pointing, SafeCode, Live
<1>3. CASE DropCode(c)
  <2>1. /\ pc[c] = "drop" /\ pc'[c] = "alloc"
        /\ UNCHANGED <<start, heap, fault, lexer, holds>>
    BY <1>3, Moved DEF DropCode, buffer, CInv, Pointing
  <2> QED BY <2>1 DEF CInv, NoLeak, Generated, Pointing, SafeCode, Live
<1>4. CASE Allocate(c)
  <2>1. /\ pc[c] = "alloc" /\ pc'[c] = "place" /\ start = NULL
        /\ UNCHANGED <<fault, lexer, holds>> /\ c \in holds
    BY <1>4, Moved DEF Allocate, CInv, Pointing
  <2>2. PICK r \in Region : heap' = [heap EXCEPT ![r] = Blank] /\ start' = r
    BY <1>4 DEF Allocate
  <2>3. \A s \in Region : heap[s] = Free
    BY <2>1, CacheSetAssumption DEF CInv, NoLeak
  <2>4. heap'[r] = Blank /\ \A s \in Region : s # r => heap'[s] = Free
    BY <2>2, <2>3 DEF CInv, TInv, TypeOK
  <2>5. r # NULL
    BY CacheSetAssumption
  <2> QED BY <2>1, <2>2, <2>4, <2>5, BlankLives
             DEF CInv, NoLeak, Generated, Pointing, SafeCode, Live
<1>5. CASE NoPages(c)
  <2>1. pc[c] = "alloc" /\ pc'[c] = "idle" /\ UNCHANGED <<start, heap, fault, lexer>>
    BY <1>5, Moved DEF NoPages, Return, buffer, CInv
  <2> QED BY <2>1 DEF CInv, NoLeak, Generated, Pointing, SafeCode, Live
<1>6. CASE Place(c)
  <2>1. CASE lexer \in Placeable
    <3>1. /\ pc[c] = "place" /\ pc'[c] = "emit"
          /\ UNCHANGED <<start, heap, fault, lexer, holds>>
      BY <1>6, <2>1, Moved DEF Place, buffer, CInv
    <3> QED BY <3>1 DEF CInv, NoLeak, Generated, Pointing, SafeCode, Live
  <2>2. CASE lexer \notin Placeable
    <3>1. /\ pc[c] = "place" /\ pc'[c] = "vfree" /\ loc'[c].back = "err"
          /\ UNCHANGED <<start, heap, fault, lexer>>
      BY <1>6, <2>2, MovedToFree DEF Place, buffer, CInv
    <3> QED BY <3>1 DEF CInv, NoLeak, Generated, Pointing, SafeCode, Live
  <2> QED BY <2>1, <2>2
<1>7. CASE Emit(c)
  <2>1. /\ pc[c] = "emit" /\ Live(start) /\ start \in Region
        /\ UNCHANGED <<start, fault, lexer>>
    BY <1>7 DEF Emit, CInv, Pointing, Live, TInv, TypeOK
  <2>2. /\ pc'[c] \in {"asks", "idle"}
        /\ pc'[c] = "asks" => lexer \in Fits
    BY <1>7, <2>1, Moved DEF Emit, Return, CInv, Live
  <2> DEFINE s == IF lexer \in Fits THEN "whole" ELSE "partial"
  <2>3. /\ heap'[start] = Pages(s, lexer, one)
        /\ \A r \in Region : r # start => heap'[r] = heap[r]
    BY <1>7, <2>1 DEF Emit, Live, CInv, TInv, TypeOK
  <2>4. heap'[start] # Free /\ heap'[start].state = s
    BY <2>3, BlankLives DEF Pages
  <2> QED BY <2>1, <2>2, <2>3, <2>4
             DEF CInv, NoLeak, Generated, Pointing, SafeCode, Live
<1>8. CASE Dangling(c)
  BY <1>8 DEF Dangling, CInv, Pointing
<1>9. CASE SetAsks(c)
  <2>1. pc[c] = "asks" /\ pc'[c] = "fix" /\ UNCHANGED <<start, heap, fault, lexer>>
    BY <1>9, Moved DEF SetAsks, CInv
  <2> QED BY <2>1 DEF CInv, NoLeak, Generated, Pointing, SafeCode, Live
<1>10. CASE GiveUp(c)
  <2>1. pc[c] = "err" /\ pc'[c] = "idle" /\ UNCHANGED <<start, heap, fault, lexer>>
    BY <1>10, Moved DEF GiveUp, Return, buffer, CInv
  <2> QED BY <2>1 DEF CInv, NoLeak, Generated, Pointing, SafeCode, Live
<1> QED BY <1>1, <1>2, <1>3, <1>4, <1>5, <1>6, <1>7, <1>8, <1>9, <1>10

LEMMA SafeMeasure ==
  ASSUME NEW c, Proc = {c}, CInv(c), TInv',
         \/ FixRun(c) \/ Warm(c) \/ Execute(c) \/ Exceptional(c) \/ Derail(c)
         \/ Tally(c) \/ Report(c) \/ DivideByZero(c)
         \/ ReadCode(c) \/ CheckCode(c) \/ CopyCode(c)
  PROVE  CInv(c)'
<1> c \in Proc
  OBVIOUS
<1>1. CASE FixRun(c)
  <2>1. /\ pc[c] = "fix" /\ pc'[c] = "warm" /\ loc'[c].run = start
        /\ UNCHANGED <<start, heap, fault, lexer>>
    BY <1>1, Moved DEF FixRun, buffer, CInv, Fresh
  <2> QED BY <2>1 DEF CInv, NoLeak, Generated, Pointing, SafeCode, Live
<1>2. CASE Warm(c)
  <2>1. /\ pc[c] = "warm" /\ pc'[c] = "run" /\ loc'[c] = loc[c]
        /\ UNCHANGED <<start, heap, fault, lexer>>
    BY <1>2, Moved DEF Warm, buffer, CInv
  <2> QED BY <2>1 DEF CInv, NoLeak, Generated, Pointing, SafeCode, Live
<1>3. CASE Derail(c)
  <2>1. /\ pc[c] \in {"warm", "run"} /\ Live(start) /\ loc[c].run = start
        /\ heap[start].state # "whole"
    BY <1>3 DEF Derail, Whole, CInv, Pointing, Live
  <2>2. lexer \notin Fits
    BY <2>1 DEF CInv, Generated
  <2>3. /\ pc'[c] = "dead" /\ fault' = "partial"
        /\ UNCHANGED <<start, heap, lexer>>
    BY <1>3, <2>1, Moved DEF Derail, buffer, CInv
  <2> QED BY <2>1, <2>2, <2>3 DEF CInv, NoLeak, Generated, Pointing, SafeCode, Live
<1>4. CASE Execute(c) \/ Tally(c)
  <2>1. loc[c] \in Local
    BY DEF CInv, TInv, TypeOK
  <2>2. /\ pc[c] \in {"run", "tally"} /\ pc'[c] \in {"tally", "print", "run"}
        /\ UNCHANGED <<start, heap, fault, lexer>>
    BY <1>4, Moved DEF Execute, Tally, buffer, CInv
  <2>3. loc'[c].run = loc[c].run
    BY <1>4, <2>1, Moved DEF Execute, Tally, CInv, Local
  <2> QED BY <2>2, <2>3 DEF CInv, NoLeak, Generated, Pointing, SafeCode, Live
<1>9. CASE Exceptional(c) \/ Report(c)
  <2>1. /\ pc[c] \in {"run", "print"} /\ pc'[c] = "idle"
        /\ UNCHANGED <<start, heap, fault, lexer>>
    BY <1>9, Moved DEF Exceptional, Report, Return, buffer, CInv
  <2> QED BY <2>1 DEF CInv, NoLeak, Generated, Pointing, SafeCode, Live
<1>5. CASE DivideByZero(c)
  <2>1. /\ pc[c] = "print" /\ pc'[c] = "dead" /\ fault' = "divide"
        /\ UNCHANGED <<start, heap, lexer>>
    BY <1>5, Moved DEF DivideByZero, buffer, CInv
  <2> QED BY <2>1 DEF CInv, NoLeak, Generated, Pointing, SafeCode, Live
<1>6. CASE ReadCode(c)
  <2>1. pc[c] = "idle" /\ pc'[c] = "check" /\ UNCHANGED <<start, heap, fault, lexer>>
    BY <1>6, Moved DEF ReadCode, buffer, CInv
  <2> QED BY <2>1 DEF CInv, NoLeak, Generated, Pointing, SafeCode, Live
<1>7. CASE CheckCode(c)
  <2>1. /\ pc[c] = "check"
        /\ pc'[c] = IF start # NULL /\ len > 0 THEN "copy" ELSE "idle"
        /\ UNCHANGED <<start, heap, fault, lexer>>
    BY <1>7, Moved DEF CheckCode, buffer, CInv
  <2> QED BY <2>1 DEF CInv, NoLeak, Generated, Pointing, SafeCode, Live
<1>8. CASE CopyCode(c)
  <2>1. /\ pc[c] = "copy" /\ pc'[c] = "idle" /\ UNCHANGED <<start, heap, fault, lexer>>
    BY <1>8, Moved DEF CopyCode, buffer, CInv, Pointing
  <2> QED BY <2>1 DEF CInv, NoLeak, Generated, Pointing, SafeCode, Live
<1> QED BY <1>1, <1>2, <1>3, <1>4, <1>5, <1>6, <1>7, <1>8, <1>9

LEMMA StepSafe ==
  ASSUME NEW c, Proc = {c}
  PROVE  CInv(c) /\ [Next]_vars => CInv(c)'
<1> SUFFICES ASSUME CInv(c), [Next]_vars PROVE CInv(c)'
  OBVIOUS
<1>0. TInv'
  BY StepTyped DEF CInv
<1>1. CASE UNCHANGED vars
  BY <1>0, <1>1 DEF vars, buffer, CInv, NoLeak, Generated, Pointing, SafeCode, Live
<1>2. CASE Configure
  BY <1>0, <1>2 DEF Configure, buffer, CInv, NoLeak, Generated, Pointing, SafeCode, Live
<1>3. ASSUME Step(c) \/ Call(c) PROVE CInv(c)'
  BY <1>0, <1>3, SafeStore, SafeGenerate, SafeMeasure DEF Step, Call
<1> QED BY <1>1, <1>2, <1>3 DEF Next

LEMMA InitSafe ==
  ASSUME NEW c, Proc = {c}
  PROVE  Init => CInv(c)
<1> SUFFICES ASSUME Init PROVE CInv(c)
  OBVIOUS
<1>1. /\ pc[c] = "idle" /\ start = NULL /\ fault = "none"
      /\ \A r \in Region : heap[r] = Free
  BY DEF Init
<1> QED BY <1>1, InitTyped DEF CInv, NoLeak, Generated, Pointing, SafeCode, Live

\* With one client at a time, which is how the frontend uses the module, nothing
\* that was freed is read, run or copied, and the only code that is run without
\* an end is that of a query that does not fit.
THEOREM SingleClientSafe ==
  ASSUME NEW c, Proc = {c}
  PROVE  Spec => []SafeCode
<1>1. Init => CInv(c)
  BY InitSafe
<1>2. CInv(c) /\ [Next]_vars => CInv(c)'
  BY StepSafe
<1>3. CInv(c) => SafeCode
  BY DEF CInv
<1> QED BY <1>1, <1>2, <1>3, PTL DEF Spec

\* And no call loses code pages, whichever way it fails.
THEOREM SingleClientNoLeak ==
  ASSUME NEW c, Proc = {c}
  PROVE  Spec => []NoLeak
<1>1. Init => CInv(c)
  BY InitSafe
<1>2. CInv(c) /\ [Next]_vars => CInv(c)'
  BY StepSafe
<1>3. CInv(c) => NoLeak
  BY DEF CInv
<1> QED BY <1>1, <1>2, <1>3, PTL DEF Spec

-----------------------------------------------------------------------------
(* The promise of QueryFile *)

\* What goes with the code is about the code: its number of answers, what the call that
\* runs it has kept of it, and nothing of an earlier query.
Told(c) ==
  /\ pc[c] = "parse" => lexer = NoQuery
  /\ pc[c] \in {"place", "emit"} => heap[start] = Blank
  /\ /\ pc[c] \in {"idle", "fix", "warm", "run", "tally", "print", "check", "copy"}
     /\ Live(start) /\ heap[start].state = "whole"
     => asks = Count(heap[start].query, heap[start].one)
  /\ pc[c] = "asks" => heap[start].state = "whole" /\ loc[c].i = Count(heap[start].query, heap[start].one)
  /\ pc[c] \in {"tally", "print"} =>
       Live(start) /\ heap[start].state = "whole" /\ loc[c].got = heap[start]
  /\ pc[c] \in {"warm", "run", "tally", "print"} => loc[c].i \in {0, asks}

\* QueryFile counts as the code does.
LEMMA SameCount == \A page : Q!Count(page) = Count(page.query, page.one)
BY DEF Q!Count, Count

\* What a single client's file stands for.
LEMMA StandsFor ==
  ASSUME NEW c, Proc = {c}
  PROVE  /\ Stored = IF pc[c] = "parse" THEN loc[c].arg ELSE lexer
         /\ Compiled = IF pc[c] \in {"parse", "vfree", "init"} \/ ~ Live(start) \/ heap[start] = Blank
                       THEN Q!NoCode ELSE heap[start]
         /\ Stored' = IF pc'[c] = "parse" THEN loc'[c].arg ELSE lexer'
         /\ Compiled' = IF pc'[c] \in {"parse", "vfree", "init"} \/ ~ Live(start)' \/ heap'[start'] = Blank
                        THEN Q!NoCode ELSE heap'[start']
<1>1. \A l : Storing(l) <=> pc[c] \in l
  BY DEF Storing
<1>2. \A l : Storing(l)' <=> pc'[c] \in l
  BY DEF Storing
<1>3. pc[c] = "parse" => (CHOOSE p \in Proc : pc[p] = "parse") = c
  OBVIOUS
<1>4. pc'[c] = "parse" => (CHOOSE p \in Proc : pc'[p] = "parse") = c
  OBVIOUS
<1>5. Q!NoCode = Pages("none", NoQuery, FALSE)
  BY DEF Q!NoCode, Q!Code, Pages
<1>6. Stored = IF pc[c] = "parse" THEN loc[c].arg ELSE lexer
  <2>1. Storing({"parse"}) <=> pc[c] = "parse"
    BY <1>1
  <2> QED
    BY <1>3, <2>1, Zenon DEF Stored
<1>7. Stored' = IF pc'[c] = "parse" THEN loc'[c].arg ELSE lexer'
  <2>1. Storing({"parse"})' <=> pc'[c] = "parse"
    BY <1>2
  <2> QED
    BY <1>4, <2>1, Zenon DEF Stored
<1>8. /\ Storing({"parse", "vfree", "init"}) <=> pc[c] \in {"parse", "vfree", "init"}
      /\ Storing({"parse", "vfree", "init"})' <=> pc'[c] \in {"parse", "vfree", "init"}
  BY <1>1, <1>2
<1> QED
  BY <1>5, <1>6, <1>7, <1>8, Zenon DEF Compiled

\* At first there is nothing to be told.
LEMMA StartKept ==
  ASSUME NEW c, Proc = {c}, Init
  PROVE  Told(c) /\ Q!Init
<1>1. pc[c] = "idle" /\ start = NULL /\ lexer = NoQuery /\ ~ Live(start)
  BY DEF Init, Live
<1>2. Stored = NoQuery /\ Compiled = Q!NoCode
  BY <1>1, StandsFor
<1>3. Told(c)
  BY <1>1 DEF Told
<1> QED
  BY <1>2, <1>3 DEF Init, Q!Init, Empty, Q!Empty

\* The client goes on, and only itself knows.
LEMMA Unseen ==
  ASSUME NEW c, Proc = {c}, UNCHANGED <<lexer, start, heap, one, reply, fault>>,
         pc[c] \notin {"parse", "vfree", "init"}, pc'[c] \notin {"parse", "vfree", "init"}
  PROVE  UNCHANGED Q!vars
<1>1. Stored' = Stored /\ Compiled' = Compiled
  BY StandsFor DEF Live
<1> QED
  BY <1>1 DEF Q!vars

\* A step of a store.
StoreOf(c) ==
  \/ \E q \in Query \cup {NoQuery} : WriteRun(c, q)
  \/ Parse(c) \/ FreeCode(c) \/ ResetCode(c)

\* A store drops the old query and its code, and has the new one at once.
LEMMA StoreKept ==
  ASSUME NEW c, Proc = {c}, CInv(c), Told(c), StoreOf(c)
  PROVE  Told(c)' /\ [Q!Next]_(Q!vars)
<1> c \in Proc
  OBVIOUS
<1>1. ASSUME NEW q \in Query \cup {NoQuery}, WriteRun(c, q)
      PROVE  Told(c)' /\ [Q!Next]_(Q!vars)
  <2>1. /\ pc'[c] = "parse" /\ loc'[c].arg = q /\ lexer' = NoQuery
        /\ UNCHANGED <<one, reply, fault>>
    BY <1>1, Moved DEF WriteRun, CInv, Fresh
  <2>2. Stored' = q /\ Compiled' = Q!NoCode
    BY <2>1, StandsFor
  <2>3. Q!Write(q)
    BY <2>1, <2>2 DEF Q!Write
  <2> QED
    BY <2>1, <2>3 DEF Told, Q!Next
<1>2. CASE Parse(c)
  <2>1. pc[c] = "parse" /\ pc'[c] = "vfree" /\ UNCHANGED <<one, reply, fault>>
    BY <1>2, MovedToFree DEF Parse, CInv
  <2>2. lexer' = loc[c].arg
    BY <1>2, <2>1 DEF Parse, Appended, Told
  <2>3. Stored' = Stored /\ Compiled' = Compiled
    BY <2>1, <2>2, StandsFor
  <2> QED
    BY <2>1, <2>3 DEF Told, Q!vars
<1>3. CASE FreeCode(c)
  <2>1. pc[c] = "vfree" /\ pc'[c] = "init" /\ UNCHANGED <<lexer, one, reply, fault>>
    BY <1>3, Moved DEF FreeCode, CInv
  <2>2. Stored' = Stored /\ Compiled' = Compiled
    BY <2>1, StandsFor
  <2> QED
    BY <2>1, <2>2 DEF Told, Q!vars
<1>4. CASE ResetCode(c)
  <2>0. loc[c].back \in {"idle", "err"}
    BY <1>4 DEF ResetCode, CInv, Pointing, TInv, TypeOK, Local
  <2>1. /\ pc[c] = "init" /\ pc'[c] \in {"idle", "err"} /\ start' = NULL
        /\ UNCHANGED <<lexer, one, reply, fault>>
    BY <1>4, <2>0, Moved DEF ResetCode, InitBuffer, CInv
  <2>2. ~ Live(start)'
    BY <2>1 DEF Live
  <2>3. Stored' = Stored /\ Compiled' = Compiled
    BY <2>1, <2>2, StandsFor
  <2> QED
    BY <2>1, <2>2, <2>3 DEF Told, Q!vars
<1> QED
  BY <1>1, <1>2, <1>3, <1>4 DEF StoreOf

\* A read that gets no code.
LEMMA NothingRead ==
  ASSUME NEW c, Proc = {c}, Compiled = Q!NoCode, reply' = Empty,
         pc[c] # "parse", pc'[c] = "idle", ~ Live(start)', UNCHANGED <<lexer, one, fault>>
  PROVE  Told(c)' /\ [Q!Next]_(Q!vars)
<1>1. Stored' = Stored /\ Compiled' = Compiled
  BY StandsFor
<1>2. Q!ReadNothing
  BY <1>1 DEF Q!ReadNothing, Q!Empty, Empty
<1> QED
  BY <1>2 DEF Told, Q!Next

\* A step of a read until there is code.
GenerateOf(c) ==
  \/ ReadRun(c) \/ CheckLexer(c) \/ DropCode(c) \/ Allocate(c) \/ NoPages(c)
  \/ Place(c) \/ GiveUp(c) \/ Emit(c) \/ Dangling(c) \/ SetAsks(c)

\* A read without code makes some, or answers with nothing.
LEMMA GenerateKept ==
  ASSUME NEW c, Proc = {c}, CInv(c), Told(c), GenerateOf(c)
  PROVE  Told(c)' /\ [Q!Next]_(Q!vars)
<1> c \in Proc
  OBVIOUS
<1>1. CASE ReadRun(c)
  <2>1. /\ pc[c] = "idle" /\ pc'[c] = IF start = NULL THEN "gen" ELSE "fix"
        /\ UNCHANGED <<lexer, start, asks, heap, one, reply, fault>>
    BY <1>1, Moved DEF ReadRun, buffer, CInv
  <2> QED
    BY <2>1, Unseen DEF Told, Live
<1>2. CASE CheckLexer(c)
  <2>1. /\ pc[c] = "gen" /\ start = NULL /\ UNCHANGED <<lexer, start, heap, one, fault>>
        /\ \/ pc'[c] = "idle" /\ reply' = Empty
           \/ pc'[c] = "drop" /\ reply' = reply
    BY <1>2, Moved DEF CheckLexer, Return, buffer, CInv, Pointing
  <2>2. ~ Live(start) /\ ~ Live(start)' /\ Compiled = Q!NoCode
    BY <2>1, StandsFor DEF Live
  <2>3. CASE pc'[c] = "idle" /\ reply' = Empty
    BY <2>1, <2>2, <2>3, NothingRead
  <2>4. CASE pc'[c] = "drop" /\ reply' = reply
    BY <2>1, <2>4, Unseen DEF Told
  <2> QED
    BY <2>1, <2>3, <2>4
<1>3. CASE DropCode(c)
  <2>1. /\ pc[c] = "drop" /\ pc'[c] = "alloc"
        /\ UNCHANGED <<lexer, start, heap, one, reply, fault>>
    BY <1>3, Moved DEF DropCode, buffer, CInv, Pointing
  <2> QED
    BY <2>1, Unseen DEF Told
<1>4. CASE Allocate(c)
  <2>1. /\ pc[c] = "alloc" /\ pc'[c] = "place" /\ start = NULL
        /\ UNCHANGED <<lexer, one, reply, fault>>
    BY <1>4, Moved DEF Allocate, CInv, Pointing
  <2>2. heap'[start'] = Blank
    BY <1>4 DEF Allocate, CInv, TInv, TypeOK
  <2>3. Stored' = Stored /\ Compiled' = Compiled
    BY <2>1, <2>2, StandsFor DEF Live
  <2> QED
    BY <2>1, <2>2, <2>3 DEF Told, Q!vars
<1>5. CASE NoPages(c)
  <2>1. /\ pc[c] = "alloc" /\ start = NULL /\ pc'[c] = "idle" /\ reply' = Empty
        /\ UNCHANGED <<lexer, start, heap, one, fault>>
    BY <1>5, Moved DEF NoPages, Return, buffer, CInv, Pointing
  <2>2. ~ Live(start) /\ ~ Live(start)' /\ Compiled = Q!NoCode
    BY <2>1, StandsFor DEF Live
  <2> QED
    BY <2>1, <2>2, NothingRead
<1>6. CASE Place(c)
  <2>1. pc[c] = "place" /\ heap[start] = Blank /\ UNCHANGED <<lexer, one, fault>>
    BY <1>6 DEF Place, Told
  <2>2. CASE lexer \in Placeable
    <3>1. pc'[c] = "emit" /\ UNCHANGED <<start, heap, reply>>
      BY <1>6, <2>2, Moved DEF Place, buffer, CInv
    <3> QED
      BY <2>1, <3>1, Unseen DEF Told
  <2>3. CASE lexer \notin Placeable
    <3>1. pc'[c] = "vfree" /\ UNCHANGED reply
      BY <1>6, <2>3, MovedToFree DEF Place, CInv
    <3>2. Stored' = Stored /\ Compiled' = Compiled
      BY <2>1, <3>1, StandsFor
    <3> QED
      BY <2>1, <3>1, <3>2 DEF Told, Q!vars
  <2> QED
    BY <2>2, <2>3
<1>7. CASE Emit(c)
  <2>1. /\ pc[c] = "emit" /\ Live(start) /\ start \in Region /\ heap[start] = Blank
        /\ lexer \in Query /\ UNCHANGED <<lexer, start, one, fault>>
    BY <1>7 DEF Emit, CInv, Pointing, Live, TInv, TypeOK, Held, Told
  <2>2. heap'[start] = Pages(IF lexer \in Fits THEN "whole" ELSE "partial", lexer, one)
    BY <1>7, <2>1 DEF Emit, Live, CInv, TInv, TypeOK
  <2>3. /\ lexer \in Fits => pc'[c] = "asks" /\ loc'[c].i = Count(lexer, one) /\ reply' = reply
        /\ lexer \notin Fits => pc'[c] = "idle" /\ reply' = Empty
    BY <1>7, <2>1, Moved DEF Emit, Return, Live, CInv, Fresh
  <2>4. /\ heap'[start].query = lexer /\ heap'[start].one = one /\ heap'[start] # Blank /\ heap'[start] # Free
        /\ heap'[start].state = IF lexer \in Fits THEN "whole" ELSE "partial"
    BY <2>2 DEF Pages, Blank, Free
  <2>5. Live(start)'
    BY <2>1, <2>4 DEF Live
  <2>6. Told(c)'
    BY <2>1, <2>3, <2>4 DEF Told
  <2>7. Stored = lexer /\ Compiled = Q!NoCode
    BY <2>1, StandsFor
  <2>8. Stored' = lexer /\ Compiled' = heap'[start]
    BY <2>1, <2>3, <2>4, <2>5, StandsFor
  <2>9. Q!Compile
    <3>1. heap'[start] = Q!Code(IF lexer \in Fits THEN "whole" ELSE "partial", lexer, one)
      BY <2>2 DEF Pages, Q!Code
    <3>2. lexer # NoQuery
      BY <2>1, CacheSetAssumption
    <3> QED
      BY <2>1, <2>3, <2>7, <2>8, <3>1, <3>2 DEF Q!Compile, Empty, Q!Empty
  <2> QED
    BY <2>6, <2>9 DEF Q!Next
<1>8. CASE Dangling(c)
  BY <1>8 DEF Dangling, CInv, Pointing
<1>9. CASE SetAsks(c)
  <2>1. /\ pc[c] = "asks" /\ pc'[c] = "fix" /\ asks' = loc[c].i
        /\ UNCHANGED <<lexer, start, heap, one, reply, fault>>
    BY <1>9, Moved DEF SetAsks, CInv
  <2> QED
    BY <2>1, Unseen DEF Told
<1>10. CASE GiveUp(c)
  <2>1. /\ pc[c] = "err" /\ start = NULL /\ pc'[c] = "idle" /\ reply' = Empty
        /\ UNCHANGED <<lexer, start, heap, one, fault>>
    BY <1>10, Moved DEF GiveUp, Return, buffer, CInv, Pointing
  <2>2. ~ Live(start) /\ ~ Live(start)' /\ Compiled = Q!NoCode
    BY <2>1, StandsFor DEF Live
  <2> QED
    BY <2>1, <2>2, NothingRead
<1> QED
  BY <1>1, <1>2, <1>3, <1>4, <1>5, <1>6, <1>7, <1>8, <1>9, <1>10 DEF GenerateOf

\* The code there is, as QueryFile has it.
LEMMA CodeThere ==
  ASSUME NEW c, Proc = {c}, CInv(c), Told(c), Live(start),
         pc[c] \notin {"parse", "vfree", "init", "place", "emit"}
  PROVE  Compiled = heap[start] /\ Compiled.state \in {"whole", "partial"}
<1>1. heap[start].state \in {"whole", "partial"}
  BY DEF CInv, Generated
<1>2. heap[start] # Blank
  BY <1>1 DEF Blank, Pages
<1> QED
  BY <1>1, <1>2, StandsFor

\* A read of code that is whole.
LEMMA CodeRead ==
  ASSUME NEW c, Proc = {c}, Compiled.state = "whole",
         reply' = Exception \/ reply' = IF one THEN Empty
                                       ELSE Answer(Compiled.query, Compiled.one, Q!Count(Compiled)),
         pc[c] \notin {"parse", "vfree", "init"}, pc'[c] \notin {"parse", "vfree", "init"},
         UNCHANGED <<lexer, start, heap, one, fault>>
  PROVE  Q!Next
<1>1. Stored' = Stored /\ Compiled' = Compiled
  BY StandsFor DEF Live
<1>2. Q!Read
  BY <1>1 DEF Q!Read, Q!Exception, Exception, Q!Answer, Answer, Q!Empty, Empty
<1> QED
  BY <1>2 DEF Q!Next

\* The end of the kernel.
LEMMA CodeCrashes ==
  ASSUME NEW c, Proc = {c}, fault' # "none",
         \/ Compiled.state = "partial"
         \/ Compiled.state = "whole" /\ one /\ Q!Count(Compiled) = 1,
         pc[c] \notin {"parse", "vfree", "init"}, pc'[c] \notin {"parse", "vfree", "init"},
         UNCHANGED <<lexer, start, heap, one, reply>>
  PROVE  Q!Next
<1>1. Stored' = Stored /\ Compiled' = Compiled
  BY StandsFor DEF Live
<1>2. Q!Crash
  BY <1>1 DEF Q!Crash
<1> QED
  BY <1>2 DEF Q!Next

\* A step of a read with code, or of a copy of the code.
MeasureOf(c) ==
  \/ FixRun(c) \/ Warm(c) \/ Execute(c) \/ Exceptional(c) \/ Derail(c)
  \/ Tally(c) \/ Report(c) \/ DivideByZero(c)
  \/ ReadCode(c) \/ CheckCode(c) \/ CopyCode(c)

\* A read with code answers with a measurement by it, and nothing else.
LEMMA MeasureKept ==
  ASSUME NEW c, Proc = {c}, CInv(c), Told(c), MeasureOf(c)
  PROVE  Told(c)' /\ [Q!Next]_(Q!vars)
<1> c \in Proc
  OBVIOUS
<1>1. CASE FixRun(c)
  <2>1. /\ pc[c] = "fix" /\ pc'[c] = "warm" /\ loc'[c].i = 0
        /\ UNCHANGED <<lexer, start, asks, heap, one, reply, fault>>
    BY <1>1, Moved DEF FixRun, buffer, CInv, Fresh
  <2> QED
    BY <2>1, Unseen DEF Told, Live
<1>2. CASE Warm(c)
  <2>1. /\ pc[c] = "warm" /\ pc'[c] = "run" /\ loc'[c] = loc[c]
        /\ UNCHANGED <<lexer, start, asks, heap, one, reply, fault>>
    BY <1>2, Moved DEF Warm, buffer, CInv
  <2> QED
    BY <2>1, Unseen DEF Told, Live
<1>3. CASE Execute(c)
  <2>0. loc[c] \in Local
    BY DEF CInv, TInv, TypeOK
  <2>1. /\ pc[c] = "run" /\ pc'[c] = "tally" /\ loc[c].run = start /\ Live(start)
        /\ heap[start].state = "whole"
        /\ UNCHANGED <<lexer, start, asks, heap, one, reply, fault>>
    BY <1>3, Moved DEF Execute, Whole, buffer, CInv, Pointing
  <2>2. loc'[c].got = heap[start] /\ loc'[c].i = loc[c].i
    BY <1>3, <2>0, <2>1, Moved DEF Execute, CInv, Local
  <2> QED
    BY <2>1, <2>2, Unseen DEF Told, Live
<1>4. CASE Exceptional(c)
  <2>1. /\ pc[c] = "run" /\ pc'[c] = "idle" /\ Live(start) /\ heap[start].state = "whole"
        /\ reply' = Exception /\ UNCHANGED <<lexer, start, asks, heap, one, fault>>
    BY <1>4, Moved DEF Exceptional, Return, Whole, buffer, CInv, Pointing
  <2> QED
    BY <2>1, CodeThere, CodeRead DEF Told, Live
<1>5. CASE Derail(c)
  <2>1. /\ pc[c] \in {"warm", "run"} /\ pc'[c] = "dead" /\ Live(start)
        /\ heap[start].state # "whole" /\ fault' \in {"partial", "run"}
        /\ UNCHANGED <<lexer, start, heap, one, reply>>
    BY <1>5, Moved DEF Derail, Whole, buffer, CInv, Pointing, Live
  <2>2. Compiled.state = "partial"
    BY <2>1, CodeThere
  <2> QED
    BY <2>1, <2>2, CodeCrashes DEF Told
<1>6. CASE Tally(c)
  <2>0. loc[c] \in Local
    BY DEF CInv, TInv, TypeOK
  <2>1. /\ pc[c] = "tally" /\ pc'[c] \in {"print", "run"}
        /\ UNCHANGED <<lexer, start, asks, heap, one, reply, fault>>
    BY <1>6, Moved DEF Tally, buffer, CInv
  <2>2. loc'[c].got = loc[c].got /\ loc'[c].i = IF ~ one /\ asks > 0 THEN asks ELSE loc[c].i
    <3>1. PICK j : j = IF ~ one /\ asks > 0 THEN asks ELSE loc[c].i
      OBVIOUS
    <3>2. loc'[c] = [loc[c] EXCEPT !.rep = @ + 1, !.i = j]
      BY <1>6, <3>1, Moved DEF Tally, CInv
    <3> QED
      BY <2>0, <3>1, <3>2, Zenon DEF Local
  <2> QED
    BY <2>1, <2>2, Unseen DEF Told, Live
<1>7. CASE Report(c)
  <2>1. /\ pc[c] = "print" /\ pc'[c] = "idle" /\ Live(start) /\ heap[start].state = "whole"
        /\ reply' = IF one THEN Empty ELSE Answer(heap[start].query, heap[start].one, asks)
        /\ asks = Q!Count(heap[start])
        /\ UNCHANGED <<lexer, start, asks, heap, one, fault>>
    BY <1>7, Moved, SameCount DEF Report, Return, buffer, CInv, Told
  <2>2. Compiled = heap[start]
    BY <2>1, CodeThere
  <2> QED
    BY <2>1, <2>2, CodeRead DEF Told, Live
<1>8. CASE DivideByZero(c)
  <2>1. /\ pc[c] = "print" /\ pc'[c] = "dead" /\ fault' = "divide" /\ one /\ loc[c].i = 1
        /\ UNCHANGED <<lexer, start, heap, one, reply>>
    BY <1>8, Moved DEF DivideByZero, buffer, CInv
  <2>2. Live(start) /\ heap[start].state = "whole" /\ Q!Count(heap[start]) = 1
    BY <2>1, SameCount DEF Told
  <2>3. Compiled = heap[start]
    BY <2>1, <2>2, CodeThere
  <2> QED
    BY <2>1, <2>2, <2>3, CodeCrashes DEF Told
<1>9. CASE ReadCode(c) \/ CheckCode(c)
  <2>1. /\ pc[c] \in {"idle", "check"} /\ pc'[c] \in {"check", "copy", "idle"}
        /\ UNCHANGED <<lexer, start, asks, heap, one, reply, fault>>
    BY <1>9, Moved DEF ReadCode, CheckCode, buffer, CInv
  <2> QED
    BY <2>1, Unseen DEF Told, Live
<1>10. CASE CopyCode(c)
  <2>1. /\ pc[c] = "copy" /\ pc'[c] = "idle"
        /\ UNCHANGED <<lexer, start, asks, heap, one, reply, fault>>
    BY <1>10, Moved DEF CopyCode, buffer, CInv, Pointing
  <2> QED
    BY <2>1, Unseen DEF Told, Live
<1> QED
  BY <1>1, <1>2, <1>3, <1>4, <1>5, <1>6, <1>7, <1>8, <1>9, <1>10 DEF MeasureOf

\* Every step is one of QueryFile, or none that it knows of.
LEMMA StepKept ==
  ASSUME NEW c, Proc = {c}, CInv(c), Told(c), [Next]_vars
  PROVE  Told(c)' /\ [Q!Next]_(Q!vars)
<1>1. CASE UNCHANGED vars
  <2>1. UNCHANGED <<pc, loc, lexer, start, asks, heap, one, reply, fault>>
    BY <1>1 DEF vars, buffer
  <2>2. Stored' = Stored /\ Compiled' = Compiled
    BY <2>1, StandsFor DEF Live
  <2> QED
    BY <2>1, <2>2 DEF Told, Q!vars, Live
<1>2. CASE Configure
  <2>1. UNCHANGED <<pc, loc, lexer, start, asks, heap, reply, fault>> /\ one' = ~ one
    BY <1>2 DEF Configure, buffer
  <2>2. Stored' = Stored /\ Compiled' = Compiled
    BY <2>1, StandsFor DEF Live
  <2>3. Q!Configure
    BY <2>1, <2>2 DEF Q!Configure
  <2> QED
    BY <2>1, <2>3 DEF Told, Q!Next, Live
<1>3. CASE StoreOf(c) \/ GenerateOf(c) \/ MeasureOf(c)
  BY <1>3, StoreKept, GenerateKept, MeasureKept
<1> QED
  BY <1>1, <1>2, <1>3 DEF Next, Step, Call, StoreOf, GenerateOf, MeasureOf

\* A client who has the file to itself gets what QueryFile promises: answers to the query
\* written last, by code compiled at the first read after the write (main.c:194-217,
\* 548-660), for any queries, pages, repetitions and changes of only_one_time.
THEOREM SingleClientServed ==
  ASSUME NEW c, Proc = {c}
  PROVE  Spec => ImplementsQueryFile
<1>1. Init => CInv(c) /\ Told(c) /\ Q!Init
  BY InitSafe, StartKept
<1>2. CInv(c) /\ Told(c) /\ [Next]_vars => CInv(c)' /\ Told(c)' /\ [Q!Next]_(Q!vars)
  BY StepSafe, StepKept
<1> QED
  BY <1>1, <1>2, PTL DEF Spec, ImplementsQueryFile, Q!Spec
=============================================================================
