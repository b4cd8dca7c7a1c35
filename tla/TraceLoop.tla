------------------------------ MODULE TraceLoop ------------------------------
(***************************************************************************)
(* One `run` file: the loop of val_show that executes generated code       *)
(* num_repetitions times, and the part of the generated code that turns    *)
(* the measured time of every profiled access into one bit of RSI.         *)
(* The register is a word of WORD bits (64 in the code), bit 1 the least   *)
(* significant.  only_one_time is off: its result is a time, not a word of *)
(* bits.                                                                   *)
(***************************************************************************)
EXTENDS Integers, Sequences

CONSTANTS
  WORD,        \* width of RSI, RAX and retmask
  NumReps,     \* num_repetitions, read once at the start of the call
  Time,        \* the times an access can take
  TLow, TUp    \* t_hit and t_miss, the thresholds compiled into the code

ASSUME LoopAssumption ==
  /\ WORD \in Nat \ {0}
  /\ NumReps \in Nat
  /\ Time \subseteq Nat
  /\ TLow \in Nat /\ TUp \in Nat

VARIABLES
  pc,          \* idle | run (in the generated code) | ret (back in val_show)
  result,      \* what the last call returned
  asks,        \* code->asks: profiled accesses in the code
  warm,        \* the execution under way is the warm-up, whose value is dropped
  rep,         \* completed repetitions
  rsi,         \* the result register of the generated code
  retmask,     \* what the last execution returned
  trace,       \* hits counted so far, per profiled access
  seen,        \* history: the times measured by the execution under way
  hits         \* history: per profiled access, the repetitions it really hit in

vars == <<pc, result, asks, warm, rep, rsi, retmask, trace, seen, hits>>

Word == [1..WORD -> {0, 1}]
Zero == [i \in 1..WORD |-> 0]

\* generate_code profiles an access only while `asks < 63`.
\* Mutant: `asks < 64`, every bit of the word carries an answer.
AskLimit_FullWord == WORD
AskLimit == WORD - 1

Ask == 1..AskLimit

\* What the error handler loads into RAX: MOV_RAX_CT(-1).
ErrorCode == [i \in 1..WORD |-> 1]

\* CMP rdx, t_low ; JBE error_label.
TooFast(t) == t <= TLow

\* CMP rdx, t_up ; CMOVAE rax, rdi.
MissBit(t) == IF t >= TUp THEN 1 ELSE 0

\* SHL rsi ; OR rsi, rax.
ShlOr(r, b) == [i \in 1..WORD |-> IF i = 1 THEN b ELSE r[i-1]]

\* `bit` walks retmask from 1 << (asks-1) down while i walks trace upwards.
\* Mutant: both walk upwards.
AnswerBit_SameWay(r, n, k) == r[k]
AnswerBit(r, n, k) == r[n - k + 1]

-----------------------------------------------------------------------------
\* A jump to code->start: XOR_RSI_RSI, then the profiled accesses in order.
Execute ==
  /\ pc' = "run"
  /\ rsi' = Zero
  /\ seen' = <<>>

\* val_show is entered, for code with n profiled accesses.
Show(n) ==
  /\ pc = "idle"
  /\ asks' = n
  /\ warm' = TRUE
  /\ rep' = 0
  /\ trace' = [k \in Ask |-> 0]
  /\ hits' = [k \in Ask |-> 0]
  /\ Execute
  /\ UNCHANGED <<result, retmask>>

\* One profiled access that takes a believable time.
Access(t) ==
  /\ pc = "run" /\ Len(seen) < asks
  /\ ~ TooFast(t)
  /\ rsi' = ShlOr(rsi, MissBit(t))
  /\ seen' = Append(seen, t)
  /\ UNCHANGED <<pc, result, asks, warm, rep, retmask, trace, hits>>

\* One that is too fast: the error handler returns at once.
Exception(t) ==
  /\ pc = "run" /\ Len(seen) < asks
  /\ TooFast(t)
  /\ retmask' = ErrorCode
  /\ seen' = Append(seen, t)
  /\ pc' = "ret"
  /\ UNCHANGED <<result, asks, warm, rep, rsi, trace, hits>>

\* The epilogue: MOV rax, rsi ; RET.
Return ==
  /\ pc = "run" /\ Len(seen) = asks
  /\ retmask' = rsi
  /\ pc' = "ret"
  /\ UNCHANGED <<result, asks, warm, rep, rsi, trace, seen, hits>>

\* The loop test, after the warm-up or after a repetition.  No repetition at all
\* counts as too many failures: fails >= num_repetitions.
\* Mutant: rep <= num_repetitions.
Loop_Inclusive(r) ==
  \/ r <= NumReps /\ Execute /\ UNCHANGED result
  \/ r > NumReps /\ pc' = "idle" /\ result' = "trace" /\ UNCHANGED <<rsi, seen>>

Loop(r) ==
  \/ /\ r < NumReps
     /\ Execute
     /\ UNCHANGED result
  \/ /\ r >= NumReps
     /\ pc' = "idle"
     /\ result' = IF NumReps > 0 THEN "trace" ELSE "empty"
     /\ UNCHANGED <<rsi, seen>>

WarmedUp ==
  /\ pc = "ret" /\ warm
  /\ warm' = FALSE
  /\ Loop(0)
  /\ UNCHANGED <<asks, rep, retmask, trace, hits>>

\* "Runtime exception!": the call gives up.
\* Mutant: the repetition is tried again, without the count of failures.
Abort_Retry ==
  /\ pc = "ret" /\ ~ warm
  /\ retmask = ErrorCode
  /\ Execute
  /\ UNCHANGED <<result, asks, warm, rep, retmask, trace, hits>>

Abort ==
  /\ pc = "ret" /\ ~ warm
  /\ retmask = ErrorCode
  /\ pc' = "idle"
  /\ result' = "exception"
  /\ UNCHANGED <<asks, warm, rep, rsi, retmask, trace, seen, hits>>

Tally ==
  /\ pc = "ret" /\ ~ warm
  /\ retmask # ErrorCode
  /\ trace' = [k \in Ask |->
                 IF k <= asks THEN trace[k] + 1 - AnswerBit(retmask, asks, k)
                              ELSE trace[k]]
  /\ hits' = [k \in Ask |->
                 IF k <= asks /\ seen[k] < TUp THEN hits[k] + 1 ELSE hits[k]]
  /\ rep' = rep + 1
  /\ Loop(rep + 1)
  /\ UNCHANGED <<asks, warm, retmask>>

-----------------------------------------------------------------------------
Init ==
  /\ pc = "idle"
  /\ result = "none"
  /\ asks = 0
  /\ warm = FALSE
  /\ rep = 0
  /\ rsi = Zero
  /\ retmask = Zero
  /\ trace = [k \in Ask |-> 0]
  /\ seen = <<>>
  /\ hits = [k \in Ask |-> 0]

InCall ==
  \/ \E t \in Time : Access(t) \/ Exception(t)
  \/ Return \/ WarmedUp \/ Abort \/ Tally

Next == InCall \/ \E n \in 0..AskLimit : Show(n)

Spec == Init /\ [][Next]_vars

\* The call runs in the kernel on behalf of a reader that waits for it.
FairSpec == Spec /\ WF_vars(InCall)

-----------------------------------------------------------------------------
TypeOK ==
  /\ pc \in {"idle", "run", "ret"}
  /\ result \in {"none", "trace", "exception", "empty"}
  /\ asks \in 0..AskLimit
  /\ warm \in BOOLEAN
  /\ rep \in 0..NumReps
  /\ rsi \in Word /\ retmask \in Word
  /\ trace \in [Ask -> Nat]
  /\ hits \in [Ask -> Nat]
  /\ seen \in Seq(Time)
  /\ Len(seen) <= asks

\* The numbers the reader gets are the hits of each profiled access, in the
\* order of the query: the bits packed by the generated code (parser.c:545-566)
\* and unpacked by val_show (main.c:644-658) agree, repetition after repetition.
TraceFaithful == \A k \in Ask : trace[k] = hits[k]

\* An execution is reported as a runtime exception (main.c:623) exactly when an
\* access took at most t_low: no query whose accesses all miss looks like one.
ExceptionExact ==
  pc = "ret" => (retmask = ErrorCode <=> \E k \in 1..Len(seen) : seen[k] <= TLow)

\* A read of the run file returns, whatever the times measured.
Returns == (pc # "idle") ~> (pc = "idle")
=============================================================================
