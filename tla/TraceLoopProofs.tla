--------------------------- MODULE TraceLoopProofs ---------------------------
(***************************************************************************)
(* The safety properties of TraceLoop for every register width, number of  *)
(* repetitions, set of times and pair of thresholds.  The argument: while  *)
(* the generated code runs, bit i of RSI is the miss bit of the i-th last  *)
(* access; there are fewer accesses than bits, so the top bit of an answer *)
(* is 0 and no answer is the error code.                                   *)
(***************************************************************************)
EXTENDS TraceLoop, TLAPS

\* RSI after the accesses s: the last one in bit 1, zeroes above the first one.
Packed(s) ==
  [i \in 1..WORD |-> IF i <= Len(s) THEN MissBit(s[Len(s) - i + 1]) ELSE 0]

Believable(s) == \A k \in 1..Len(s) : ~ TooFast(s[k])

\* What val_show finds in retmask: the error code and a time not to believe,
\* or the packed answer of a complete execution.
Outcome ==
  \/ /\ retmask = ErrorCode
     /\ \E k \in 1..Len(seen) : TooFast(seen[k])
  \/ /\ retmask = Packed(seen)
     /\ Believable(seen)
     /\ Len(seen) = asks

RunInv == pc = "run" => rsi = Packed(seen) /\ Believable(seen)
RetInv == pc = "ret" => Outcome

\* A counted execution is one of the NumReps.
CountInv == pc # "idle" /\ ~ warm => rep < NumReps

\* Nothing is counted before the warm-up is over.
WarmInv == warm => rep = 0

IInv == TypeOK /\ TraceFaithful /\ RunInv /\ RetInv /\ CountInv /\ WarmInv

LEMMA PackedEmpty == Packed(<<>>) = Zero
  BY DEF Packed, Zero

\* One more access shifts the packed word: SHL and OR in that order.
LEMMA PackedAppend ==
  ASSUME NEW s \in Seq(Time), NEW t \in Time
  PROVE  Packed(Append(s, t)) = ShlOr(Packed(s), MissBit(t))
<1> DEFINE u == Append(s, t)
<1>1. /\ Len(u) = Len(s) + 1 /\ Len(s) \in Nat
      /\ u[Len(u)] = t
      /\ \A j \in 1..Len(s) : u[j] = s[j]
  BY LoopAssumption
<1>2. ASSUME NEW i \in 1..WORD
      PROVE  (IF i <= Len(u) THEN MissBit(u[Len(u) - i + 1]) ELSE 0)
             = (IF i = 1 THEN MissBit(t) ELSE Packed(s)[i-1])
  <2>1. CASE i = 1
    BY <1>1, <2>1
  <2>2. CASE i # 1 /\ i <= Len(u)
    <3>1. i - 1 \in 1..WORD /\ i - 1 <= Len(s)
      BY <1>1, <2>2, LoopAssumption
    <3>2. Len(u) - i + 1 = Len(s) - (i - 1) + 1 /\ Len(s) - (i - 1) + 1 \in 1..Len(s)
      BY <1>1, <2>2, <3>1, LoopAssumption
    <3> QED BY <1>1, <2>2, <3>1, <3>2 DEF Packed
  <2>3. CASE i # 1 /\ ~(i <= Len(u))
    BY <1>1, <2>3, LoopAssumption DEF Packed
  <2> QED BY <2>1, <2>2, <2>3
<1> QED BY <1>2 DEF Packed, ShlOr

\* A packed answer of fewer accesses than bits has its top bit clear.
LEMMA PackedIsNoError ==
  ASSUME NEW s \in Seq(Time), Len(s) < WORD
  PROVE  Packed(s) # ErrorCode
<1>1. WORD \in 1..WORD /\ ~(WORD <= Len(s))
  BY LoopAssumption
<1>2. Packed(s)[WORD] = 0 /\ ErrorCode[WORD] = 1
  BY <1>1 DEF Packed, ErrorCode
<1> QED BY <1>2

LEMMA PackedType == ASSUME NEW s \in Seq(Time) PROVE Packed(s) \in Word
  BY DEF Packed, Word, MissBit

LEMMA ConstantsType == Zero \in Word /\ ErrorCode \in Word
  BY DEF Zero, ErrorCode, Word

LEMMA InitIInv == Init => IInv
<1> SUFFICES ASSUME Init PROVE IInv
  OBVIOUS
<1> USE LoopAssumption
<1>1. asks \in 0..AskLimit /\ rep \in 0..NumReps /\ seen \in Seq(Time) /\ Len(seen) <= asks
  BY DEF Init, AskLimit
<1>2. trace \in [Ask -> Nat] /\ hits \in [Ask -> Nat] /\ trace = hits
  BY DEF Init
<1>3. rsi \in Word /\ retmask \in Word
  BY ConstantsType DEF Init
<1> QED BY <1>1, <1>2, <1>3 DEF Init, IInv, TypeOK, TraceFaithful, RunInv, RetInv, CountInv, WarmInv

\* A jump to the generated code starts from the empty word.
LEMMA ExecuteFresh ==
  Execute => /\ pc' = "run" /\ rsi' \in Word /\ seen' \in Seq(Time)
             /\ Len(seen') = 0
             /\ RunInv' /\ RetInv'
  BY PackedEmpty, ConstantsType
  DEF Execute, RunInv, RetInv, Believable

\* Val_show reads off the packed answer what each access really did.
LEMMA AnswerBitOf ==
  ASSUME NEW s \in Seq(Time), Len(s) <= WORD, NEW k \in 1..Len(s)
  PROVE  AnswerBit(Packed(s), Len(s), k) = MissBit(s[k])
<1> USE LoopAssumption
<1>1. Len(s) - k + 1 \in 1..WORD /\ Len(s) - k + 1 <= Len(s)
  OBVIOUS
<1>2. Len(s) - (Len(s) - k + 1) + 1 = k
  OBVIOUS
<1> QED BY <1>1, <1>2 DEF AnswerBit, Packed

\* Whichever way the loop test goes, the invariant is restored.
LEMMA LoopIInv ==
  ASSUME IInv, NEW r \in Nat, Loop(r), pc = "ret",
         r <= NumReps,
         asks' = asks, warm' = FALSE, rep' = r, retmask' = retmask,
         trace' \in [Ask -> Nat], hits' \in [Ask -> Nat], TraceFaithful'
  PROVE  IInv'
<1> USE LoopAssumption
<1>1. CASE r < NumReps /\ Execute /\ UNCHANGED result
  <2>1. asks \in Nat
    BY DEF IInv, TypeOK, AskLimit
  <2>2. rep' \in 0..NumReps
    OBVIOUS
  <2>3. pc' = "run" /\ rsi' \in Word /\ seen' \in Seq(Time) /\ Len(seen') <= asks'
    BY <1>1, <2>1, ExecuteFresh
  <2>4. TypeOK'
    BY <1>1, <2>2, <2>3 DEF IInv, TypeOK
  <2> QED BY <1>1, <2>4, ExecuteFresh DEF IInv, CountInv, WarmInv
<1>2. CASE /\ r >= NumReps
           /\ pc' = "idle"
           /\ result' = IF NumReps > 0 THEN "trace" ELSE "empty"
           /\ UNCHANGED <<rsi, seen>>
  <2>1. rep' \in 0..NumReps
    OBVIOUS
  <2>2. TypeOK'
    BY <1>2, <2>1 DEF IInv, TypeOK
  <2> QED BY <1>2, <2>2 DEF IInv, RunInv, RetInv, CountInv, WarmInv
<1> QED BY <1>1, <1>2 DEF Loop

LEMMA StepIInv == IInv /\ [Next]_vars => IInv'
<1> SUFFICES ASSUME IInv, [Next]_vars PROVE IInv'
  OBVIOUS
<1> USE LoopAssumption
<1>1. ASSUME NEW n \in 0..AskLimit, Show(n) PROVE IInv'
  <2>1. Execute BY <1>1 DEF Show
  <2>2. TypeOK'
    BY <1>1, <2>1, ExecuteFresh DEF Show, IInv, TypeOK, AskLimit, Ask
  <2>3. TraceFaithful' /\ CountInv' /\ WarmInv'
    BY <1>1 DEF Show, TraceFaithful, CountInv, WarmInv
  <2> QED BY <2>1, <2>2, <2>3, ExecuteFresh DEF IInv
<1>2. ASSUME NEW t \in Time, Access(t) PROVE IInv'
  <2>1. rsi' = Packed(seen')
    BY <1>2, PackedAppend DEF Access, IInv, TypeOK, RunInv
  <2>2. seen' \in Seq(Time) /\ Len(seen') <= asks
    BY <1>2 DEF Access, IInv, TypeOK, AskLimit
  <2>3. Believable(seen')
    BY <1>2 DEF Access, IInv, TypeOK, RunInv, Believable
  <2>4. TypeOK'
    BY <1>2, <2>1, <2>2, PackedType DEF Access, IInv, TypeOK
  <2>5. RunInv'
    BY <2>1, <2>3 DEF RunInv, Believable
  <2> QED BY <1>2, <2>4, <2>5 DEF Access, IInv, TraceFaithful, RetInv, CountInv, WarmInv
<1>3. ASSUME NEW t \in Time, Exception(t) PROVE IInv'
  <2>1. seen' \in Seq(Time) /\ Len(seen') <= asks /\ Len(seen') \in 1..Len(seen')
        /\ seen'[Len(seen')] = t
    BY <1>3 DEF Exception, IInv, TypeOK, AskLimit
  <2>2. TypeOK'
    BY <1>3, <2>1, ConstantsType DEF Exception, IInv, TypeOK
  <2>3. Outcome'
    BY <1>3, <2>1 DEF Exception, Outcome
  <2> QED BY <1>3, <2>2, <2>3
          DEF Exception, IInv, TraceFaithful, RunInv, RetInv, CountInv, WarmInv
<1>4. CASE Return
  <2>1. Outcome'
    BY <1>4 DEF Return, IInv, RunInv, Outcome, Believable, Packed
  <2> QED BY <1>4, <2>1 DEF Return, IInv, TypeOK, TraceFaithful, RunInv, RetInv, CountInv, WarmInv
<1>5. CASE WarmedUp
  <2>1. TraceFaithful'
    BY <1>5 DEF WarmedUp, IInv, TraceFaithful
  <2>2. trace' \in [Ask -> Nat] /\ hits' \in [Ask -> Nat]
    BY <1>5 DEF WarmedUp, IInv, TypeOK
  <2>3. rep' = rep /\ rep \in Nat /\ rep <= NumReps /\ rep = 0
    BY <1>5 DEF WarmedUp, IInv, TypeOK, WarmInv
  <2> QED BY <1>5, <2>1, <2>2, <2>3, LoopIInv DEF WarmedUp
<1>6. CASE Abort
  BY <1>6 DEF Abort, IInv, TypeOK, TraceFaithful, RunInv, RetInv, CountInv, WarmInv
<1>7. CASE Tally
  <2>1. retmask = Packed(seen) /\ Believable(seen) /\ Len(seen) = asks
    BY <1>7 DEF Tally, IInv, RetInv, Outcome
  <2>2. ASSUME NEW k \in 1..asks PROVE AnswerBit(retmask, asks, k) = MissBit(seen[k])
    <3>1. seen \in Seq(Time) /\ Len(seen) <= WORD
      BY <2>1 DEF IInv, TypeOK, AskLimit
    <3>2. AnswerBit(Packed(seen), Len(seen), k) = MissBit(seen[k])
      BY <2>1, <3>1, AnswerBitOf
    <3> QED BY <2>1, <3>2
  <2>3. ASSUME NEW k \in Ask, k <= asks PROVE k \in 1..asks /\ seen[k] \in Nat
    <3>1. asks \in Nat /\ k \in Nat /\ k >= 1
      BY DEF IInv, TypeOK, Ask, AskLimit
    <3>2. k \in 1..Len(seen) /\ seen \in Seq(Time)
      BY <2>1, <2>3, <3>1 DEF IInv, TypeOK
    <3>3. seen[k] \in Time
      BY <3>2
    <3>4. seen[k] \in Nat
      BY ONLY <3>3, LoopAssumption DEF LoopAssumption
    <3>5. k \in 1..asks
      BY ONLY <2>3, <3>1
    <3> QED BY <3>4, <3>5
  <2>4. \A k \in Ask : trace'[k] = (IF k <= asks /\ seen[k] < TUp
                                    THEN trace[k] + 1 ELSE trace[k])
    BY <1>7, <2>2, <2>3 DEF Tally, MissBit, IInv, TypeOK
  <2>5. trace' = [k \in Ask |-> trace'[k]]
    BY <1>7 DEF Tally
  <2>6. trace' \in [Ask -> Nat] /\ hits' \in [Ask -> Nat]
    <3>1. trace \in [Ask -> Nat] /\ hits \in [Ask -> Nat]
      BY DEF IInv, TypeOK
    <3>2. \A k \in Ask : trace'[k] \in Nat
      BY <2>4, <3>1
    <3>3. hits' \in [Ask -> Nat]
      BY <1>7, <3>1 DEF Tally
    <3> QED BY <2>5, <3>2, <3>3
  <2>7. TraceFaithful'
    BY <1>7, <2>4 DEF Tally, IInv, TraceFaithful
  <2>8. rep + 1 \in Nat /\ rep + 1 <= NumReps
    BY <1>7 DEF Tally, IInv, TypeOK, CountInv
  <2>9. warm' = FALSE
    BY <1>7 DEF Tally, IInv, TypeOK
  <2> QED BY <1>7, <2>6, <2>7, <2>8, <2>9, LoopIInv DEF Tally
<1>8. CASE UNCHANGED vars
  BY <1>8 DEF vars, IInv, TypeOK, TraceFaithful, RunInv, RetInv, CountInv, WarmInv,
              Outcome, Believable, Packed
<1> QED BY <1>1, <1>2, <1>3, <1>4, <1>5, <1>6, <1>7, <1>8 DEF Next, InCall

\* The inductive invariant holds in every reachable state.
LEMMA Invariance == Spec => []IInv
  BY InitIInv, StepIInv, PTL DEF Spec

\* Every variable of a run of val_show keeps its type: in particular no more
\* accesses are profiled than the word has bits, less one (parser.c:476).
THEOREM TypeCorrect == Spec => []TypeOK
<1>1. IInv => TypeOK BY DEF IInv
<1> QED BY Invariance, <1>1, PTL

\* The numbers val_show prints are the hits of each profiled access, for any
\* width of the word, any number of repetitions and any times and thresholds
\* (parser.c:545-566 packs, main.c:644-658 unpacks).
THEOREM TraceCorrect == Spec => []TraceFaithful
<1>1. IInv => TraceFaithful BY DEF IInv
<1> QED BY Invariance, <1>1, PTL

\* The error code is unambiguous: val_show sees it (main.c:623) if and only if
\* a profiled access took at most t_low (parser.c:550-552).
THEOREM ExceptionCorrect == Spec => []ExceptionExact
<1>1. ASSUME IInv PROVE ExceptionExact
  <2> USE LoopAssumption
  <2>1. seen \in Seq(Time) /\ Len(seen) < WORD
    BY <1>1 DEF IInv, TypeOK, AskLimit
  <2>2. Packed(seen) # ErrorCode
    BY <2>1, PackedIsNoError
  <2> QED BY <1>1, <2>2 DEF IInv, RetInv, Outcome, Believable, TooFast, ExceptionExact
<1> QED BY Invariance, <1>1, PTL
=============================================================================
