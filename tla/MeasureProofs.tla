--------------------------- MODULE MeasureProofs -----------------------------
(***************************************************************************)
(* For any clients, processors and code pages: no counter is left running, *)
(* the counters count what the code reads, a calibrated threshold is the   *)
(* least of the times recorded for it, areas are accounted for, and code   *)
(* keeps out of the cache sets it measures.                                *)
(***************************************************************************)
EXTENDS Measure, WellFoundedInduction, FiniteSetTheorems, TLAPS

Domains ==
  /\ DOMAIN pc = Client /\ DOMAIN phase = Client /\ DOMAIN cpu = Client
  /\ DOMAIN pmu = Cpu
  /\ moves \in Nat

\* The call that has the counter of a processor running.
Counting(c, p) == pc[c] \in {"run", "stop"} /\ cpu[c] = p /\ Unit(c) # "tsc"

\* Unless a call was moved or the configuration changed under one, a counter that
\* runs does so for a call that will stop it.
RunsForCall ==
  moves = 0 /\ ~midway =>
    \A p \in Cpu : pmu[p] # "off" => \E c \in Client : Counting(c, p)

CInv == Domains /\ RunsForCall

-----------------------------------------------------------------------------
LEMMA InitCounters == Init => CInv
BY DEF Init, CInv, Domains, RunsForCall

\* A step of c leaves what the others count alone.
LEMMA OthersCount ==
  ASSUME Domains, NEW c \in Client, NEW d \in Client, d # c, NEW p \in Cpu, Counting(d, p),
         UNCHANGED conf,
         pc' = pc \/ \E l : pc' = [pc EXCEPT ![c] = l],
         phase' = phase \/ \E x : phase' = [phase EXCEPT ![c] = x],
         cpu' = cpu \/ \E x : cpu' = [cpu EXCEPT ![c] = x]
  PROVE  Counting(d, p)'
<1>1. pc'[d] = pc[d] /\ phase'[d] = phase[d] /\ cpu'[d] = cpu[d]
  BY DEF Domains
<1> QED BY <1>1 DEF Counting, Unit

\* A step of a call that has no counter running and programs none.
LEMMA IdleStep ==
  ASSUME CInv, NEW c \in Client, pc[c] \notin {"run", "stop"},
         UNCHANGED <<conf, pmu, moves, midway>>,
         pc' = pc \/ \E l : pc' = [pc EXCEPT ![c] = l],
         phase' = phase \/ \E x : phase' = [phase EXCEPT ![c] = x],
         cpu' = cpu \/ \E x : cpu' = [cpu EXCEPT ![c] = x]
  PROVE  CInv'
<1>1. Domains'
  BY DEF CInv, Domains
<1>2. ASSUME moves = 0, ~midway, NEW p \in Cpu, pmu[p] # "off"
      PROVE  \E d \in Client : Counting(d, p)'
  <2>1. PICK d \in Client : Counting(d, p)
    BY <1>2 DEF CInv, RunsForCall
  <2>2. d # c
    BY <2>1 DEF Counting
  <2> QED BY <2>1, <2>2, OthersCount DEF CInv
<1> QED BY <1>1, <1>2 DEF CInv, RunsForCall

\* The end of a run of code: its counter is stopped.
LEMMA StopStep ==
  ASSUME CInv, NEW c \in Client, pmu' = Stopped(c), UNCHANGED <<conf, moves, midway>>,
         pc' = pc \/ \E l : pc' = [pc EXCEPT ![c] = l],
         phase' = phase \/ \E x : phase' = [phase EXCEPT ![c] = x],
         cpu' = cpu \/ \E x : cpu' = [cpu EXCEPT ![c] = x]
  PROVE  CInv'
<1>1. Domains'
  BY DEF CInv, Domains, Stopped
<1>2. ASSUME moves = 0, ~midway, NEW p \in Cpu, pmu'[p] # "off"
      PROVE  \E d \in Client : Counting(d, p)'
  <2>1. pmu[p] # "off" /\ (Unit(c) # "tsc" => p # cpu[c])
    BY <1>2 DEF Stopped, CInv, Domains
  <2>2. PICK d \in Client : Counting(d, p)
    BY <1>2, <2>1 DEF CInv, RunsForCall
  <2>3. d # c
    BY <2>1, <2>2 DEF Counting
  <2> QED BY <2>2, <2>3, OthersCount DEF CInv
<1> QED BY <1>1, <1>2 DEF CInv, RunsForCall

LEMMA StepCounters == CInv /\ [Next]_vars => CInv'
<1> SUFFICES ASSUME CInv, [Next]_vars PROVE CInv'
  OBVIOUS
<1>1. CASE UNCHANGED vars
  BY <1>1 DEF vars, call, bounds, CInv, Domains, RunsForCall, Counting, Unit
<1>2. CASE Configure
  <2>1. UNCHANGED <<pc, phase, cpu, pmu, moves>>
    BY <1>2 DEF Configure, call
  <2>2. Domains'
    BY <2>1 DEF CInv, Domains
  <2>3. ASSUME moves = 0, ~midway', NEW p \in Cpu PROVE pmu[p] = "off"
    <3>1. ~midway /\ \A c \in Client : Over(c)
      BY <1>2, <2>3 DEF Configure
    <3> QED BY <2>3, <3>1 DEF CInv, RunsForCall, Counting, Over
  <2> QED BY <2>1, <2>2, <2>3 DEF CInv, RunsForCall
<1>3. ASSUME NEW c \in Client, Store(c) PROVE CInv'
  BY <1>3 DEF Store, call, bounds, CInv, Domains, RunsForCall, Counting, Unit
<1>4. ASSUME NEW c \in Client, Move(c) PROVE CInv'
  <2>1. moves' = moves + 1 /\ moves \in Nat
    BY <1>4 DEF Move, CInv, Domains
  <2>2. Domains'
    BY <1>4, <2>1 DEF Move, call, CInv, Domains
  <2> QED BY <2>1, <2>2 DEF CInv, RunsForCall
<1>5. ASSUME NEW c \in Client, Step(c) PROVE CInv'
  <2>1. CASE Show(c)
    BY <2>1, IdleStep DEF Show, Free, Enter, Goto, bounds
  <2>2. CASE Clear(c) \/ Place(c) \/ Emit(c)
    BY <2>2, IdleStep DEF Clear, Place, Emit, Goto, bounds
  <2>3. CASE NoPages(c)
    BY <2>3, IdleStep DEF NoPages, Return, End, Failed, Enter, Goto, bounds
  <2>4. CASE NoRoom(c) \/ Beach(c) \/ Least(c) \/ Derail(c)
    BY <2>4, IdleStep DEF NoRoom, Beach, Derail, Least, Return, End, Failed, Enter, Goto, bounds
  <2>5. CASE Prepare(c)
    <3>1. Domains'
      BY <2>5 DEF Prepare, Goto, bounds, CInv, Domains
    <3>2. ASSUME moves = 0, ~midway, NEW p \in Cpu, pmu'[p] # "off"
          PROVE  \E d \in Client : Counting(d, p)'
      <4>1. CASE Unit(c) # "tsc" /\ p = cpu[c]
        <5>1. Counting(c, p)'
          BY <2>5, <4>1 DEF Prepare, Goto, Counting, Unit, CInv, Domains
        <5> QED BY <5>1
      <4>2. CASE ~(Unit(c) # "tsc" /\ p = cpu[c])
        <5>1. pmu[p] # "off"
          BY <2>5, <3>2, <4>2 DEF Prepare, CInv, Domains
        <5>2. PICK d \in Client : Counting(d, p)
          BY <3>2, <5>1 DEF CInv, RunsForCall
        <5>3. d # c
          BY <2>5, <5>2 DEF Prepare, Counting
        <5> QED BY <2>5, <5>2, <5>3, OthersCount DEF Prepare, Goto, CInv
      <4> QED BY <4>1, <4>2
    <3> QED BY <2>5, <3>1, <3>2 DEF CInv, RunsForCall, Prepare, bounds
  <2>6. CASE Run(c)
    <3>1. Domains'
      BY <2>6 DEF Run, Goto, bounds, CInv, Domains
    <3>2. \A d \in Client, p \in Cpu : Counting(d, p) => Counting(d, p)'
      BY <2>6 DEF Run, Goto, Counting, Unit, CInv, Domains
    <3> QED BY <2>6, <3>1, <3>2 DEF CInv, RunsForCall, Run, bounds
  <2>7. CASE Recorded(c)
    BY <2>7, StopStep DEF Recorded, Again, Goto, bounds
  <2>8. CASE Repeated(c)
    BY <2>8, StopStep DEF Repeated, Return, End, Again, Goto, bounds
  <2> QED BY <1>5, <2>1, <2>2, <2>3, <2>4, <2>5, <2>6, <2>7, <2>8 DEF Step
<1> QED BY <1>1, <1>2, <1>3, <1>4, <1>5 DEF Next

\* However many calls overlap on however many processors: when all are over no
\* counter runs, unless a call was moved or the configuration changed under one.
THEOREM CountersCorrect == Spec => []CountersStop
<1>1. CInv => CountersStop
  BY DEF CInv, RunsForCall, CountersStop, Counting, Over
<1> QED BY InitCounters, StepCounters, <1>1, PTL DEF Spec

-----------------------------------------------------------------------------
\* The variables' types, and where in a call its code exists.
Units == {"L1", "L2", "L3", "cycles", "tsc"}
Labels == {"idle", "clear", "place", "emit", "prepare", "run", "stop", "least", "dead"}

Marked == [value : Int, unit : Units \cup {"given", "failed"}]
Codes == [unit : Units \cup {"none", "partial"}, thr : [Threshold -> Units \cup {"given", "failed"}]]

MType ==
  /\ pc \in [Client -> Labels] /\ phase \in [Client -> Threshold \cup {"query"}]
  /\ cpu \in [Client -> Cpu \cup {Elsewhere}]
  /\ tries \in [Client -> Nat] /\ area \in [Client -> Areas \cup {NoArea}]
  /\ thr \in [Client -> [Threshold -> Marked]]
  /\ code \in [Client -> Codes]
  /\ conf \in [pmc : BOOLEAN, cycles : BOOLEAN]
  /\ cal \subseteq 0..MaxTime /\ pmu \in [Cpu -> Units \cup {"off"}]
  /\ own \in [Threshold -> SUBSET (0..MaxTime)]
  /\ DOMAIN alone = Client /\ DOMAIN stale = Client
  /\ areas \in Int /\ full \in Nat /\ moves \in Nat

\* A call is at clear or least only for a calibration; the query's code is generated
\* once and then there until the call is over, which has no thresholds left; only
\* whole code has its counter programmed; and while a call is alone the others have
\* none.
FlowAt(c) ==
  /\ Over(c) => phase[c] = "query" /\ thr[c] = [t \in Threshold |-> Given]
  /\ pc[c] \in {"clear", "least"} => phase[c] # "query"
  /\ pc[c] \in {"place", "emit"} /\ phase[c] = "query" => code[c] = NoCode
  /\ pc[c] \in {"prepare", "run", "stop"} /\ phase[c] = "query" => code[c] # NoCode
  /\ pc[c] \in {"run", "stop"} /\ phase[c] = "query" => code[c] # Partial
  /\ ~Over(c) => cpu[c] \in Cpu
  /\ ~Over(c) /\ alone[c] => \A d \in Client \ {c} : Over(d)
Flow == \A c \in Client : FlowAt(c)
MInv == MType /\ Flow

LEMMA UnitType ==
  ASSUME MType, NEW c \in Client
  PROVE  Unit(c) \in Units
<1>1. Event(Target[c].level) \in {"L1", "L2", "L3"}
  BY MeasureAssumption DEF MeasureAssumption, Event
<1> QED BY <1>1 DEF MType, Unit, Units

\* A set of naturals that is not empty has a least member.
LEMMA LeastMember ==
  ASSUME NEW S, S \subseteq Nat, S # {}
  PROVE  \E t \in S : \A u \in S : t <= u
<1>1. PICK t \in S : \A u \in S : ~(<<u, t>> \in OpToRel(<, Nat))
  BY NatLessThanWellFounded, WFMin
<1>2. ASSUME NEW u \in S PROVE t <= u
  <2>1. <<u, t>> \notin OpToRel(<, Nat)
    BY <1>1
  <2>2. ~(u < t)
    BY <2>1 DEF OpToRel
  <2> QED BY <2>2
<1> QED BY <1>2

\* get_min: one of the times and no more than any, MAX_TIME if there is none.
LEMMA GetMinIsLeast ==
  ASSUME NEW S, S \subseteq 0..MaxTime
  PROVE  /\ GetMin(S) \in S \cup {MaxTime} /\ GetMin(S) \in 0..MaxTime
         /\ \A u \in S : GetMin(S) <= u
<1>1. MaxTime \in Nat
  BY MeasureAssumption DEF MeasureAssumption
<1>2. CASE S = {}
  BY <1>1, <1>2 DEF GetMin
<1>3. CASE S # {}
  <2>0. S \subseteq Nat
    BY <1>1
  <2>1. \E t \in S : \A u \in S : t <= u
    BY <2>0, <1>3, LeastMember
  <2> QED BY <1>1, <1>3, <2>1 DEF GetMin
<1> QED BY <1>2, <1>3

LEMMA EnterTypes ==
  ASSUME MType, NEW c \in Client, NEW p \in Threshold \cup {"query"}, Enter(c, p)
  PROVE  /\ pc' \in [Client -> Labels] /\ phase' \in [Client -> Threshold \cup {"query"}]
         /\ tries' \in [Client -> Nat]
BY DEF Enter, Goto, MType, Labels

LEMMA ForgetTypes ==
  ASSUME MType, NEW c \in Client, Forget(c)
  PROVE  /\ thr' \in [Client -> [Threshold -> Marked]]
         /\ own' \in [Threshold -> SUBSET (0..MaxTime)]
<1>1. [t \in Threshold |-> Given] \in [Threshold -> Marked]
  BY DEF Given, Marked
<1> QED BY <1>1 DEF Forget, MType

LEMMA ThresholdSet ==
  ASSUME NEW f \in [Client -> [Threshold -> Marked]], NEW c \in Client, NEW t \in Threshold, NEW x \in Marked
  PROVE  [f EXCEPT ![c][t] = x] \in [Client -> [Threshold -> Marked]]
OBVIOUS

LEMMA FieldSet ==
  ASSUME NEW r \in Marked
  PROVE  /\ \A v \in Int : [r EXCEPT !.value = v] \in Marked
         /\ \A u \in Units : [r EXCEPT !.unit = u] \in Marked
BY DEF Marked

LEMMA FailedTypes ==
  ASSUME MType, NEW c \in Client, phase[c] \in Threshold, Failed(c)
  PROVE  /\ pc' \in [Client -> Labels] /\ phase' \in [Client -> Threshold \cup {"query"}]
         /\ tries' \in [Client -> Nat]
         /\ thr' \in [Client -> [Threshold -> Marked]]
<1>1. After(c, phase[c]) \in Threshold \cup {"query"}
  BY DEF After, Threshold
<1>2. [value |-> -1, unit |-> "failed"] \in Marked
  BY DEF Marked
<1> QED BY <1>1, EnterTypes, ThresholdSet, <1>2 DEF Failed, MType

LEMMA NoCodeTypes == NoCode \in Codes /\ Partial \in Codes /\ NoCode # Partial
BY DEF NoCode, Partial, Codes

LEMMA EndTypes ==
  ASSUME MType, NEW c \in Client, NEW l \in {"idle", "dead"}, End(c, l)
  PROVE  /\ pc' \in [Client -> Labels] /\ phase' \in [Client -> Threshold \cup {"query"}]
         /\ tries' \in [Client -> Nat] /\ cpu' \in [Client -> Cpu \cup {Elsewhere}]
         /\ DOMAIN alone' = Client
         /\ thr' \in [Client -> [Threshold -> Marked]]
         /\ own' \in [Threshold -> SUBSET (0..MaxTime)]
BY ForgetTypes DEF End, Goto, MType, Labels

LEMMA StoppedType ==
  ASSUME MType, NEW c \in Client
  PROVE  Stopped(c) \in [Cpu -> Units \cup {"off"}]
BY DEF Stopped, MType

LEMMA InitTypes == Init => MInv
<1> SUFFICES ASSUME Init PROVE MInv
  OBVIOUS
<1>1. NoCode \in Codes
  BY NoCodeTypes
<1>2. [t \in Threshold |-> Given] \in [Threshold -> Marked]
  BY DEF Given, Marked
<1>3. MType
  BY <1>1, <1>2 DEF Init, MType, Labels
<1>4. Flow
  BY DEF Init, Flow, FlowAt, Over
<1> QED BY <1>3, <1>4 DEF MInv

LEMMA TypeStep == MInv /\ [Next]_vars => MType'
<1> SUFFICES ASSUME MInv, [Next]_vars PROVE MType'
  OBVIOUS
<1>0. MType
  BY DEF MInv
<1>1. CASE UNCHANGED vars
  BY <1>0, <1>1 DEF vars, call, bounds, MType
<1>2. CASE Configure
  BY <1>0, <1>2 DEF Configure, call, MType
<1>3. ASSUME NEW c \in Client, Store(c) PROVE MType'
  <2>1. NoCode \in Codes
    BY NoCodeTypes
  <2> QED BY <1>0, <1>3, <2>1 DEF Store, call, bounds, MType
<1>4. ASSUME NEW c \in Client, Move(c) PROVE MType'
  BY <1>0, <1>4 DEF Move, call, MType
<1>5. ASSUME NEW c \in Client, Step(c) PROVE MType'
  <2>1. CASE Show(c)
    <3>1. First(c) \in Threshold \cup {"query"}
      BY DEF First, Threshold
    <3>2. cpu' \in [Client -> Cpu \cup {Elsewhere}] /\ DOMAIN alone' = Client
      BY <1>0, <2>1 DEF Show, MType
    <3> QED BY <1>0, <2>1, <3>1, <3>2, EnterTypes, ForgetTypes DEF Show, bounds, MType
  <2>2. CASE Clear(c)
    BY <1>0, <2>2 DEF Clear, Cleared, Goto, bounds, MType, Labels
  <2>3. CASE Place(c)
    <3>1. tries' \in [Client -> Nat]
      BY <1>0, <2>3 DEF Place, MType
    <3>2. pc' \in [Client -> Labels] /\ area' \in [Client -> Areas \cup {NoArea}] /\ areas' \in Int
      <4>1. PICK a \in Areas :
              \/ UNCHANGED <<pc, area, areas>>
              \/ /\ pc' = [pc EXCEPT ![c] = "emit"] /\ area' = [area EXCEPT ![c] = a]
                 /\ areas' = areas + 1
        BY <2>3 DEF Place, Goto
      <4>2. area \in [Client -> Areas \cup {NoArea}] /\ pc \in [Client -> Labels] /\ areas \in Int
        BY <1>0 DEF MType
      <4>3. area' \in [Client -> Areas \cup {NoArea}]
        BY <4>1, <4>2
      <4>4. pc' \in [Client -> Labels] /\ areas' \in Int
        BY <4>1, <4>2 DEF Labels
      <4> QED BY <4>3, <4>4
    <3> QED BY <1>0, <2>3, <3>1, <3>2 DEF Place, bounds, MType
  <2>4. CASE NoPages(c)
    <3>1. CASE phase[c] = "query"
      BY <1>0, <2>4, <3>1, EndTypes DEF NoPages, Return, bounds, MType
    <3>2. CASE phase[c] # "query"
      <4>1. phase[c] \in Threshold
        BY <1>0, <3>2 DEF MType
      <4> QED BY <1>0, <2>4, <3>2, <4>1, FailedTypes DEF NoPages, bounds, MType
    <3> QED BY <3>1, <3>2
  <2>5. CASE NoRoom(c) \/ Beach(c)
    <3>1. area' \in [Client -> Areas \cup {NoArea}] /\ areas' \in Int /\ full' \in Nat
      BY <1>0, <2>5 DEF NoRoom, Beach, GivenBack, bounds, MType
    <3>2. CASE phase[c] = "query"
      <4>1. code' \in [Client -> Codes]
        BY <1>0, <2>5, <3>2, NoCodeTypes DEF NoRoom, Beach, MType
      <4>2. Return(c)
        BY <2>5, <3>2 DEF NoRoom, Beach
      <4> QED BY <1>0, <2>5, <3>1, <4>1, <4>2, EndTypes DEF NoRoom, Beach, Return, bounds, MType
    <3>3. CASE phase[c] # "query"
      <4>1. phase[c] \in Threshold
        BY <1>0, <3>3 DEF MType
      <4> QED BY <1>0, <2>5, <3>1, <3>3, <4>1, FailedTypes DEF NoRoom, Beach, bounds, MType
    <3> QED BY <3>2, <3>3
  <2>6. CASE Emit(c)
    <3>1. Unit(c) \in Units
      BY <1>0, UnitType
    <3>2. pc' \in [Client -> Labels] /\ area' \in [Client -> Areas \cup {NoArea}]
      BY <1>0, <2>6 DEF Emit, Goto, MType, Labels
    <3>3. CASE phase[c] = "query"
      <4>1. [t \in Threshold |-> thr[c][t].unit] \in [Threshold -> Units \cup {"given", "failed"}]
        BY <1>0 DEF MType, Marked
      <4>2. code' \in [Client -> Codes]
        <5> DEFINE C == Codes
                   k == [unit |-> Unit(c), thr |-> [t \in Threshold |-> thr[c][t].unit]]
        <5>1. k \in C
          BY <3>1, <4>1 DEF Codes
        <5>2. code \in [Client -> C] /\ code' = [code EXCEPT ![c] = k]
          BY <1>0, <2>6, <3>3 DEF Emit, MType
        <5> HIDE DEF C, k
        <5>3. code' \in [Client -> C]
          BY <5>1, <5>2
        <5> QED BY <5>3 DEF C
      <4>3. Forget(c)
        BY <2>6, <3>3 DEF Emit
      <4> QED BY <1>0, <2>6, <3>2, <4>2, <4>3, ForgetTypes DEF Emit, bounds, MType
    <3>4. CASE phase[c] # "query"
      <4>1. phase[c] \in Threshold
        BY <1>0, <3>4 DEF MType
      <4>2. thr' = [thr EXCEPT ![c][phase[c]].unit = Unit(c)]
        BY <2>6, <3>4 DEF Emit
      <4>3. thr' \in [Client -> [Threshold -> Marked]]
        <5>1. thr \in [Client -> [Threshold -> Marked]]
          BY <1>0 DEF MType
        <5>2. [thr[c][phase[c]] EXCEPT !.unit = Unit(c)] \in Marked
          BY <3>1, <4>1, <5>1, FieldSet
        <5>3. thr' = [thr EXCEPT ![c][phase[c]] = [thr[c][phase[c]] EXCEPT !.unit = Unit(c)]]
          BY <4>1, <4>2, <5>1
        <5> QED BY <4>1, <5>1, <5>2, <5>3, ThresholdSet
      <4> QED BY <1>0, <2>6, <3>2, <3>4, <4>3 DEF Emit, bounds, MType
    <3> QED BY <3>3, <3>4
  <2>7. CASE Prepare(c)
    <3>1. Unit(c) \in Units
      BY <1>0, UnitType
    <3> QED BY <1>0, <2>7, <3>1 DEF Prepare, Goto, bounds, MType, Labels
  <2>8. CASE Run(c)
    BY <1>0, <2>8 DEF Run, Goto, bounds, MType, Labels
  <2>9. CASE Recorded(c)
    <3>1. phase[c] \in Threshold /\ pmu' \in [Cpu -> Units \cup {"off"}]
      BY <1>0, <2>9, StoppedType DEF Recorded, MType
    <3>2. pc' \in [Client -> Labels] /\ UNCHANGED <<phase, tries, thr, area, cpu, code, conf, areas, alone, stale, bounds>>
      BY <1>0, <2>9 DEF Recorded, Again, Goto, MType, Labels
    <3>3. cal' \subseteq 0..MaxTime /\ own' \in [Threshold -> SUBSET (0..MaxTime)]
      <4>1. PICK t \in 0..MaxTime :
              \/ cal' = cal \cup {t} /\ own' = IF alone[c] THEN [own EXCEPT ![phase[c]] = @ \cup {t}] ELSE own
              \/ UNCHANGED <<cal, own>>
        BY <2>9 DEF Recorded
      <4>2. cal \subseteq 0..MaxTime /\ own \in [Threshold -> SUBSET (0..MaxTime)]
        BY <1>0 DEF MType
      <4>3. own[phase[c]] \cup {t} \in SUBSET (0..MaxTime)
        BY <3>1, <4>1, <4>2
      <4>4. [own EXCEPT ![phase[c]] = @ \cup {t}] \in [Threshold -> SUBSET (0..MaxTime)]
        <5> HIDE DEF Threshold
        <5> QED BY <4>2, <4>3
      <4> QED BY <4>1, <4>2, <4>4
    <3> QED BY <1>0, <3>1, <3>2, <3>3 DEF bounds, MType
  <2>10. CASE Repeated(c)
    <3>1. pmu' \in [Cpu -> Units \cup {"off"}] /\ UNCHANGED <<area, code, conf, cal, areas, stale, bounds>>
      BY <1>0, <2>10, StoppedType DEF Repeated
    <3>2. CASE Return(c)
      BY <1>0, <3>1, <3>2, EndTypes DEF Return, bounds, MType
    <3>3. CASE n[c] + 1 < Reps /\ Again(c, Reps, "idle") /\ UNCHANGED <<cpu, own, alone>>
      BY <1>0, <3>1, <3>3 DEF Again, Goto, bounds, MType, Labels
    <3> QED BY <2>10, <3>2, <3>3 DEF Repeated
  <2>11. CASE Least(c)
    <3>1. phase[c] \in Threshold
      BY <2>11 DEF Least, MInv, MType, Flow, FlowAt
    <3>2. After(c, phase[c]) \in Threshold \cup {"query"}
      BY DEF After, Threshold
    <3>3. GetMin(cal) \in Int
      <4>1. cal \subseteq 0..MaxTime
        BY <1>0 DEF MType
      <4>2. GetMin(cal) \in 0..MaxTime
        BY <4>1, GetMinIsLeast
      <4> QED BY <4>2, MeasureAssumption DEF MeasureAssumption
    <3>4. thr' \in [Client -> [Threshold -> Marked]]
      <4>1. thr \in [Client -> [Threshold -> Marked]]
        BY <1>0 DEF MType
      <4>2. [thr[c][phase[c]] EXCEPT !.value = GetMin(cal)] \in Marked
        BY <3>1, <3>3, <4>1, FieldSet
      <4>3. thr' = [thr EXCEPT ![c][phase[c]] = [thr[c][phase[c]] EXCEPT !.value = GetMin(cal)]]
        BY <2>11, <3>1, <4>1 DEF Least
      <4> QED BY <3>1, <4>1, <4>2, <4>3, ThresholdSet
    <3> QED BY <1>0, <2>11, <3>2, <3>4, EnterTypes DEF Least, GivenBack, bounds, MType
  <2>12. CASE Derail(c)
    BY <1>0, <2>12, EndTypes DEF Derail, bounds, MType
  <2> QED BY <1>5, <2>1, <2>2, <2>3, <2>4, <2>5, <2>6, <2>7, <2>8, <2>9, <2>10, <2>11, <2>12 DEF Step
<1> QED BY <1>1, <1>2, <1>3, <1>4, <1>5 DEF Next

-----------------------------------------------------------------------------
\* A step of one call leaves what the other calls have alone; only the histogram,
\* the counters and the number of areas are shared.
LEMMA OthersStay ==
  ASSUME MInv, NEW c \in Client, Step(c), NEW d \in Client \ {c}
  PROVE  /\ pc'[d] = pc[d] /\ phase'[d] = phase[d] /\ cpu'[d] = cpu[d] /\ tries'[d] = tries[d]
         /\ area'[d] = area[d] /\ thr'[d] = thr[d] /\ code'[d] = code[d]
         /\ alone'[d] /\ ~Over(d) => alone[d] /\ ~Over(c)
         /\ UNCHANGED <<conf, stale, moves>>
<1>0. MType
  BY DEF MInv
<1>1. CASE Show(c)
  BY <1>0, <1>1 DEF Show, Enter, Forget, Goto, Free, Over, bounds, MType
<1>2. CASE Clear(c) \/ Place(c) \/ Emit(c)
  BY <1>0, <1>2 DEF Clear, Place, Emit, Forget, Goto, Over, bounds, MType
<1>3. CASE NoPages(c) \/ NoRoom(c) \/ Beach(c) \/ Derail(c)
  BY <1>0, <1>3 DEF NoPages, NoRoom, Beach, Derail, Failed, Return, End, Enter, Forget, Goto, Over, bounds, MType
<1>4. CASE Prepare(c) \/ Run(c)
  BY <1>0, <1>4 DEF Prepare, Run, Goto, Over, bounds, MType
<1>5. CASE Recorded(c)
  BY <1>0, <1>5 DEF Recorded, Again, Goto, Over, bounds, MType
<1>6. CASE Repeated(c)
  BY <1>0, <1>6 DEF Repeated, Again, Return, End, Forget, Goto, Over, bounds, MType
<1>7. CASE Least(c)
  BY <1>0, <1>7 DEF Least, Enter, Goto, Over, bounds, MType
<1> QED BY <1>1, <1>2, <1>3, <1>4, <1>5, <1>6, <1>7 DEF Step

LEMMA OthersFlow ==
  ASSUME MInv, NEW c \in Client, Step(c), NEW d \in Client \ {c}
  PROVE  FlowAt(d)'
<1>1. FlowAt(d)
  BY DEF MInv, Flow
<1>2. pc'[d] = pc[d] /\ phase'[d] = phase[d] /\ cpu'[d] = cpu[d] /\ thr'[d] = thr[d] /\ code'[d] = code[d]
  BY OthersStay
<1>3. ~(alone'[d] /\ ~Over(d))
  BY <1>1, OthersStay DEF FlowAt
<1> QED BY <1>1, <1>2, <1>3 DEF FlowAt, Over

\* Where the next phase of a call starts, and how a call ends.
LEMMA EnterFlow ==
  ASSUME MType, NEW c \in Client, NEW p \in Threshold \cup {"query"}, Enter(c, p), UNCHANGED code
  PROVE  /\ phase'[c] = p /\ pc'[c] \in {"clear", "place", "prepare"}
         /\ pc'[c] = "clear" <=> p # "query"
         /\ pc'[c] = "place" => code'[c] = NoCode
         /\ pc'[c] = "prepare" => code'[c] # NoCode
<1>1. phase'[c] = p
  BY DEF MType, Enter
<1>2. /\ p # "query" => pc'[c] = "clear"
      /\ p = "query" /\ code[c] = NoCode => pc'[c] = "place"
      /\ p = "query" /\ code[c] # NoCode => pc'[c] = "prepare"
  BY DEF MType, Enter, Goto
<1> QED BY <1>1, <1>2

LEMMA EndFlow ==
  ASSUME MType, NEW c \in Client, NEW l, End(c, l)
  PROVE  /\ pc'[c] = l /\ phase'[c] = "query" /\ thr'[c] = [t \in Threshold |-> Given]
         /\ ~alone'[c]
BY DEF MType, End, Forget, Goto

LEMMA ReturnFlow ==
  ASSUME MType, NEW c \in Client, Return(c)
  PROVE  pc'[c] = "idle" /\ phase'[c] = "query" /\ thr'[c] = [t \in Threshold |-> Given] /\ ~alone'[c]
BY EndFlow DEF Return

LEMMA FlowStep == MInv /\ [Next]_vars => MInv'
<1> SUFFICES ASSUME MInv, [Next]_vars PROVE MInv'
  OBVIOUS
<1>0. MType /\ Flow /\ MType'
  BY TypeStep DEF MInv
<1>1. CASE UNCHANGED vars \/ Configure
  BY <1>0, <1>1 DEF Configure, vars, call, bounds, MInv, Flow, FlowAt, Over
<1>2. ASSUME NEW c \in Client, Store(c) PROVE MInv'
  <2>1. pc[c] = "idle" /\ code' = [code EXCEPT ![c] = NoCode]
        /\ UNCHANGED <<pc, phase, thr, cpu, alone>>
    BY <1>2 DEF Store, Free, call
  <2>2. \A d \in Client : FlowAt(d) => FlowAt(d)'
    BY <1>0, <2>1, NoCodeTypes DEF MType, FlowAt, Over
  <2> QED BY <1>0, <2>2 DEF MInv, Flow
<1>3. ASSUME NEW c \in Client, Move(c) PROVE MInv'
  <2>1. PICK p \in Cpu : cpu' = [cpu EXCEPT ![c] = p]
    BY <1>3 DEF Move
  <2>2. UNCHANGED <<pc, phase, thr, code, alone>>
    BY <1>3 DEF Move, call
  <2>3. \A d \in Client : FlowAt(d) => FlowAt(d)'
    BY <1>0, <2>1, <2>2 DEF MType, FlowAt, Over
  <2> QED BY <1>0, <2>3 DEF MInv, Flow
<1>4. ASSUME NEW c \in Client, Step(c) PROVE MInv'
  <2>0. FlowAt(c) /\ phase[c] \in Threshold \cup {"query"}
    BY <1>0 DEF Flow, MType
  <2>1. CASE Show(c)
    <3>1. First(c) \in Threshold \cup {"query"}
      BY DEF First, Threshold
    <3>2. /\ phase'[c] = First(c) /\ pc'[c] \in {"clear", "place", "prepare"}
          /\ pc'[c] = "clear" <=> First(c) # "query"
          /\ pc'[c] = "place" => code'[c] = NoCode
          /\ pc'[c] = "prepare" => code'[c] # NoCode
      BY <1>0, <2>1, <3>1, EnterFlow DEF Show
    <3>3. cpu'[c] \in Cpu
      BY <1>0, <2>1 DEF Show, MType
    <3>4. alone'[c] => \A d \in Client \ {c} : Over(d)'
      BY <1>0, <1>4, <2>1, OthersStay DEF Show, Over
    <3>5. FlowAt(c)'
      BY <3>2, <3>3, <3>4 DEF FlowAt, Over
    <3> QED BY <1>0, <1>4, <3>5, OthersFlow DEF MInv, Flow
  <2>2. alone[c] /\ ~Over(c) => \A d \in Client \ {c} : Over(d)'
    BY <1>4, <2>0, OthersStay DEF FlowAt, Over
  <2>3. CASE Clear(c) \/ Place(c) \/ Emit(c)
    <3>0. Unit(c) \notin {"none", "partial"}
      BY <1>0, UnitType DEF Units
    <3>1. FlowAt(c)'
      BY <1>0, <2>0, <2>2, <2>3, <3>0 DEF Clear, Place, Emit, Goto, MType, FlowAt, Over, NoCode
    <3> QED BY <1>0, <1>4, <3>1, OthersFlow DEF MInv, Flow
  <2>4. CASE NoPages(c) \/ NoRoom(c) \/ Beach(c)
    <3>1. CASE phase[c] = "query"
      <4>1. Return(c)
        BY <2>4, <3>1 DEF NoPages, NoRoom, Beach
      <4>2. FlowAt(c)'
        BY <1>0, <4>1, ReturnFlow DEF FlowAt, Over
      <4> QED BY <1>0, <1>4, <4>2, OthersFlow DEF MInv, Flow
    <3>2. CASE phase[c] # "query"
      <4>1. After(c, phase[c]) \in Threshold \cup {"query"}
        BY DEF After, Threshold
      <4>2. Enter(c, After(c, phase[c])) /\ UNCHANGED <<code, cpu, alone>> /\ ~Over(c)
        BY <2>4, <3>2 DEF NoPages, NoRoom, Beach, Failed, Over
      <4>3. FlowAt(c)'
        BY <1>0, <2>0, <2>2, <4>1, <4>2, EnterFlow DEF FlowAt, Over
      <4> QED BY <1>0, <1>4, <4>3, OthersFlow DEF MInv, Flow
    <3> QED BY <3>1, <3>2
  <2>5. CASE Prepare(c) \/ Run(c)
    <3>1. FlowAt(c)'
      BY <1>0, <2>0, <2>2, <2>5 DEF Prepare, Run, Goto, MType, FlowAt, Over
    <3> QED BY <1>0, <1>4, <3>1, OthersFlow DEF MInv, Flow
  <2>6. CASE Recorded(c)
    <3>1. FlowAt(c)'
      BY <1>0, <2>0, <2>2, <2>6 DEF Recorded, Again, Goto, MType, FlowAt, Over
    <3> QED BY <1>0, <1>4, <3>1, OthersFlow DEF MInv, Flow
  <2>7. CASE Repeated(c)
    <3>1. CASE Return(c)
      <4>1. FlowAt(c)'
        BY <1>0, <3>1, ReturnFlow DEF FlowAt, Over
      <4> QED BY <1>0, <1>4, <4>1, OthersFlow DEF MInv, Flow
    <3>2. CASE n[c] + 1 < Reps /\ Again(c, Reps, "idle") /\ UNCHANGED <<cpu, own, alone>>
      <4>1. FlowAt(c)'
        BY <1>0, <2>0, <2>2, <2>7, <3>2 DEF Repeated, Again, Goto, MType, FlowAt, Over
      <4> QED BY <1>0, <1>4, <4>1, OthersFlow DEF MInv, Flow
    <3> QED BY <2>7, <3>1, <3>2 DEF Repeated
  <2>8. CASE Least(c)
    <3>1. After(c, phase[c]) \in Threshold \cup {"query"}
      BY DEF After, Threshold
    <3>2. Enter(c, After(c, phase[c])) /\ UNCHANGED <<code, cpu, alone>> /\ ~Over(c)
      BY <2>8 DEF Least, Over
    <3>3. FlowAt(c)'
      BY <1>0, <2>0, <2>2, <3>1, <3>2, EnterFlow DEF FlowAt, Over
    <3> QED BY <1>0, <1>4, <3>3, OthersFlow DEF MInv, Flow
  <2>9. CASE Derail(c)
    <3>1. FlowAt(c)'
      BY <1>0, <2>9, EndFlow DEF Derail, FlowAt, Over
    <3> QED BY <1>0, <1>4, <3>1, OthersFlow DEF MInv, Flow
  <2> QED BY <1>4, <2>1, <2>3, <2>4, <2>5, <2>6, <2>7, <2>8, <2>9 DEF Step
<1> QED BY <1>1, <1>2, <1>3, <1>4 DEF Next

-----------------------------------------------------------------------------
\* What the configuration makes the query measure.
QUnit(c) == IF conf.pmc THEN Event(Target[c].level) ELSE IF conf.cycles THEN "cycles" ELSE "tsc"

\* Unless the configuration has changed since the query was written: the code, its
\* thresholds and the thresholds of the call are in that unit, calibrations run only
\* without use_pmc, and a call alone has its counter programmed while it runs.
UAt(c) ==
  ~stale[c] =>
     /\ code[c] \notin {NoCode, Partial} =>
                            /\ code[c].unit = QUnit(c)
                            /\ \A t \in Threshold : code[c].thr[t] \in {"given", "failed", QUnit(c)}
     /\ \A t \in Threshold : thr[c][t].unit \in {"given", "failed", QUnit(c)}
     /\ pc[c] # "idle" /\ phase[c] # "query" => ~conf.pmc
     /\ pc[c] \in {"prepare", "run", "stop"} /\ phase[c] # "query" => thr[c][phase[c]].unit = QUnit(c)
     /\ pc[c] = "run" /\ alone[c] /\ moves = 0 /\ Unit(c) # "tsc" => pmu[cpu[c]] = Unit(c)
UInv == \A c \in Client : UAt(c)

LEMMA InitUnits == Init => UInv
BY DEF Init, UInv, UAt, Given

LEMMA OthersUnits ==
  ASSUME MInv, UInv, NEW c \in Client, Step(c), NEW d \in Client \ {c}
  PROVE  UAt(d)'
<1>1. UAt(d) /\ FlowAt(d)
  BY DEF MInv, Flow, UInv
<1>2. pc'[d] = pc[d] /\ phase'[d] = phase[d] /\ thr'[d] = thr[d] /\ code'[d] = code[d]
      /\ UNCHANGED <<conf, stale>>
  BY OthersStay
<1>3. ~(alone'[d] /\ ~Over(d))
  BY <1>1, OthersStay DEF FlowAt
<1>4. QUnit(d)' = QUnit(d)
  BY <1>2 DEF QUnit
<1> QED BY <1>1, <1>2, <1>3, <1>4 DEF UAt, Over

\* A step of the call itself that neither emits nor programs.
LEMMA SameUnits ==
  ASSUME UInv, NEW c \in Client, UNCHANGED <<conf, stale>>, code'[c] \in {code[c], Partial},
         \A t \in Threshold : thr'[c][t].unit \in {thr[c][t].unit, "failed", "given"},
         pc'[c] # "idle" /\ phase'[c] # "query" => ~conf.pmc \/ stale[c],
         pc'[c] # "run",
         pc'[c] \in {"prepare", "stop"} /\ phase'[c] # "query" =>
           pc[c] \in {"run", "stop"} /\ phase'[c] = phase[c] /\ thr'[c] = thr[c]
  PROVE  UAt(c)'
<1>1. UAt(c)
  BY DEF UInv
<1>2. QUnit(c)' = QUnit(c)
  BY DEF QUnit
<1> QED BY <1>1, <1>2 DEF UAt

LEMMA StepUnits == MInv /\ UInv /\ [Next]_vars => UInv'
<1> SUFFICES ASSUME MInv, UInv, [Next]_vars PROVE UInv'
  OBVIOUS
<1>0. MType /\ Flow
  BY DEF MInv
<1>1. CASE UNCHANGED vars
  BY <1>1 DEF vars, call, bounds, UInv, UAt, QUnit, Unit
<1>2. CASE Configure
  BY <1>2 DEF Configure, UInv, UAt
<1>3. ASSUME NEW c \in Client, Store(c) PROVE UInv'
  <2>1. /\ stale' = [stale EXCEPT ![c] = FALSE] /\ code' = [code EXCEPT ![c] = NoCode] /\ pc[c] = "idle"
        /\ UNCHANGED <<pc, phase, thr, cpu, conf, pmu, alone, moves>>
    BY <1>3 DEF Store, Free, call, bounds
  <2>2. \A d \in Client : QUnit(d)' = QUnit(d) /\ Unit(d)' = Unit(d)
    BY <2>1 DEF QUnit, Unit
  <2>3. ASSUME NEW d \in Client \ {c} PROVE UAt(d)'
    <3>1. UAt(d) /\ stale'[d] = stale[d] /\ code'[d] = code[d]
      BY <1>0, <2>1 DEF UInv, MType
    <3> QED BY <2>1, <2>2, <3>1 DEF UAt
  <2>4. UAt(c)'
    <3>1. thr[c] = [t \in Threshold |-> Given] /\ code'[c] = NoCode
      BY <1>0, <2>1 DEF Flow, FlowAt, Over, MType
    <3> QED BY <2>1, <3>1 DEF UAt, Given
  <2> QED BY <2>3, <2>4 DEF UInv
<1>4. ASSUME NEW c \in Client, Move(c) PROVE UInv'
  <2>1. moves' # 0 /\ UNCHANGED <<pc, phase, thr, code, conf, stale>>
    BY <1>0, <1>4 DEF Move, call, MType
  <2> QED BY <2>1 DEF UInv, UAt, QUnit
<1>5. ASSUME NEW c \in Client, Step(c) PROVE UInv'
  <2>0. UAt(c) /\ FlowAt(c) /\ phase[c] \in Threshold \cup {"query"}
    BY <1>0 DEF UInv, Flow, MType
  <2>1. SUFFICES UAt(c)'
    BY <1>5, OthersUnits DEF UInv
  <2>2. CASE Show(c)
    <3>1. First(c) \in Threshold \cup {"query"}
      BY DEF First, Threshold
    <3>2. phase'[c] = First(c) /\ pc'[c] \in {"clear", "place", "prepare"}
          /\ (pc'[c] = "clear" <=> First(c) # "query") /\ UNCHANGED <<code, conf, stale>>
      BY <1>0, <2>2, <3>1, EnterFlow DEF Show, bounds
    <3>3. \A t \in Threshold : thr'[c][t].unit = "given"
      BY <1>0, <2>2 DEF Show, Forget, Given, MType
    <3>4. phase'[c] # "query" => ~conf.pmc
      BY <3>2 DEF First
    <3> QED BY <3>2, <3>3, <3>4, SameUnits
  <2>3. CASE Clear(c) \/ Place(c)
    BY <1>0, <2>0, <2>3, SameUnits DEF Clear, Place, Goto, bounds, MType, UAt
  <2>4. CASE NoPages(c) \/ NoRoom(c) \/ Beach(c)
    <3>0. UNCHANGED <<conf, stale>>
      BY <2>4 DEF NoPages, NoRoom, Beach, bounds
    <3>1. CASE phase[c] = "query"
      <4>1. Return(c) /\ code'[c] \in {code[c], Partial}
        BY <1>0, <2>4, <3>1 DEF NoPages, NoRoom, Beach, MType
      <4>2. \A t \in Threshold : thr'[c][t].unit = "given"
        BY <1>0, <4>1, ReturnFlow DEF Given
      <4> QED BY <1>0, <3>0, <4>1, <4>2, ReturnFlow, SameUnits
    <3>2. CASE phase[c] # "query"
      <4>1. After(c, phase[c]) \in Threshold \cup {"query"} /\ phase[c] \in Threshold
        BY <2>0, <3>2 DEF After, Threshold
      <4>2. Failed(c) /\ Enter(c, After(c, phase[c])) /\ UNCHANGED <<code, conf, stale>> /\ pc[c] # "idle"
        BY <2>4, <3>0, <3>2 DEF NoPages, NoRoom, Beach, Failed
      <4>3. \A t \in Threshold : thr'[c][t].unit \in {thr[c][t].unit, "failed"}
        BY <1>0, <4>1, <4>2 DEF Failed, MType
      <4> QED BY <1>0, <2>0, <3>2, <4>1, <4>2, <4>3, EnterFlow, SameUnits DEF UAt
    <3> QED BY <3>1, <3>2
  <2>5. CASE Emit(c)
    <3>0. /\ pc[c] = "emit" /\ pc'[c] = "prepare" /\ phase'[c] = phase[c]
          /\ UNCHANGED <<conf, stale>> /\ QUnit(c)' = QUnit(c)
      BY <1>0, <2>5 DEF Emit, Goto, bounds, MType, QUnit
    <3>1. CASE phase[c] = "query"
      <4>1. code'[c] = [unit |-> Unit(c), thr |-> [t \in Threshold |-> thr[c][t].unit]]
        BY <1>0, <2>5, <3>1 DEF Emit, MType
      <4>2. Unit(c) = QUnit(c)
        BY <3>1 DEF Unit, QUnit
      <4>3. \A t \in Threshold : thr'[c][t].unit = "given"
        BY <1>0, <2>5, <3>1 DEF Emit, Forget, Given, MType
      <4> QED BY <2>0, <3>0, <3>1, <4>1, <4>2, <4>3 DEF UAt
    <3>2. CASE phase[c] # "query"
      <4>1. thr' = [thr EXCEPT ![c][phase[c]].unit = Unit(c)] /\ UNCHANGED code /\ phase[c] \in Threshold
        BY <2>0, <2>5, <3>2 DEF Emit
      <4>2. thr'[c][phase[c]].unit = Unit(c)
        BY <1>0, <4>1 DEF MType, Marked
      <4>3. \A t \in Threshold : t # phase[c] => thr'[c][t] = thr[c][t]
        BY <1>0, <4>1 DEF MType
      <4>4. ~stale[c] => Unit(c) = QUnit(c)
        BY <2>0, <3>0, <3>2 DEF Unit, QUnit, UAt
      <4>5. ~stale[c] => \A t \in Threshold : thr'[c][t].unit \in {"given", "failed", QUnit(c)}
        BY <2>0, <4>2, <4>3, <4>4 DEF UAt
      <4> QED BY <2>0, <3>0, <3>2, <4>1, <4>2, <4>4, <4>5 DEF UAt
    <3> QED BY <3>1, <3>2
  <2>6. CASE Prepare(c)
    <3>1. /\ pc[c] = "prepare" /\ pc'[c] = "run" /\ UNCHANGED <<phase, thr, code, cpu, conf, stale, moves>>
          /\ pmu' = IF Unit(c) = "tsc" THEN pmu ELSE [pmu EXCEPT ![cpu[c]] = Unit(c)]
      BY <1>0, <2>6 DEF Prepare, Goto, bounds, MType
    <3>2. Unit(c)' = Unit(c) /\ QUnit(c)' = QUnit(c)
      BY <3>1 DEF Unit, QUnit
    <3>3. cpu[c] \in Cpu
      BY <2>0, <3>1 DEF FlowAt, Over
    <3>4. Unit(c) # "tsc" => pmu'[cpu[c]] = Unit(c)
      BY <1>0, <3>1, <3>3 DEF MType
    <3> QED BY <2>0, <3>1, <3>2, <3>4 DEF UAt
  <2>7. CASE Run(c)
    BY <1>0, <2>0, <2>7, SameUnits DEF Run, Goto, bounds, MType, UAt
  <2>8. CASE Recorded(c)
    BY <1>0, <2>0, <2>8, SameUnits DEF Recorded, Again, Goto, bounds, MType, UAt
  <2>9. CASE Repeated(c)
    <3>1. CASE Return(c)
      <4>1. UNCHANGED <<code, conf, stale>>
        BY <2>9 DEF Repeated, bounds
      <4>2. \A t \in Threshold : thr'[c][t].unit = "given"
        BY <1>0, <3>1, ReturnFlow DEF Given
      <4> QED BY <1>0, <3>1, <4>1, <4>2, ReturnFlow, SameUnits
    <3>2. CASE n[c] + 1 < Reps /\ Again(c, Reps, "idle")
      BY <1>0, <2>0, <2>9, <3>2, SameUnits DEF Repeated, Again, Goto, bounds, MType, UAt
    <3> QED BY <2>9, <3>1, <3>2 DEF Repeated
  <2>10. CASE Least(c)
    <3>1. After(c, phase[c]) \in Threshold \cup {"query"} /\ phase[c] \in Threshold
      BY <2>0, <2>10 DEF After, Threshold, Least, FlowAt
    <3>2. Enter(c, After(c, phase[c])) /\ UNCHANGED <<code, conf, stale>> /\ pc[c] = "least"
      BY <2>10 DEF Least, bounds
    <3>3. \A t \in Threshold : thr'[c][t].unit = thr[c][t].unit
      BY <1>0, <2>10, <3>1 DEF Least, MType, Marked
    <3> QED BY <1>0, <2>0, <3>1, <3>2, <3>3, EnterFlow, SameUnits DEF UAt, FlowAt
  <2>11. CASE Derail(c)
    <3>1. \A t \in Threshold : thr'[c][t].unit = "given"
      BY <1>0, <2>11, EndFlow DEF Derail, Given
    <3> QED BY <1>0, <2>11, <3>1, EndFlow, SameUnits DEF Derail
  <2> QED BY <1>5, <2>2, <2>3, <2>4, <2>5, <2>6, <2>7, <2>8, <2>9, <2>10, <2>11 DEF Step
<1> QED BY <1>1, <1>2, <1>3, <1>4, <1>5 DEF Next

\* For any clients and processors: a call alone, not moved, and with a query written
\* since the last change of the configuration counts what its code reads, and its
\* thresholds are in the unit of the times they are compared with.
THEOREM CountsCorrect == Spec => []CountsWhatIsRead
<1>1. MInv /\ UInv => CountsWhatIsRead
  <2> SUFFICES ASSUME MInv, UInv, NEW c \in Client, pc[c] = "run", alone[c], ~stale[c], moves = 0
               PROVE  /\ UnderWay(c) # "tsc" => pmu[cpu[c]] = UnderWay(c)
                      /\ phase[c] = "query" =>
                           \A t \in Threshold : code[c].thr[t] \in {"given", "failed", code[c].unit}
    BY DEF CountsWhatIsRead
  <2>1. UAt(c) /\ FlowAt(c)
    BY DEF UInv, MInv, Flow
  <2>2. UnderWay(c) = Unit(c)
    BY <2>1 DEF UAt, FlowAt, UnderWay, Unit, QUnit
  <2> QED BY <2>1, <2>2 DEF UAt, FlowAt
<1> QED BY InitTypes, FlowStep, InitUnits, StepUnits, <1>1, PTL DEF Spec

-----------------------------------------------------------------------------
\* While a call is alone cal holds the times of its phase and no others, and the
\* thresholds it has calibrated are the least of theirs.
TAt(c) == ~Over(c) /\ alone[c] =>
  /\ \A t \in Threshold : thr[c][t].value >= 0 =>
      /\ thr[c][t].value \in own[t] \cup {MaxTime}
      /\ \A u \in own[t] : thr[c][t].value <= u
  /\ phase[c] = "hit" => thr[c]["hit"].value < 0 /\ thr[c]["miss"].value < 0 /\ own["miss"] = {}
  /\ phase[c] = "miss" => thr[c]["miss"].value < 0
  /\ pc[c] = "clear" => own[phase[c]] = {}
  /\ pc[c] # "clear" /\ phase[c] # "query" => cal = own[phase[c]]
TInv == \A c \in Client : TAt(c)

LEMMA OthersLeast ==
  ASSUME MInv, NEW c \in Client, Step(c), NEW d \in Client \ {c}
  PROVE  TAt(d)'
<1>1. FlowAt(d)
  BY DEF MInv, Flow
<1>2. ~(alone'[d] /\ ~Over(d))
  BY <1>1, OthersStay DEF FlowAt
<1>3. pc'[d] = pc[d]
  BY OthersStay
<1> QED BY <1>2, <1>3 DEF TAt, Over

\* The next phase of a call, whatever the threshold of the last has become.
LEMMA NextPhase ==
  ASSUME MInv, TInv, NEW c \in Client, phase[c] \in Threshold,
         pc[c] \notin {"idle", "dead", "clear"}, UNCHANGED <<alone, own, code>>,
         Enter(c, After(c, phase[c])),
         \A t \in Threshold : t # phase[c] => thr'[c][t] = thr[c][t],
         alone[c] /\ thr'[c][phase[c]].value >= 0 =>
           /\ thr'[c][phase[c]].value \in own[phase[c]] \cup {MaxTime}
           /\ \A u \in own[phase[c]] : thr'[c][phase[c]].value <= u
  PROVE  TAt(c)'
<1>0. MType /\ TAt(c)
  BY DEF MInv, TInv
<1>1. After(c, phase[c]) \in {"miss", "query"} /\ (After(c, phase[c]) = "miss" => phase[c] = "hit")
  BY DEF After
<1>2. phase'[c] = After(c, phase[c]) /\ (pc'[c] = "clear" <=> After(c, phase[c]) # "query")
  BY <1>0, <1>1, EnterFlow DEF Threshold
<1> QED BY <1>0, <1>1, <1>2 DEF TAt, Over, Threshold

\* A step within a phase, that records nothing.
LEMMA SamePhase ==
  ASSUME TInv, NEW c \in Client, pc[c] \notin {"idle", "dead", "clear"}, pc'[c] # "clear",
         UNCHANGED <<alone, own, cal>>, phase'[c] = phase[c],
         \A t \in Threshold : thr'[c][t].value = thr[c][t].value
  PROVE  TAt(c)'
<1>1. TAt(c)
  BY DEF TInv
<1> QED BY <1>1 DEF TAt, Over, Threshold

LEMMA StepLeast == MInv /\ TInv /\ [Next]_vars => TInv'
<1> SUFFICES ASSUME MInv, TInv, [Next]_vars PROVE TInv'
  OBVIOUS
<1>0. MType /\ Flow
  BY DEF MInv
<1>1. CASE UNCHANGED vars \/ Configure \/ \E c \in Client : Store(c) \/ Move(c)
  <2>1. UNCHANGED <<pc, alone, thr, own, phase, cal>>
    BY <1>1 DEF vars, call, bounds, Configure, Store, Move
  <2> QED BY <2>1 DEF TInv, TAt, Over
<1>2. ASSUME NEW c \in Client, Step(c) PROVE TInv'
  <2>0. TAt(c) /\ FlowAt(c) /\ phase[c] \in Threshold \cup {"query"}
    BY <1>0 DEF TInv, Flow, MType
  <2>1. SUFFICES TAt(c)'
    BY <1>2, OthersLeast DEF TInv
  <2>2. CASE Show(c)
    <3>1. First(c) \in Threshold \cup {"query"}
      BY DEF First, Threshold
    <3>2. phase'[c] = First(c) /\ pc'[c] \in {"clear", "place", "prepare"}
          /\ (pc'[c] = "clear" <=> First(c) # "query")
      BY <1>0, <2>2, <3>1, EnterFlow DEF Show, bounds
    <3>3. \A t \in Threshold : thr'[c][t].value = -2 /\ own'[t] = {}
      BY <1>0, <2>2 DEF Show, Forget, Given, MType
    <3> QED BY <3>1, <3>2, <3>3 DEF TAt, Over, Threshold
  <2>3. CASE Clear(c)
    BY <1>0, <2>0, <2>3 DEF Clear, Cleared, Goto, MType, TAt, Over
  <2>4. CASE Place(c)
    BY <1>0, <2>4, SamePhase DEF Place, Goto, MType
  <2>5. CASE NoPages(c) \/ NoRoom(c) \/ Beach(c)
    <3>1. CASE phase[c] = "query"
      BY <1>0, <2>5, <3>1, ReturnFlow DEF NoPages, NoRoom, Beach, TAt, Over
    <3>2. CASE phase[c] # "query"
      <4>1. phase[c] \in Threshold
        BY <2>0, <3>2
      <4>2. Failed(c) /\ UNCHANGED <<alone, own, code>> /\ pc[c] \notin {"idle", "dead", "clear"}
        BY <2>5, <3>2 DEF NoPages, NoRoom, Beach
      <4>3. thr'[c][phase[c]].value = -1
            /\ \A t \in Threshold : t # phase[c] => thr'[c][t] = thr[c][t]
        BY <1>0, <4>1, <4>2 DEF Failed, MType
      <4> QED BY <4>1, <4>2, <4>3, NextPhase DEF Failed
    <3> QED BY <3>1, <3>2
  <2>6. CASE Emit(c)
    <3>0. pc[c] = "emit" /\ pc'[c] = "prepare" /\ phase'[c] = phase[c] /\ UNCHANGED <<alone, cal>>
      BY <1>0, <2>6 DEF Emit, Goto, MType
    <3>1. CASE phase[c] = "query"
      <4>1. \A t \in Threshold : thr'[c][t].value = -2
        BY <1>0, <2>6, <3>1 DEF Emit, Forget, Given, MType
      <4> QED BY <3>0, <3>1, <4>1 DEF TAt, Over
    <3>2. CASE phase[c] # "query"
      <4>1. thr' = [thr EXCEPT ![c][phase[c]].unit = Unit(c)] /\ UNCHANGED own /\ phase[c] \in Threshold
        BY <2>0, <2>6, <3>2 DEF Emit
      <4>2. \A t \in Threshold : thr'[c][t].value = thr[c][t].value
        BY <1>0, <4>1 DEF MType, Marked
      <4> QED BY <3>0, <4>1, <4>2, SamePhase
    <3> QED BY <3>1, <3>2
  <2>7. CASE Prepare(c) \/ Run(c)
    BY <1>0, <2>7, SamePhase DEF Prepare, Run, Goto, MType
  <2>8. CASE Recorded(c)
    <3>0. /\ pc[c] = "stop" /\ pc'[c] # "clear" /\ UNCHANGED <<alone, phase, thr>>
          /\ phase[c] \in Threshold
      BY <1>0, <2>0, <2>8 DEF Recorded, Again, Goto, MType
    <3>1. PICK t \in 0..MaxTime :
            \/ cal' = cal \cup {t} /\ own' = IF alone[c] THEN [own EXCEPT ![phase[c]] = @ \cup {t}] ELSE own
            \/ UNCHANGED <<cal, own>>
      BY <2>8 DEF Recorded
    <3>2. CASE UNCHANGED <<cal, own>>
      BY <3>0, <3>2, SamePhase
    <3>3. CASE cal' = cal \cup {t} /\ own' = IF alone[c] THEN [own EXCEPT ![phase[c]] = @ \cup {t}] ELSE own
      <4>1. CASE alone[c]
        <5>1. own'[phase[c]] = own[phase[c]] \cup {t} /\ \A u \in Threshold : u # phase[c] => own'[u] = own[u]
          BY <1>0, <3>0, <3>3, <4>1 DEF MType
        <5>2. cal' = own'[phase[c]]
          <6>1. cal = own[phase[c]]
            BY <2>0, <3>0, <4>1 DEF TAt, Over, Threshold
          <6> QED BY <3>3, <5>1, <6>1
        <5>3. thr[c][phase[c]].value < 0 /\ (phase[c] = "hit" => thr[c]["miss"].value < 0 /\ own'["miss"] = {})
          BY <2>0, <3>0, <4>1, <5>1 DEF TAt, Over, Threshold
        <5>4. \A u \in Threshold : thr[c][u].value \in Int
          BY <1>0 DEF MType, Marked
        <5> QED BY <2>0, <3>0, <4>1, <5>1, <5>2, <5>3, <5>4 DEF TAt, Over, Threshold
      <4>2. CASE ~alone[c]
        BY <3>0, <4>2 DEF TAt, Over
      <4> QED BY <4>1, <4>2
    <3> QED BY <3>1, <3>2, <3>3
  <2>9. CASE Repeated(c)
    <3>1. CASE Return(c)
      BY <1>0, <3>1, ReturnFlow DEF TAt, Over
    <3>2. CASE n[c] + 1 < Reps /\ Again(c, Reps, "idle") /\ UNCHANGED <<cpu, own, alone>>
      <4>1. pc[c] = "stop" /\ pc'[c] = "prepare" /\ UNCHANGED <<phase, thr, cal>>
        BY <1>0, <2>9, <3>2 DEF Repeated, Again, Goto, MType
      <4> QED BY <3>2, <4>1, SamePhase
    <3> QED BY <2>9, <3>1, <3>2 DEF Repeated
  <2>10. CASE Least(c)
    <3>1. phase[c] \in Threshold /\ Enter(c, After(c, phase[c])) /\ UNCHANGED <<alone, own, code>> /\ pc[c] = "least"
      BY <2>0, <2>10 DEF Least, FlowAt
    <3>2. thr'[c][phase[c]].value = GetMin(cal) /\ \A t \in Threshold : t # phase[c] => thr'[c][t] = thr[c][t]
      BY <1>0, <2>10, <3>1 DEF Least, MType, Marked
    <3>3. /\ GetMin(cal) \in cal \cup {MaxTime}
          /\ \A u \in cal : GetMin(cal) <= u
      BY <1>0, GetMinIsLeast DEF MType
    <3>4. alone[c] => cal = own[phase[c]]
      BY <2>0, <3>1 DEF TAt, Over, Threshold
    <3> QED BY <3>1, <3>2, <3>3, <3>4, NextPhase
  <2>11. CASE Derail(c)
    BY <1>0, <2>11, EndFlow DEF Derail, TAt, Over
  <2> QED BY <1>2, <2>2, <2>3, <2>4, <2>5, <2>6, <2>7, <2>8, <2>9, <2>10, <2>11 DEF Step
<1> QED BY <1>1, <1>2 DEF Next

\* However often a calibration runs and whatever earlier ones left in cal: without
\* another call meanwhile, a threshold is the least of the times it recorded.
THEOREM LeastCorrect == Spec => []ThresholdIsLeast
<1>1. Init => TInv
  BY DEF Init, TInv, TAt, Over
<1>2. TInv => ThresholdIsLeast
  BY DEF TInv, TAt, ThresholdIsLeast
<1> QED BY InitTypes, FlowStep, StepLeast, <1>1, <1>2, PTL DEF Spec

-----------------------------------------------------------------------------
\* One client more or less.
LEMMA OneChanges ==
  ASSUME NEW A, NEW B, A \subseteq Client, B \subseteq Client, NEW c \in Client,
         \A d \in Client \ {c} : d \in A <=> d \in B
  PROVE  /\ Cardinality(A) \in Nat /\ Cardinality(B) \in Nat
         /\ Cardinality(B) = Cardinality(A) + (IF c \in B THEN 1 ELSE 0) - (IF c \in A THEN 1 ELSE 0)
<1>1. IsFiniteSet(A) /\ IsFiniteSet(B)
  BY FS_Subset, MeasureAssumption DEF MeasureAssumption
<1>2. Cardinality(A) \in Nat /\ Cardinality(B) \in Nat
  BY <1>1, FS_CardinalityType
<1>3. CASE c \in A <=> c \in B
  <2>1. A = B
    BY <1>3
  <2> QED BY <1>2, <1>3, <2>1
<1>4. CASE c \notin A /\ c \in B
  <2>1. B = A \cup {c}
    BY <1>4
  <2>2. Cardinality(A \cup {c}) = Cardinality(A) + 1
    BY <1>1, <1>4, FS_AddElement
  <2> QED BY <1>2, <1>4, <2>1, <2>2
<1>5. CASE c \in A /\ c \notin B
  <2>1. A = B \cup {c}
    BY <1>5
  <2>2. Cardinality(B \cup {c}) = Cardinality(B) + 1
    BY <1>1, <1>5, FS_AddElement
  <2> QED BY <1>2, <1>5, <2>1, <2>2
<1> QED BY <1>3, <1>4, <1>5

\* The files with code, and the areas one client holds: of the calibration or the
\* query it is at, and of its file.
Coded == {c \in Client : code[c] # NoCode}
Uses(c) == (pc[c] = "emit" \/ (pc[c] \in {"prepare", "run", "stop", "least"} /\ phase[c] # "query"))
Holds(c) == (IF Uses(c) THEN 1 ELSE 0) + (IF code[c] # NoCode THEN 1 ELSE 0)

LEMMA UsersUse == MInv => Users \subseteq Client /\ \A c \in Client : c \in Users <=> Uses(c)
<1> SUFFICES ASSUME MInv, NEW c \in Client PROVE c \in Users <=> Uses(c)
  BY DEF Users
<1>1. FlowAt(c)
  BY DEF MInv, Flow
<1> QED BY <1>1 DEF FlowAt, Users, Uses

\* The areas that a step adds are those its client holds more.
LEMMA AccountStep ==
  ASSUME MInv, MInv', PagesAccounted, NEW c \in Client,
         \A d \in Client \ {c} : pc'[d] = pc[d] /\ phase'[d] = phase[d] /\ code'[d] = code[d],
         areas' - areas = (Holds(c)' - Holds(c)) + (full' - full)
  PROVE  PagesAccounted'
<1>1. Users \subseteq Client /\ Users' \subseteq Client /\ Coded \subseteq Client /\ Coded' \subseteq Client
  BY DEF Users, Coded
<1>2. /\ c \in Users <=> Uses(c)
      /\ c \in Users' <=> Uses(c)'
      /\ c \in Coded <=> code[c] # NoCode
      /\ c \in Coded' <=> code'[c] # NoCode
  <2>1. c \in Users <=> Uses(c)
    BY UsersUse
  <2>2. c \in Users' <=> Uses(c)'
    <3>1. FlowAt(c)'
      BY DEF MInv, Flow
    <3> QED BY <3>1 DEF FlowAt, Users, Uses
  <2> QED BY <2>1, <2>2 DEF Coded
<1>3. \A d \in Client \ {c} : (d \in Users <=> d \in Users') /\ (d \in Coded <=> d \in Coded')
  BY DEF Users, Coded
<1>4. /\ Cardinality(Users) \in Nat /\ Cardinality(Users') \in Nat
      /\ Cardinality(Users') = Cardinality(Users) + (IF c \in Users' THEN 1 ELSE 0) - (IF c \in Users THEN 1 ELSE 0)
  BY <1>1, <1>3, OneChanges
<1>5. /\ Cardinality(Coded) \in Nat /\ Cardinality(Coded') \in Nat
      /\ Cardinality(Coded') = Cardinality(Coded) + (IF c \in Coded' THEN 1 ELSE 0) - (IF c \in Coded THEN 1 ELSE 0)
  BY <1>1, <1>3, OneChanges
<1>6. areas = Cardinality(Users) + Cardinality(Coded) + full
  BY DEF PagesAccounted, Coded
<1>7. areas \in Int /\ areas' \in Int /\ full \in Nat /\ full' \in Nat
  BY DEF MInv, MType
<1> DEFINE u == IF c \in Users THEN 1 ELSE 0    v == IF c \in Users' THEN 1 ELSE 0
           k == IF c \in Coded THEN 1 ELSE 0    l == IF c \in Coded' THEN 1 ELSE 0
<1>8. Holds(c) = u + k /\ Holds(c)' = v + l /\ u \in Int /\ v \in Int /\ k \in Int /\ l \in Int
  BY <1>2 DEF Holds
<1>9. Cardinality(Users') = Cardinality(Users) + v - u /\ Cardinality(Coded') = Cardinality(Coded) + l - k
  BY <1>4, <1>5
<1> HIDE DEF u, v, k, l
<1>10. areas' = Cardinality(Users') + Cardinality(Coded') + full'
  <2>1. areas' - areas = ((v + l) - (u + k)) + (full' - full)
    BY <1>8, Zenon
  <2>2. PICK a \in Int, b \in Int, p \in Int, q \in Int, r \in Int, s \in Int, f \in Int, g \in Int :
             /\ a = areas /\ b = areas'
             /\ p = Cardinality(Users) /\ q = Cardinality(Users')
             /\ r = Cardinality(Coded) /\ s = Cardinality(Coded')
             /\ f = full /\ g = full'
    <3>1. /\ areas \in Int /\ areas' \in Int /\ full \in Int /\ full' \in Int
          /\ Cardinality(Users) \in Int /\ Cardinality(Users') \in Int
          /\ Cardinality(Coded) \in Int /\ Cardinality(Coded') \in Int
      BY <1>4, <1>5, <1>7
    <3> QED BY <3>1, Zenon
  <2>3. b - a = ((v + l) - (u + k)) + (g - f)
    BY <2>1, <2>2, Zenon
  <2>4. a = p + r + f
    BY <1>6, <2>2, Zenon
  <2>5. q = p + v - u /\ s = r + l - k
    BY <1>9, <2>2, Zenon
  <2>6. u \in Int /\ v \in Int /\ k \in Int /\ l \in Int
    BY <1>8
  <2>7. b = q + s + g
    BY <2>3, <2>4, <2>5, <2>6
  <2> QED BY <2>2, <2>7, Zenon
<1> QED BY <1>10 DEF PagesAccounted, Coded

\* What is held changes with the areas, step by step.
LEMMA StepAccounts == MInv /\ MInv' /\ PagesAccounted /\ [Next]_vars => PagesAccounted'
<1> SUFFICES ASSUME MInv, MInv', PagesAccounted, [Next]_vars PROVE PagesAccounted'
  OBVIOUS
<1>0. MType /\ Flow
  BY DEF MInv
<1>1. CASE UNCHANGED vars \/ Configure \/ \E c \in Client : Move(c)
  <2>1. UNCHANGED <<pc, phase, code, areas, full>>
    BY <1>1 DEF vars, call, bounds, Configure, Move
  <2> QED BY <2>1 DEF PagesAccounted, Users
<1>2. ASSUME NEW c \in Client, Store(c) PROVE PagesAccounted'
  <2>1. /\ code' = [code EXCEPT ![c] = NoCode] /\ UNCHANGED <<pc, phase, full>>
        /\ areas' = (IF code[c] = NoCode THEN areas ELSE areas - 1) /\ areas \in Int /\ full \in Nat
    BY <1>0, <1>2 DEF Store, Free, call, bounds, MType
  <2>2. code'[c] = NoCode /\ Uses(c)' = Uses(c)
        /\ \A d \in Client \ {c} : pc'[d] = pc[d] /\ phase'[d] = phase[d] /\ code'[d] = code[d]
    BY <1>0, <2>1 DEF MType, Uses
  <2>3. areas' - areas = (Holds(c)' - Holds(c)) + (full' - full)
    BY <2>1, <2>2 DEF Holds
  <2> QED BY <2>2, <2>3, AccountStep
<1>3. ASSUME NEW c \in Client, Step(c) PROVE PagesAccounted'
  <2>0. FlowAt(c) /\ phase[c] \in Threshold \cup {"query"} /\ pc[c] \in Labels /\ areas \in Int /\ full \in Nat
    BY <1>0 DEF Flow, MType
  <2>1. SUFFICES areas' - areas = (Holds(c)' - Holds(c)) + (full' - full)
    <3>1. \A d \in Client \ {c} : pc'[d] = pc[d] /\ phase'[d] = phase[d] /\ code'[d] = code[d]
      BY <1>3, OthersStay
    <3> QED BY <2>1, <3>1, AccountStep
  <2>2. CASE Show(c)
    <3>1. First(c) \in Threshold \cup {"query"}
      BY DEF First, Threshold
    <3>2. phase'[c] = First(c) /\ pc'[c] \in {"clear", "place", "prepare"}
          /\ (pc'[c] = "clear" <=> First(c) # "query") /\ UNCHANGED <<code, areas, full>>
      BY <1>0, <2>2, <3>1, EnterFlow DEF Show, bounds
    <3>3. pc[c] = "idle"
      BY <2>2 DEF Show, Free
    <3>4. ~Uses(c) /\ ~Uses(c)'
      <4>1. pc'[c] = "prepare" => phase'[c] = "query"
        BY <3>2
      <4> QED BY <3>2, <3>3, <4>1 DEF Uses
    <3> QED BY <2>0, <3>2, <3>4 DEF Holds
  <2>3. CASE Clear(c) \/ Prepare(c) \/ Run(c)
    <3>1. UNCHANGED <<code, areas, full>> /\ Uses(c)' = Uses(c)
      BY <1>0, <2>3 DEF Clear, Prepare, Run, Goto, bounds, MType, Uses
    <3> QED BY <2>0, <3>1 DEF Holds
  <2>4. CASE Place(c)
    <3>1. pc[c] = "place" /\ UNCHANGED <<code, full, phase>>
          /\ ((pc'[c] = "place" /\ areas' = areas) \/ (pc'[c] = "emit" /\ areas' = areas + 1))
      BY <1>0, <2>4 DEF Place, Goto, bounds, MType
    <3> QED BY <2>0, <3>1 DEF Holds, Uses
  <2>5. CASE NoPages(c) \/ NoRoom(c) \/ Beach(c)
    <3>1. CASE phase[c] = "query"
      <4>1. /\ Return(c) /\ UNCHANGED full
            /\ \/ pc[c] = "place" /\ UNCHANGED <<code, areas>>
               \/ pc[c] = "emit" /\ code'[c] = Partial /\ UNCHANGED areas
               \/ pc[c] = "emit" /\ UNCHANGED code /\ areas' = areas - 1
        BY <1>0, <2>5, <3>1 DEF NoPages, NoRoom, Beach, GivenBack, bounds, MType
      <4>2. (Uses(c) <=> pc[c] = "emit") /\ ~Uses(c)'
        BY <1>0, <3>1, <4>1, ReturnFlow DEF Uses
      <4>3. code[c] = NoCode /\ Partial # NoCode
        BY <2>0, <3>1, <4>1, NoCodeTypes DEF FlowAt
      <4> QED BY <2>0, <4>1, <4>2, <4>3 DEF Holds
    <3>2. CASE phase[c] # "query"
      <4>1. After(c, phase[c]) \in Threshold \cup {"query"}
        BY DEF After, Threshold
      <4>2. /\ Enter(c, After(c, phase[c])) /\ UNCHANGED code
            /\ \/ pc[c] = "place" /\ UNCHANGED <<areas, full>>
               \/ pc[c] = "emit" /\ areas' = areas /\ full' = full + 1
               \/ pc[c] = "emit" /\ areas' = areas - 1 /\ full' = full
        BY <2>5, <3>2 DEF NoPages, NoRoom, Beach, GivenBack, Failed, bounds
      <4>3. phase'[c] = After(c, phase[c]) /\ pc'[c] \in {"clear", "place", "prepare"}
            /\ (pc'[c] = "clear" <=> After(c, phase[c]) # "query")
        BY <1>0, <4>1, <4>2, EnterFlow
      <4>4. ~Uses(c)' /\ (Uses(c) <=> pc[c] = "emit")
        <5>1. pc'[c] = "prepare" => phase'[c] = "query"
          BY <4>3
        <5> QED BY <4>2, <4>3, <5>1 DEF Uses
      <4> QED BY <2>0, <4>2, <4>4 DEF Holds
    <3> QED BY <3>1, <3>2
  <2>6. CASE Emit(c)
    <3>0. /\ pc[c] = "emit" /\ pc'[c] = "prepare" /\ phase'[c] = phase[c] /\ UNCHANGED <<areas, full>>
      BY <1>0, <2>6 DEF Emit, Goto, bounds, MType
    <3>1. CASE phase[c] = "query"
      <4>1. code'[c].unit = Unit(c)
        BY <1>0, <2>6, <3>1 DEF Emit, MType
      <4>2. code'[c] # NoCode /\ code[c] = NoCode
        BY <1>0, <2>0, <3>0, <3>1, <4>1, UnitType DEF Units, NoCode, FlowAt
      <4> QED BY <2>0, <3>0, <3>1, <4>2 DEF Holds, Uses
    <3>2. CASE phase[c] # "query"
      <4>1. UNCHANGED code
        BY <2>6, <3>2 DEF Emit
      <4> QED BY <2>0, <3>0, <3>2, <4>1 DEF Holds, Uses
    <3> QED BY <3>1, <3>2
  <2>7. CASE Recorded(c)
    <3>1. pc[c] = "stop" /\ phase[c] # "query" /\ pc'[c] \in {"prepare", "least"}
          /\ UNCHANGED <<phase, code, areas, full>>
      BY <1>0, <2>7 DEF Recorded, Again, Goto, bounds, MType
    <3> QED BY <2>0, <3>1 DEF Holds, Uses
  <2>8. CASE Repeated(c)
    <3>1. pc[c] = "stop" /\ phase[c] = "query" /\ UNCHANGED <<code, areas, full>>
      BY <2>8 DEF Repeated, bounds
    <3>2. pc'[c] \in {"prepare", "idle"} /\ phase'[c] = "query"
      <4>1. CASE Return(c)
        BY <1>0, <4>1, ReturnFlow
      <4>2. CASE n[c] + 1 < Reps /\ Again(c, Reps, "idle") /\ UNCHANGED <<cpu, own, alone>>
        BY <1>0, <3>1, <4>2 DEF Again, Goto, MType
      <4> QED BY <2>8, <4>1, <4>2 DEF Repeated
    <3> QED BY <2>0, <3>1, <3>2 DEF Holds, Uses
  <2>9. CASE Least(c)
    <3>1. After(c, phase[c]) \in Threshold \cup {"query"}
      BY DEF After, Threshold
    <3>2. Enter(c, After(c, phase[c])) /\ UNCHANGED <<code, full>> /\ pc[c] = "least" /\ areas' = areas - 1
      BY <2>9 DEF Least, GivenBack, bounds
    <3>3. phase'[c] = After(c, phase[c]) /\ pc'[c] \in {"clear", "place", "prepare"}
          /\ (pc'[c] = "clear" <=> After(c, phase[c]) # "query") /\ phase[c] # "query"
      BY <1>0, <2>0, <3>1, <3>2, EnterFlow DEF FlowAt
    <3>4. ~Uses(c)' /\ Uses(c)
      <4>1. pc'[c] = "prepare" => phase'[c] = "query"
        BY <3>3
      <4> QED BY <3>2, <3>3, <4>1 DEF Uses
    <3> QED BY <2>0, <3>2, <3>4 DEF Holds
  <2>10. CASE Derail(c)
    <3>1. pc[c] = "prepare" /\ phase[c] = "query" /\ pc'[c] = "dead" /\ UNCHANGED <<code, areas, full>>
      BY <1>0, <2>10, EndFlow DEF Derail, bounds
    <3> QED BY <2>0, <3>1 DEF Holds, Uses
  <2> QED BY <1>3, <2>2, <2>3, <2>4, <2>5, <2>6, <2>7, <2>8, <2>9, <2>10 DEF Step
<1> QED BY <1>1, <1>2, <1>3 DEF Next

LEMMA InitAccounts == Init => PagesAccounted
<1> SUFFICES ASSUME Init PROVE PagesAccounted
  OBVIOUS
<1>1. Users = {} /\ {c \in Client : code[c] # NoCode} = {}
  BY DEF Init, Users
<1>2. Cardinality({}) = 0
  BY FS_EmptySet
<1>3. areas = 0 /\ full = 0
  BY DEF Init
<1> QED BY <1>1, <1>2, <1>3 DEF PagesAccounted

\* For any finite number of clients, and whichever allocation, placement or emission
\* fails: the areas are those of files and of calls under way, and one lost for each
\* calibration without room.
THEOREM PagesCorrect == Spec => []PagesAccounted
BY InitTypes, FlowStep, InitAccounts, StepAccounts, PTL DEF Spec

-----------------------------------------------------------------------------
\* The pages of a query have been found suitable, unless the search gave up.
Suited(c) ==
  pc[c] = "emit" /\ phase[c] = "query" /\ tries[c] < MaxAttempts =>
    Suits(Target[c].level, area[c], Target[c])
PInv == \A c \in Client : Suited(c)

\* Division with remainder, and that quotient and remainder are unique.
LEMMA Euclid ==
  ASSUME NEW w \in Nat \ {0}, NEW x \in Int
  PROVE  x = w * (x \div w) + (x % w) /\ (x \div w) \in Int /\ (x % w) \in 0..w-1
OBVIOUS

LEMMA Multiple ==
  ASSUME NEW w \in Nat \ {0}, NEW d \in Int, w * d < w, w * d > -w
  PROVE  d = 0
<1>1. CASE d >= 1
  <2>1. w * d >= w
    BY <1>1
  <2> QED BY <2>1
<1>2. CASE d <= -1
  <2>1. w * d <= -w
    BY <1>2
  <2> QED BY <2>1
<1> QED BY <1>1, <1>2

LEMMA Division ==
  ASSUME NEW w \in Nat \ {0}, NEW q \in Int, NEW r \in 0..w-1
  PROVE  (w * q + r) \div w = q /\ (w * q + r) % w = r
<1>1. PICK x \in Int : x = w * q + r
  OBVIOUS
<1>2. PICK p \in Int, s \in 0..w-1 : x = w * p + s /\ p = x \div w /\ s = x % w
  BY Euclid
<1>3. PICK d \in Int : d = p - q
  OBVIOUS
<1>4. w * d = w * p - w * q
  BY <1>3
<1>5. w * d = r - s
  <2>1. PICK a \in Int, b \in Int, e \in Int : a = w * p /\ b = w * q /\ e = w * d
    OBVIOUS
  <2>2. x = b + r /\ x = a + s /\ e = a - b
    BY <1>1, <1>2, <1>4, <2>1
  <2>3. e = r - s
    BY <2>2
  <2> QED BY <2>1, <2>3
<1>6. d = 0
  BY <1>5, Multiple
<1>7. p = q
  BY <1>3, <1>6
<1>8. s = r
  BY <1>1, <1>2, <1>7
<1> QED BY <1>1, <1>2, <1>7, <1>8

\* The L2 sets of a page are those of one group of Lines.
LEMMA RowOfLine ==
  ASSUME NEW row \in Nat, NEW k \in 0..Lines-1
  PROVE  ((row * Lines + k) % S2) \div Lines = (row * Lines % S2) \div Lines
<1>0. Lines \in Nat \ {0} /\ S2 \in Nat \ {0} /\ (S2 % Lines) = 0
  BY PagesAssumption DEF PagesAssumption
<1>1. PICK m \in Int : S2 = Lines * m
  <2>1. S2 = Lines * (S2 \div Lines) + 0 /\ (S2 \div Lines) \in Int
    BY <1>0, Euclid
  <2> QED BY <2>1, <1>0
<1>2. PICK q \in Int, r \in 0..S2-1 : row * Lines = S2 * q + r
  <2>1. PICK x \in Int : x = row * Lines
    BY <1>0
  <2>2. x = S2 * (x \div S2) + (x % S2) /\ (x \div S2) \in Int /\ (x % S2) \in 0..S2-1
    BY <1>0, Euclid
  <2> QED BY <2>1, <2>2
<1>3. PICK b \in Int : r = Lines * b
  <2> DEFINE b == row - m * q
  <2>1. Lines * b = Lines * row - (Lines * m) * q /\ b \in Int
    BY <1>0
  <2>2. Lines * b = r
    BY <2>1, <1>0, <1>1, <1>2
  <2> HIDE DEF b
  <2> QED BY <2>1, <2>2
<1>4. b < m
  <2>1. CASE b >= m
    <3>1. Lines * b >= Lines * m
      BY <2>1, <1>0
    <3> QED BY <3>1, <1>1, <1>2, <1>3
  <2> QED BY <2>1
<1>5. Lines * b + Lines <= S2
  <2>1. Lines * (b + 1) <= Lines * m
    BY <1>0, <1>4
  <2> QED BY <2>1, <1>0, <1>1
<1>6. r + k \in 0..S2-1
  BY <1>0, <1>2, <1>3, <1>5
<1>7. ((row * Lines) % S2) = r
  BY <1>0, <1>2, Division
<1>8. ((row * Lines + k) % S2) = r + k
  <2>1. row * Lines + k = S2 * q + (r + k)
    BY <1>0, <1>2
  <2>2. ((S2 * q + (r + k)) % S2) = r + k
    BY <1>0, <1>6, Division
  <2> QED BY <2>1, <2>2
<1>9. (r \div Lines) = b
  <2>1. r = Lines * b + 0 /\ 0 \in 0..Lines-1
    BY <1>0, <1>3
  <2> QED BY <2>1, <1>0, Division
<1>10. ((r + k) \div Lines) = b
  <2>1. r + k = Lines * b + k
    BY <1>3
  <2> QED BY <2>1, <1>0, Division
<1> QED BY <1>7, <1>8, <1>9, <1>10

\* What Suits promises of each line of each page.
LEMMA SuitedApart ==
  ASSUME NEW c \in Client, NEW a \in Areas, Suits(Target[c].level, a, Target[c]),
         NEW p \in DOMAIN a, NEW l \in LinesOf(a[p])
  PROVE  /\ Target[c].level \in {1, 2} => l[1] % S2 # Target[c].set3 % S2
         /\ Hash[Target[c].set3 % Lines] = 0 => l # <<Target[c].set3, Target[c].slice>>
<1> DEFINE s == Target[c].set3  row == a[p].row
<1>0. /\ Lines \in Nat \ {0} /\ S2 \in Nat \ {0}
      /\ s \in Nat /\ row \in Nat /\ Xor(a[p].slice, 0) = a[p].slice /\ Target[c].level \in 1..3
  BY PagesAssumption, MeasureAssumption DEF PagesAssumption, MeasureAssumption
<1>1. PICK k \in 0..Lines-1 : l = <<row * Lines + k, Xor(a[p].slice, Hash[k])>>
  BY DEF LinesOf
<1>2. ~Rejected(Target[c].level, a[p], Target[c])
  BY DEF Suits
<1>3. ~SameL3(a[p], Target[c])
  BY <1>0, <1>2 DEF Rejected
<1>4. ASSUME Target[c].level \in {1, 2} PROVE l[1] % S2 # s % S2
  <2>1. ~SameL2(a[p], Target[c])
    BY <1>2, <1>4 DEF Rejected
  <2>2. ((row * Lines % S2) \div Lines) # ((s % S2) \div Lines)
    BY <2>1 DEF SameL2
  <2>3. ((row * Lines + k) % S2) \div Lines = (row * Lines % S2) \div Lines
    BY <1>0, RowOfLine
  <2>4. l[1] = row * Lines + k
    BY <1>1
  <2> QED BY <2>2, <2>3, <2>4
<1>5. ASSUME Hash[s % Lines] = 0, l = <<s, Target[c].slice>> PROVE FALSE
  <2>1. s = row * Lines + k /\ Target[c].slice = Xor(a[p].slice, Hash[k])
    BY <1>1, <1>5
  <2>2. s = Lines * row + k
    BY <1>0, <2>1
  <2>3. s \div Lines = row /\ s % Lines = k
    <3>1. \A w \in Nat \ {0} : \A q \in Int : \A r \in 0..w-1 :
            (w * q + r) \div w = q /\ (w * q + r) % w = r
      BY Division
    <3>2. row \in Int /\ k \in 0..Lines-1
      BY <1>0
    <3> HIDE DEF row, s
    <3>3. (Lines * row + k) \div Lines = row /\ (Lines * row + k) % Lines = k
      BY <1>0, <3>1, <3>2
    <3> QED BY <2>2, <3>3
  <2>4. a[p].slice = Target[c].slice
    BY <1>0, <1>5, <2>1, <2>3
  <2> QED BY <1>3, <2>3, <2>4 DEF SameL3
<1> QED BY <1>4, <1>5

LEMMA StepSuited == MInv /\ PInv /\ [Next]_vars => PInv'
<1> SUFFICES ASSUME MInv, PInv, [Next]_vars PROVE PInv'
  OBVIOUS
<1>0. MType /\ Flow
  BY DEF MInv
<1>1. CASE UNCHANGED vars \/ Configure \/ \E c \in Client : Store(c) \/ Move(c)
  <2>1. UNCHANGED <<pc, phase, tries, area>>
    BY <1>1 DEF vars, call, bounds, Configure, Store, Move
  <2> QED BY <2>1 DEF PInv, Suited
<1>2. ASSUME NEW c \in Client, Step(c) PROVE PInv'
  <2>1. \A d \in Client \ {c} : Suited(d)'
    BY <1>2, OthersStay DEF PInv, Suited
  <2>2. pc[c] # "place" => pc'[c] # "emit"
    <3>1. CASE Show(c)
      BY <1>0, <3>1 DEF Show, Enter, Goto, MType
    <3>2. CASE Clear(c) \/ Emit(c) \/ Prepare(c) \/ Run(c)
      BY <1>0, <3>2 DEF Clear, Emit, Prepare, Run, Goto, MType
    <3>3. CASE Place(c) \/ NoPages(c)
      BY <3>3 DEF Place, NoPages
    <3>4. CASE NoRoom(c) \/ Beach(c) \/ Least(c) \/ Derail(c)
      BY <1>0, <3>4 DEF NoRoom, Beach, Derail, Failed, Return, End, Least, Enter, Goto, MType
    <3>5. CASE Recorded(c) \/ Repeated(c)
      BY <1>0, <3>5 DEF Recorded, Repeated, Return, End, Again, Goto, MType
    <3> QED BY <1>2, <3>1, <3>2, <3>3, <3>4, <3>5 DEF Step
  <2>3. CASE Place(c)
    <3>1. PICK a \in Areas :
            IF tries'[c] < MaxAttempts /\ ~Suits(AreaLevel(c), a, Target[c])
            THEN UNCHANGED <<pc, area, areas>>
            ELSE Goto(c, "emit") /\ area' = [area EXCEPT ![c] = a] /\ areas' = areas + 1
      BY <2>3 DEF Place
    <3>2. pc[c] = "place" /\ UNCHANGED phase
      BY <2>3 DEF Place
    <3>3. CASE tries'[c] < MaxAttempts /\ ~Suits(AreaLevel(c), a, Target[c])
      BY <2>1, <3>1, <3>2, <3>3 DEF Suited, PInv
    <3>4. CASE ~(tries'[c] < MaxAttempts /\ ~Suits(AreaLevel(c), a, Target[c]))
      <4>1. area'[c] = a
        BY <1>0, <3>1, <3>4 DEF MType
      <4>2. phase[c] = "query" => AreaLevel(c) = Target[c].level
        BY DEF AreaLevel
      <4>3. Suited(c)'
        BY <3>2, <3>4, <4>1, <4>2 DEF Suited
      <4> QED BY <2>1, <4>3 DEF PInv
    <3> QED BY <3>3, <3>4
  <2>4. CASE ~Place(c)
    <3>1. pc'[c] # "emit"
      <4>1. CASE pc[c] # "place"
        BY <2>2, <4>1
      <4>2. CASE pc[c] = "place"
        <5>1. NoPages(c)
          BY <1>2, <2>4, <4>2 DEF Step, Show, Free, Clear, NoRoom, Beach, Derail, Emit, Prepare, Run, Recorded, Repeated, Least
        <5> QED BY <1>0, <5>1 DEF NoPages, Return, End, Failed, Enter, Goto, MType
      <4> QED BY <4>1, <4>2
    <3> QED BY <2>1, <3>1 DEF PInv, Suited
  <2> QED BY <2>3, <2>4
<1> QED BY <1>1, <1>2 DEF Next

\* For every size of pages and caches, and whatever __vmalloc returns: the lines of the
\* code of a query are not in the L2 set of its target, nor in its L3 set where
\* the target's line adds nothing to the slice.
THEOREM ApartCorrect == Spec => []PagesApart
<1>1. Init => PInv
  BY DEF Init, PInv, Suited
<1>2. MInv /\ PInv => PagesApart
  <2> SUFFICES ASSUME MInv, PInv, NEW c \in Client, pc[c] = "emit", phase[c] = "query",
                      tries[c] < MaxAttempts, NEW p \in DOMAIN area[c], NEW l \in LinesOf(area[c][p])
               PROVE  /\ Target[c].level \in {1, 2} => l[1] % S2 # Target[c].set3 % S2
                      /\ Hash[Target[c].set3 % Lines] = 0 => l # <<Target[c].set3, Target[c].slice>>
    BY DEF PagesApart
  <2>1. area[c] \in Areas \cup {NoArea}
    BY DEF MInv, MType
  <2>2. area[c] # NoArea
    BY DEF NoArea
  <2>3. Suits(Target[c].level, area[c], Target[c])
    BY DEF PInv, Suited
  <2> QED BY <2>1, <2>2, <2>3, SuitedApart
<1> QED BY InitTypes, FlowStep, StepSuited, <1>1, <1>2, PTL DEF Spec
=============================================================================
