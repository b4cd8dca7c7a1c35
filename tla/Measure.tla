------------------------------- MODULE Measure -------------------------------
(***************************************************************************)
(* Reads of run files around the code they run: the thresholds that are    *)
(* not given are calibrated, code is placed and generated, and every run   *)
(* of code, of a calibration or of the query, has the counter of its       *)
(* processor programmed before and stopped behind.  Each client has a file *)
(* of its own; the configuration, the histogram cal and the counters are   *)
(* shared, and a call can be moved to another processor wherever           *)
(* preemption is on.                                                       *)
(***************************************************************************)
EXTENDS CodePages, Integers, Sequences, FiniteSets

CONSTANTS
  Client,         \* processes, each with the file of Target[c]
  Cpu, Elsewhere, \* processors, and where a process without a call is
  Target,         \* [Client -> [level, set3, slice]]
  Missing,        \* the thresholds that are 0 in conf: [Client -> SUBSET Threshold]
  NSets,          \* number of sets of each level, passed on as a level by calibrate
  Areas,          \* what __vmalloc may return: sequences of pages
  MaxAttempts,    \* 10000 in the code
  MaxTime,        \* entries of cal
  MaxAccess,      \* max_access_time
  Skip, Runs,     \* calibrations before the first that counts, and all of them
  Reps,           \* num_repetitions
  MaxEvents       \* bound: changes of conf, moves and calibrations without room in all

ASSUME MeasureAssumption ==
  /\ IsFiniteSet(Client) /\ Elsewhere \notin Cpu
  /\ MaxTime \in Nat /\ MaxAccess \in 0..MaxTime
  /\ \A c \in Client : /\ Missing[c] \subseteq {"hit", "miss"}
                       /\ Target[c].level \in 1..3 /\ Target[c].set3 \in Nat
  /\ \A a \in Areas : \A p \in DOMAIN a : a[p].row \in Nat /\ Xor(a[p].slice, 0) = a[p].slice

VARIABLES
  pc,             \* idle | clear | place | emit | prepare | run | stop | least | dead
  phase,          \* hit | miss | query: whose code a call is about
  cpu,            \* where each call runs, Elsewhere if there is none
  tries, area,    \* of allocate_code_pages
  n,              \* runs of the code so far
  thr,            \* thresholds of the call: [value, unit]
  code,           \* code of each file: its unit and those of its thresholds
  conf,           \* [pmc, cycles]
  cal,            \* the times whose entry is not 0
  pmu,            \* the event each processor counts, or "off"
  areas,          \* areas allocated and not freed
  own,            \* times recorded for each threshold by a call that is alone (a history)
  alone,          \* a call neither overlapped another nor was moved (a history)
  stale,          \* conf has changed since the query was written (a history)
  midway,         \* conf has changed while a call was under way (a history)
  changes, moves, full

call == <<pc, phase, tries, area, n, thr>>
bounds == <<changes, moves, full, midway>>
vars == <<call, cpu, code, conf, cal, pmu, areas, own, alone, stale, bounds>>

Threshold == {"hit", "miss"}
NoCode == [unit |-> "none", thr |-> [t \in Threshold |-> "given"]]
Partial == [NoCode EXCEPT !.unit = "partial"] \* what fitted of it, without an end
Given == [value |-> -2, unit |-> "given"]
NoArea == <<>>
Free(c) == pc[c] = "idle"
Over(c) == pc[c] \in {"idle", "dead"}
More == changes + moves + full < MaxEvents

\* The event of prepare_counters for a level of the cache.
Event(level) == <<"L1", "L2", "L3">>[level]

\* What conf makes the code measure, and the counters count.
Unit(c) ==
  IF phase[c] = "query" /\ conf.pmc THEN Event(Target[c].level)
  ELSE IF conf.cycles THEN "cycles" ELSE "tsc"

Goto(c, l) == pc' = [pc EXCEPT ![c] = l]

\* The thresholds of a call are in the code or gone.
Forget(c) ==
  /\ thr' = [thr EXCEPT ![c] = [t \in Threshold |-> Given]]
  /\ own' = [t \in Threshold |-> {}]

\* The thresholds still to be calibrated, hit first; then the query, whose code
\* is generated unless the file has some.
Enter(c, p) ==
  /\ phase' = [phase EXCEPT ![c] = p]
  /\ n' = [n EXCEPT ![c] = 0] /\ tries' = [tries EXCEPT ![c] = 0]
  /\ Goto(c, IF p # "query" THEN "clear" ELSE IF code[c] = NoCode THEN "place" ELSE "prepare")

After(c, p) == IF p = "hit" /\ "miss" \in Missing[c] THEN "miss" ELSE "query"

-----------------------------------------------------------------------------
\* cacheset_show and val_show up to the calibrations: use_pmc needs none.
First(c) ==
  IF conf.pmc \/ Missing[c] = {} THEN "query" ELSE IF "hit" \in Missing[c] THEN "hit" ELSE "miss"

Show(c) ==
  /\ Free(c)
  /\ \E p \in Cpu : cpu' = [cpu EXCEPT ![c] = p]
  /\ Enter(c, First(c))
  /\ Forget(c)
  /\ alone' = [d \in Client |->
       IF d = c THEN \A e \in Client : Over(e) ELSE Over(d) /\ alone[d]]
  /\ UNCHANGED <<area, code, conf, cal, pmu, areas, stale, bounds>>

\* memset of cal.
Cleared == {}

Clear(c) ==
  /\ pc[c] = "clear"
  /\ Goto(c, "place")
  /\ cal' = Cleared
  /\ UNCHANGED <<phase, tries, area, n, thr, cpu, code, conf, pmu, areas, own, alone, stale, bounds>>

\* The level allocate_code_pages is given: calibrate passes the number of sets,
\* of which an unsigned char remains.
AreaLevel(c) == IF phase[c] = "query" THEN Target[c].level ELSE NSets[Target[c].level] % 256

\* One attempt; the last is not checked.
Place(c) ==
  /\ pc[c] = "place"
  /\ tries' = [tries EXCEPT ![c] = @ + 1]
  /\ \E a \in Areas :
       IF tries'[c] < MaxAttempts /\ ~Suits(AreaLevel(c), a, Target[c])
       THEN UNCHANGED <<pc, area, areas>>
       ELSE /\ Goto(c, "emit")
            /\ area' = [area EXCEPT ![c] = a] /\ areas' = areas + 1
  /\ UNCHANGED <<phase, n, thr, cpu, code, conf, cal, pmu, own, alone, stale, bounds>>

\* A calibration that fails returns -1, which is the threshold then.
Failed(c) ==
  /\ thr' = [thr EXCEPT ![c][phase[c]] = [value |-> -1, unit |-> "failed"]]
  /\ Enter(c, After(c, phase[c]))

End(c, l) ==
  /\ Goto(c, l)
  /\ phase' = [phase EXCEPT ![c] = "query"] /\ n' = [n EXCEPT ![c] = 0]
  /\ tries' = [tries EXCEPT ![c] = 0]
  /\ Forget(c)
  /\ alone' = [alone EXCEPT ![c] = FALSE] /\ cpu' = [cpu EXCEPT ![c] = Elsewhere]
Return(c) == End(c, "idle")

NoPages(c) ==
  /\ pc[c] = "place"
  /\ IF phase[c] = "query" THEN Return(c) ELSE Failed(c) /\ UNCHANGED <<cpu, own, alone>>
  /\ UNCHANGED <<area, code, conf, cal, pmu, areas, stale, bounds>>

\* The code does not fit.  A calibration loses its pages; those of a query stay the
\* file's, with what has been written.
NoRoom(c) ==
  /\ pc[c] = "emit"
  /\ IF phase[c] = "query"
     THEN Return(c) /\ code' = [code EXCEPT ![c] = Partial] /\ UNCHANGED full
     ELSE More /\ full' = full + 1 /\ Failed(c) /\ UNCHANGED <<code, cpu, own, alone>>
  /\ area' = [area EXCEPT ![c] = NoArea]
  /\ UNCHANGED <<conf, cal, pmu, areas, stale, changes, moves, midway>>

\* free_code_pages, at "beach" and at the end of a calibration.
\* Mutant: it is left out.
GivenBack_Not == areas
GivenBack == areas - 1

\* A set without enough blocks: "beach", then as above.
Beach(c) ==
  /\ pc[c] = "emit"
  /\ IF phase[c] = "query" THEN Return(c) ELSE Failed(c) /\ UNCHANGED <<cpu, own, alone>>
  /\ area' = [area EXCEPT ![c] = NoArea] /\ areas' = GivenBack
  /\ UNCHANGED <<code, conf, cal, pmu, stale, bounds>>

\* The code, from the settings of this moment; that of the query is kept with the
\* units of its thresholds, that of a calibration is the threshold's.
Emit(c) ==
  /\ pc[c] = "emit"
  /\ Goto(c, "prepare")
  /\ area' = [area EXCEPT ![c] = NoArea]
  /\ IF phase[c] = "query"
     THEN /\ code' = [code EXCEPT ![c] = [unit |-> Unit(c), thr |-> [t \in Threshold |-> thr[c][t].unit]]]
          /\ Forget(c)
     ELSE /\ thr' = [thr EXCEPT ![c][phase[c]].unit = Unit(c)]
          /\ UNCHANGED <<code, own>>
  /\ UNCHANGED <<phase, tries, n, cpu, conf, cal, pmu, areas, alone, stale, bounds>>

-----------------------------------------------------------------------------
\* The warm-up of code without an end.
Derail(c) ==
  /\ pc[c] = "prepare" /\ phase[c] = "query" /\ code[c] = Partial
  /\ End(c, "dead")
  /\ UNCHANGED <<area, code, conf, cal, pmu, areas, stale, bounds>>

\* prepare_counters, while the call can still be moved.
Prepare(c) ==
  /\ pc[c] = "prepare" /\ (phase[c] = "query" => code[c] # Partial)
  /\ Goto(c, "run")
  /\ pmu' = IF Unit(c) = "tsc" THEN pmu ELSE [pmu EXCEPT ![cpu[c]] = Unit(c)]
  /\ UNCHANGED <<phase, tries, area, n, thr, cpu, code, conf, cal, areas, own, alone, stale, bounds>>

\* The code runs, without preemption and interrupts.
Run(c) ==
  /\ pc[c] = "run"
  /\ Goto(c, "stop")
  /\ UNCHANGED <<phase, tries, area, n, thr, cpu, code, conf, cal, pmu, areas, own, alone, stale, bounds>>

\* disable_counters.   Mutant: for use_pmc only.
Stopped_Pmc(c) == IF conf.pmc THEN [pmu EXCEPT ![cpu[c]] = "off"] ELSE pmu
Stopped(c) == IF Unit(c) = "tsc" THEN pmu ELSE [pmu EXCEPT ![cpu[c]] = "off"]

Again(c, last, l) ==
  /\ n' = [n EXCEPT ![c] = @ + 1]
  /\ Goto(c, IF n[c] + 1 < last THEN "prepare" ELSE l)
  /\ UNCHANGED <<phase, tries, thr>>

\* A calibration takes the time down, unless it is too long or an early one.
Recorded(c) ==
  /\ pc[c] = "stop" /\ phase[c] # "query"
  /\ pmu' = Stopped(c)
  /\ \E t \in 0..MaxTime :
       IF t < MaxAccess /\ n[c] > Skip
       THEN /\ cal' = cal \cup {t}
            /\ own' = IF alone[c] THEN [own EXCEPT ![phase[c]] = @ \cup {t}] ELSE own
       ELSE UNCHANGED <<cal, own>>
  /\ Again(c, Runs, "least")
  /\ UNCHANGED <<area, cpu, code, conf, areas, alone, stale, bounds>>

\* The query is repeated, or the call ends: after an exception, or the last time.
Repeated(c) ==
  /\ pc[c] = "stop" /\ phase[c] = "query"
  /\ pmu' = Stopped(c)
  /\ \/ n[c] + 1 < Reps /\ Again(c, Reps, "idle") /\ UNCHANGED <<cpu, own, alone>>
     \/ Return(c)
  /\ UNCHANGED <<area, code, conf, cal, areas, stale, bounds>>

\* get_min: MAX_TIME if there is no time.   Mutant: the time of no entry is 0.
GetMin_Zero(h) == IF h = {} THEN 0 ELSE CHOOSE t \in h : \A u \in h : t <= u
GetMin(h) == IF h = {} THEN MaxTime ELSE CHOOSE t \in h : \A u \in h : t <= u

Least(c) ==
  /\ pc[c] = "least"
  /\ thr' = [thr EXCEPT ![c][phase[c]].value = GetMin(cal)]
  /\ areas' = GivenBack
  /\ Enter(c, After(c, phase[c]))
  /\ UNCHANGED <<area, cpu, code, conf, cal, pmu, own, alone, stale, bounds>>

-----------------------------------------------------------------------------
\* A new query: the code goes.   Mutant: it stays.
Store_Keep(c) ==
  /\ Free(c) /\ (stale[c] \/ code[c] # NoCode)
  /\ stale' = [stale EXCEPT ![c] = FALSE]
  /\ UNCHANGED <<code, areas, call, cpu, conf, cal, pmu, own, alone, bounds>>
Store(c) ==
  /\ Free(c) /\ (stale[c] \/ code[c] # NoCode)
  /\ stale' = [stale EXCEPT ![c] = FALSE]
  /\ code' = [code EXCEPT ![c] = NoCode]
  /\ areas' = IF code[c] = NoCode THEN areas ELSE areas - 1
  /\ UNCHANGED <<call, cpu, conf, cal, pmu, own, alone, bounds>>

Configure ==
  /\ More /\ changes' = changes + 1
  /\ \E o \in {"pmc", "cycles"} : conf' = [conf EXCEPT ![o] = ~@]
  /\ stale' = [c \in Client |-> TRUE]
  /\ midway' = (midway \/ \E c \in Client : ~Over(c))
  /\ UNCHANGED <<call, cpu, code, cal, pmu, areas, own, alone, moves, full>>

Move(c) ==
  /\ ~Over(c) /\ More /\ moves' = moves + 1
  /\ \E p \in Cpu \ {cpu[c]} : cpu' = [cpu EXCEPT ![c] = p]
  /\ UNCHANGED <<call, code, conf, cal, pmu, areas, own, alone, stale, changes, full, midway>>

Init ==
  /\ pc = [c \in Client |-> "idle"] /\ phase = [c \in Client |-> "query"]
  /\ cpu = [c \in Client |-> Elsewhere]
  /\ tries = [c \in Client |-> 0] /\ area = [c \in Client |-> NoArea]
  /\ n = [c \in Client |-> 0]
  /\ thr = [c \in Client |-> [t \in Threshold |-> Given]]
  /\ code = [c \in Client |-> NoCode]
  /\ conf \in [pmc : BOOLEAN, cycles : BOOLEAN]
  /\ cal = {} /\ pmu = [p \in Cpu |-> "off"] /\ areas = 0
  /\ own = [t \in Threshold |-> {}]
  /\ alone = [c \in Client |-> FALSE] /\ stale = [c \in Client |-> FALSE]
  /\ changes = 0 /\ moves = 0 /\ full = 0 /\ midway = FALSE

Step(c) ==
  \/ Show(c) \/ Clear(c) \/ Place(c) \/ NoPages(c) \/ NoRoom(c) \/ Beach(c) \/ Emit(c)
  \/ Derail(c) \/ Prepare(c) \/ Run(c) \/ Recorded(c) \/ Repeated(c) \/ Least(c)

Next == Configure \/ \E c \in Client : Step(c) \/ Store(c) \/ Move(c)

Spec == Init /\ [][Next]_vars

-----------------------------------------------------------------------------
\* A calibrated threshold is the least of the times this call recorded for it, and
\* MAX_TIME if there were none, as long as no other call ran meanwhile: what an
\* earlier calibration left in cal does not count (main.c:342, 532-539).
ThresholdIsLeast ==
  \A c \in Client : alone[c] /\ ~Over(c) =>
    \A t \in Threshold : thr[c][t].value >= 0 =>
      /\ thr[c][t].value \in own[t] \cup {MaxTime}
      /\ \A u \in own[t] : thr[c][t].value <= u

\* After a change of the configuration it is enough to write the query again: the
\* counter that is programmed counts what the code reads, and thresholds that
\* were calibrated are in the unit of the times they are compared with, for a
\* call that no other overlaps and that stays on its processor (main.c:559-621,
\* parser.c:488-543).
UnderWay(c) == IF phase[c] = "query" THEN code[c].unit ELSE thr[c][phase[c]].unit
CountsWhatIsRead ==
  \A c \in Client : pc[c] = "run" /\ alone[c] /\ ~stale[c] /\ moves = 0 =>
    /\ UnderWay(c) # "tsc" => pmu[cpu[c]] = UnderWay(c)
    /\ phase[c] = "query" =>
         \A t \in Threshold : code[c].thr[t] \in {"given", "failed", code[c].unit}

\* Calls that overlap on one processor may stop each other's counter, but when all
\* are over no counter runs, unless one was moved or the configuration changed
\* under it (main.c:601-621).
CountersStop ==
  (\A c \in Client : Over(c)) /\ moves = 0 /\ ~midway => \A p \in Cpu : pmu[p] = "off"

\* Every area is in use by a call or the code of a file, whole or not, but for one
\* for each calibration that had no room: no other way for generate_code to fail
\* loses any (main.c:541-546, parser.c:215-249, 682-686).
Users == {c \in Client : pc[c] \in {"emit", "prepare", "run", "stop", "least"} /\ phase[c] # "query"}
           \cup {c \in Client : pc[c] = "emit" /\ code[c] = NoCode}
PagesAccounted ==
  areas = Cardinality(Users) + Cardinality({c \in Client : code[c] # NoCode}) + full

\* Unless the search gave up, no line of the code of a query is in the L2 set of a
\* target in L1 or L2, and none in the L3 set of a target whose own line adds
\* nothing to the slice of its page (parser.c:222-250).
PagesApart ==
  \A c \in Client : pc[c] = "emit" /\ phase[c] = "query" /\ tries[c] < MaxAttempts =>
    \A p \in DOMAIN area[c] : \A l \in LinesOf(area[c][p]) :
      /\ Target[c].level \in {1, 2} => l[1] % S2 # Target[c].set3 % S2
      /\ Hash[Target[c].set3 % Lines] = 0 => l # <<Target[c].set3, Target[c].slice>>

\* parser.c:222: "check that code doesn't interfer with eviction sets".  Unless the
\* search gave up, no line of the code is in the L3 set of the target.
CodeStaysApart ==
  \A c \in Client : pc[c] = "emit" /\ phase[c] = "query" /\ tries[c] < MaxAttempts =>
    \A p \in DOMAIN area[c] : <<Target[c].set3, Target[c].slice>> \notin LinesOf(area[c][p])
=============================================================================
