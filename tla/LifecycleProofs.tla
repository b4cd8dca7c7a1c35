-------------------------- MODULE LifecycleProofs ----------------------------
(***************************************************************************)
(* For any numbers of files and clients, and whatever a load is refused:   *)
(* the only code that is lost is that of the window between the two halves *)
(* of the destruction of its file; a load keeps all or nothing; nothing is *)
(* released twice; and only exit takes from clients what they need.        *)
(***************************************************************************)
EXTENDS Lifecycle, TLAPS

\* A file is destroyed in three phases: its code is dropped, the file is withdrawn,
\* its clients are waited for.  After the first its code is late code; in the last it
\* is the one file that clients can be in without seeing it.
OInv ==
  /\ NoOrphanCode
  /\ DOMAIN uses = Client
  /\ phase # "code" => Destroying /\ (Doomed \in code => Doomed \in late)
  /\ \A c \in Client : uses[c] # NoFile =>
       uses[c] \in visible \/ (phase = "drain" /\ uses[c] = Doomed)

LEMMA InitOrphans == Init => OInv
BY DEF Init, OInv, NoOrphanCode

\* A step of insmod or rmmod that is about something else than a file.
LEMMA ModuleStep ==
  ASSUME OInv, phase = "code", phase' = "code", UNCHANGED <<visible, code, uses, late>>
  PROVE  OInv'
BY DEF OInv, NoOrphanCode

LEMMA StepOrphans == OInv /\ [Next]_vars => OInv'
<1> SUFFICES ASSUME OInv, [Next]_vars PROVE OInv'
  OBVIOUS
<1>0. pc \notin {"undo", "exit"} => phase = "code"
  BY DEF OInv, Destroying
<1>1. CASE UNCHANGED vars
  BY <1>1 DEF vars, control, OInv, NoOrphanCode, Destroying, Doomed, Here, Order
<1>2. CASE Load \/ Take \/ Created \/ Refuse \/ Unload
  <2>1. phase = "code" /\ phase' = "code" /\ UNCHANGED <<visible, code, uses, late>>
    BY <1>0, <1>2 DEF Load, Take, Created, Refuse, Unload, Advance, Enter
  <2> QED BY <2>1, ModuleStep
<1>3. CASE Create
  BY <1>0, <1>3 DEF Create, OInv, NoOrphanCode
<1>4. CASE Release
  <2>1. Here \notin Family
    BY <1>4 DEF Release, Single, Family
  <2>2. phase = "code"
    BY <2>1 DEF OInv, Destroying
  <2>3. phase' = "code" /\ UNCHANGED <<visible, code, uses, late>>
    BY <1>4, <2>2 DEF Release, Proceed, Enter
  <2> QED BY <2>2, <2>3, ModuleStep
<1>5. CASE Destroyed
  <2>1. phase = "code" /\ phase' = "code" /\ UNCHANGED <<visible, code, uses, late>>
    BY <1>5 DEF Destroyed, Proceed, Enter
  <2> QED BY <2>1, ModuleStep
<1>6. CASE DropCode
  <2>1. Doomed' = Doomed /\ Destroying' /\ code' = code \ {Doomed}
    BY <1>6 DEF DropCode, FreeCode, Doomed, Destroying, Here, Order
  <2> QED BY <1>6, <2>1 DEF DropCode, OInv, NoOrphanCode
<1>7. CASE Withdraw
  <2>1. Doomed' = Doomed /\ Destroying' /\ visible' = visible \ {Doomed}
    BY <1>7 DEF Withdraw, Doomed, Destroying, Here, Order
  <2> QED BY <1>7, <2>1 DEF Withdraw, OInv, NoOrphanCode
<1>8. CASE Drain
  <2>1. \A c \in Client : uses[c] # Doomed
    BY <1>8 DEF Drain, Drained
  <2> QED BY <1>8, <2>1 DEF Drain, OInv, NoOrphanCode
<1>9. ASSUME NEW c \in Client, Generate(c) \/ Drop(c) \/ Close(c) \/ \E f \in File : Open(c, f)
      PROVE  OInv'
  <2>1. Doomed' = Doomed /\ Destroying' = Destroying /\ UNCHANGED <<phase, visible>>
    BY <1>9 DEF Generate, Drop, Close, Open, control, Doomed, Destroying, Here, Order
  <2>2. CASE Generate(c)
    BY <2>1, <2>2 DEF Generate, OInv, NoOrphanCode
  <2>3. CASE Drop(c)
    BY <2>1, <2>3 DEF Drop, OInv, NoOrphanCode
  <2>4. CASE Close(c)
    BY <2>1, <2>4 DEF Close, OInv, NoOrphanCode
  <2>5. CASE \E f \in File : Open(c, f)
    BY <2>1, <2>5 DEF Open, OInv, NoOrphanCode
  <2> QED BY <1>9, <2>2, <2>3, <2>4, <2>5
<1> QED BY <1>1, <1>2, <1>3, <1>4, <1>5, <1>6, <1>7, <1>8, <1>9 DEF Next, Module

\* Whatever a load is refused, and while any number of clients use the files: code
\* outlives its file only if it was generated while the file was being destroyed.
THEOREM OrphansCorrect == Spec => []NoOrphanCode
<1>1. OInv => NoOrphanCode
  BY DEF OInv
<1> QED BY InitOrphans, StepOrphans, <1>1, PTL DEF Spec

-----------------------------------------------------------------------------
\* How far init is says what is held: the resources and the files of the loops
\* before this position, and in a loop the files before i.
TakenBefore ==
  /\ \A k \in 1..Len(InitOrder) : InitOrder[k] \in Single => (InitOrder[k] \in held <=> k < at)
  /\ \A f \in File, k \in 1..Len(InitOrder) : InitOrder[k] = f[1] =>
       (f \in visible <=> k < at \/ (k = at /\ f[2] < i))

\* How far undo or exit is, in its order o, says what is still held: what is named
\* from this position on, and in a loop the files from j to i.  config_objs is
\* held or not, as no order gives it back for certain.
KeptFrom(o) ==
  /\ \A k \in 1..Len(o) : o[k] \in Single \ {"table"} => (o[k] \in held <=> k >= at)
  /\ \A f \in File, k \in 1..Len(o) : o[k] = f[1] =>
       (f \in visible <=> \/ k > at
                          \/ k = at /\ f[2] < i /\ f[2] >= j /\ (phase = "drain" => f[2] # j))

\* i is never more than the files of the loop at hand; a load that is refused
\* config_objs goes to the loop over l1 with the i that its own loop left.
Counters ==
  /\ pc \notin {"init", "undo", "exit"} => at = 1
  /\ pc \notin {"undo", "exit"} => phase = "code" /\ j = 0
  /\ phase # "code" => Here \in Family /\ j < i
  /\ pc \in {"init", "undo", "exit"} /\ Here \in Family => i <= Count[Here]
  /\ pc = "init" /\ Here = "table" => i = Count["l1"]

\* What is held follows from the position.  An exit has nothing to give back if
\* the load it ends had failed and returned 0.
LInv ==
  /\ TypeOK /\ Counters
  /\ pc = "init" => TakenBefore
  /\ pc = "undo" => KeptFrom(BeachOrder) /\ ("table" \in held => at <= 10)
  /\ pc = "exit" => KeptFrom(ExitOrder) \/ Nothing
  /\ pc = "loaded" => Everything \/ Nothing
  /\ pc \in {"absent", "failed"} => Nothing
  /\ pc = "unloaded" => held \subseteq {"table"} /\ visible = {}

\* The orders name nothing twice, and leave nothing but config_objs out.
LEMMA InitNames ==
  /\ Len(InitOrder) = 15
  /\ \A k, l \in 1..15 : InitOrder[k] = InitOrder[l] => k = l
  /\ \A x \in Single \cup Family : \E k \in 1..15 : InitOrder[k] = x
  /\ \A k \in 1..15 : InitOrder[k] \in Single \cup Family \cup {"group"}
BY DEF InitOrder, Single, Family

LEMMA UndoNames ==
  ASSUME NEW o, o = BeachOrder \/ o = ExitOrder
  PROVE  /\ Len(o) \in Nat \ {0}
         /\ \A k, l \in 1..Len(o) : o[k] = o[l] => k = l
         /\ \A x \in (Single \ {"table"}) \cup Family : \E k \in 1..Len(o) : o[k] = x
         /\ \A k \in 1..Len(o) : o[k] \in Single \cup Family
<1>1. CASE o = BeachOrder
  BY <1>1 DEF BeachOrder, Single, Family
<1>2. CASE o = ExitOrder
  BY <1>2 DEF ExitOrder, Single, Family
<1> QED BY <1>1, <1>2

LEMMA Lengths == Len(InitOrder) = 15 /\ Len(BeachOrder) = 14 /\ Len(ExitOrder) = 13
BY DEF InitOrder, BeachOrder, ExitOrder

LEMMA Apart == Single \cap Family = {} /\ "group" \notin Single \cup Family /\ "table" \in Single
BY DEF Single, Family

LEMMA Counts == \A f \in Family : Count[f] \in Nat \ {0}
BY LifecycleAssumption DEF LifecycleAssumption

LEMMA Files ==
  /\ \A f \in File : f[1] \in Family /\ f[2] \in 0..Count[f[1]]-1 /\ f = <<f[1], f[2]>>
  /\ \A x \in Family : \A m \in 0..Count[x]-1 : <<x, m>> \in File
BY DEF File

-----------------------------------------------------------------------------
\* Once nothing is left of a position the next one has all it names, and behind the
\* last there is nothing.
LEMMA Passed ==
  ASSUME NEW o, o = BeachOrder \/ o = ExitOrder, KeptFrom(o), at \in 1..Len(o),
         i \in Nat, j \in Nat, phase = "code", visible \subseteq File,
         visible' = visible, held' = held \ {o[at]},
         o[at] \in Family => j >= i
  PROVE  /\ at < Len(o) /\ at' = at + 1 /\ j' = 0 /\ phase' = "code"
              /\ (o[at'] \in Family => i' = Count[o[at']])
           => KeptFrom(o)'
         /\ at = Len(o) => held' \cap Single \subseteq {"table"} /\ visible' = {}
<1>0. o' = o
  BY DEF BeachOrder, ExitOrder
<1>1. ASSUME at < Len(o), at' = at + 1, j' = 0, phase' = "code",
             o[at'] \in Family => i' = Count[o[at']]
      PROVE  KeptFrom(o)'
  <2>1. ASSUME NEW k \in 1..Len(o), o[k] \in Single \ {"table"}
        PROVE  o[k] \in held' <=> k >= at'
    BY <1>1, <2>1, UndoNames DEF KeptFrom
  <2>2. ASSUME NEW f \in File, NEW k \in 1..Len(o), o[k] = f[1]
        PROVE  f \in visible' <=>
                 \/ k > at'
                 \/ k = at' /\ f[2] < i' /\ f[2] >= j' /\ (phase' = "drain" => f[2] # j')
    <3>1. f[1] \in Family /\ f[2] \in 0..Count[f[1]]-1 /\ Count[f[1]] \in Nat
      BY Files, Counts
    <3>2. f \in visible <=> k > at
      BY <2>2, <3>1 DEF KeptFrom
    <3>3. k = at' => f[2] < i' /\ f[2] >= j'
      BY <3>1, <1>1, <2>2
    <3> QED BY <1>1, <3>2, <3>3, UndoNames
  <2> QED BY <1>0, <2>1, <2>2 DEF KeptFrom
<1>2. ASSUME at = Len(o)
      PROVE  held' \cap Single \subseteq {"table"} /\ visible' = {}
  <2>1. ASSUME NEW x \in held', x \in Single PROVE x = "table"
    BY <1>2, <2>1, UndoNames DEF KeptFrom
  <2>2. ASSUME NEW f \in visible PROVE FALSE
    <3>1. f \in File /\ f[1] \in Family /\ f[2] \in 0..Count[f[1]]-1 /\ Count[f[1]] \in Nat
      BY Files, Counts
    <3>2. PICK k \in 1..Len(o) : o[k] = f[1]
      BY <3>1, UndoNames
    <3> QED BY <3>1, <3>2, <1>2, UndoNames DEF KeptFrom
  <2> QED BY <2>1, <2>2
<1> QED BY <1>1, <1>2

\* Where init is when i matters to the next loop.
LEMMA InitPlaces ==
  /\ InitOrder[1] = "root" /\ InitOrder[13] = "l1" /\ InitOrder[14] = "table" /\ InitOrder[15] = "config"
  /\ \A k \in 1..15 : (InitOrder[k] = "table" => k = 14) /\ (InitOrder[k] = "root" => k = 1)
BY DEF InitOrder

-----------------------------------------------------------------------------
LEMMA InitLoads == Init => LInv
BY Counts DEF Init, LInv, TypeOK, Counters, Nothing, Order, ExitOrder

LEMMA LoadLoads == LInv /\ Load => LInv'
<1> SUFFICES ASSUME LInv, Load PROVE LInv'
  OBVIOUS
<1>1. pc' = "init" /\ at' = 1 /\ i' = 0 /\ j' = 0 /\ phase' = "code" /\ ret' = 0
      /\ UNCHANGED <<held, visible, code, uses, late>> /\ Order' = InitOrder /\ Here' = "root"
  BY InitPlaces DEF Load, Enter, Order, Here
<1>2. held = {} /\ visible = {}
  BY DEF LInv, Load, Nothing
<1>3. TypeOK'
  BY <1>1, Lengths DEF LInv, TypeOK
<1>4. Counters'
  BY <1>1 DEF Counters, Family
<1>5. TakenBefore'
  BY <1>1, <1>2, Lengths, Files, Counts DEF TakenBefore
<1> QED BY <1>1, <1>3, <1>4, <1>5 DEF LInv

LEMMA TakeLoads == LInv /\ Take => LInv'
<1> SUFFICES ASSUME LInv, Take PROVE LInv'
  OBVIOUS
<1>1. pc = "init" /\ Order = InitOrder /\ Here = InitOrder[at] /\ Here \in Single \cup {"group"}
      /\ at \in 1..15 /\ TakenBefore /\ j = 0 /\ phase = "code"
  BY Lengths DEF Take, Order, Here, LInv, TypeOK, Counters
<1>2. at < 15 /\ at # 13
  BY <1>1, InitPlaces, Apart DEF Family, Single
<1>3. pc' = "init" /\ at' = at + 1 /\ i' = 0 /\ Order' = InitOrder /\ Here' = InitOrder[at + 1]
      /\ UNCHANGED <<j, phase, ret, visible, code, uses, late>>
      /\ held' = held \cup ({Here} \cap Single)
  BY <1>1, <1>2, Lengths DEF Take, Advance, Order, Here
<1>4. TypeOK'
  BY <1>1, <1>2, <1>3, Lengths DEF LInv, TypeOK
<1>5. Here' # "table"
  BY <1>1, <1>2, <1>3, InitNames, InitPlaces
<1>6. Counters'
  BY <1>1, <1>3, <1>5, Counts DEF Counters
<1>7. ASSUME NEW k \in 1..15, InitOrder[k] \in Single
      PROVE  InitOrder[k] \in held' <=> k < at'
  BY <1>1, <1>3, <1>7, InitNames, Lengths DEF TakenBefore
<1>8. ASSUME NEW f \in File, NEW k \in 1..15, InitOrder[k] = f[1]
      PROVE  f \in visible' <=> k < at' \/ (k = at' /\ f[2] < i')
  <2>1. f[1] \in Family /\ f[2] \in 0..Count[f[1]]-1 /\ Count[f[1]] \in Nat
    BY Files, Counts
  <2>2. k # at
    BY <2>1, <1>1, <1>8, Apart
  <2> QED BY <2>1, <2>2, <1>1, <1>3, <1>8, Lengths DEF TakenBefore
<1>9. TakenBefore'
  BY <1>7, <1>8, Lengths DEF TakenBefore
<1> QED BY <1>3, <1>4, <1>6, <1>9 DEF LInv

LEMMA CreateLoads == LInv /\ Create => LInv'
<1> SUFFICES ASSUME LInv, Create PROVE LInv'
  OBVIOUS
<1>1. pc = "init" /\ Order = InitOrder /\ Here = InitOrder[at] /\ Here \in Family
      /\ at \in 1..15 /\ TakenBefore /\ j = 0 /\ phase = "code" /\ i \in Nat
      /\ i < Count[Here] /\ Count[Here] \in Nat
  BY Lengths, Counts DEF Create, Order, Here, LInv, TypeOK, Counters
<1>2. i' = i + 1 /\ Order' = InitOrder /\ Here' = Here
      /\ UNCHANGED <<pc, at, j, phase, ret, held, code, uses, late>>
      /\ visible' = visible \cup {<<Here, i>>}
  BY <1>1 DEF Create, Order, Here
<1>3. <<Here, i>> \in File
  BY <1>1, Files
<1>4. TypeOK'
  BY <1>1, <1>2, <1>3 DEF LInv, TypeOK
<1>5. Counters'
  BY <1>1, <1>2, Apart DEF Counters, Family
<1>6. ASSUME NEW f \in File, NEW k \in 1..15, InitOrder[k] = f[1]
      PROVE  f \in visible' <=> k < at' \/ (k = at' /\ f[2] < i')
  <2>1. f[1] \in Family /\ f[2] \in Nat /\ f = <<f[1], f[2]>>
    BY Files, Counts
  <2>2. f \in visible <=> k < at \/ (k = at /\ f[2] < i)
    BY <1>1, <1>6, Lengths DEF TakenBefore
  <2>3. f = <<Here, i>> <=> k = at /\ f[2] = i
    BY <2>1, <1>1, <1>6, InitNames
  <2> QED BY <2>1, <2>2, <2>3, <1>1, <1>2
<1>7. TakenBefore'
  BY <1>1, <1>2, <1>6, Lengths DEF TakenBefore
<1> QED BY <1>1, <1>2, <1>4, <1>5, <1>7 DEF LInv

LEMMA CreatedLoads == LInv /\ Created => LInv'
<1> SUFFICES ASSUME LInv, Created PROVE LInv'
  OBVIOUS
<1>1. pc = "init" /\ Order = InitOrder /\ Here = InitOrder[at] /\ Here \in Family
      /\ at \in 1..15 /\ TakenBefore /\ j = 0 /\ phase = "code" /\ i \in Nat
      /\ i = Count[Here] /\ Here \notin Single
  BY Lengths, Apart DEF Created, Order, Here, LInv, TypeOK, Counters
<1>2. UNCHANGED <<j, phase, ret, held, visible, code, uses, late>>
  BY DEF Created, Advance
<1>3. CASE at < 15
  <2>0. pc' = "init" /\ at' = at + 1 /\ i' = IF InitOrder[at + 1] = "table" THEN i ELSE 0
    BY <1>1, <1>3, Lengths DEF Created, Advance
  <2>1. pc' = "init" /\ at' = at + 1 /\ Order' = InitOrder /\ Here' = InitOrder[at + 1]
        /\ i' = IF InitOrder[at + 1] = "table" THEN i ELSE 0
    BY <2>0 DEF Order, Here
  <2>2. TypeOK'
    BY <1>1, <1>2, <1>3, <2>1, Lengths DEF LInv, TypeOK
  <2>3. Here' = "table" => Here = "l1"
    <3>1. at + 1 \in 1..15
      BY <1>1, <1>3
    <3>2. Here' = "table" => at + 1 = 14
      BY <2>1, <3>1, InitPlaces
    <3> QED BY <1>1, <3>2, InitPlaces
  <2>4. Counters'
    BY <1>1, <1>2, <2>1, <2>3, Counts, Apart DEF Counters
  <2>5. ASSUME NEW k \in 1..15, InitOrder[k] \in Single
        PROVE  InitOrder[k] \in held' <=> k < at'
    BY <1>1, <1>2, <2>1, <2>5, InitNames, Lengths DEF TakenBefore
  <2>6. ASSUME NEW f \in File, NEW k \in 1..15, InitOrder[k] = f[1]
        PROVE  f \in visible' <=> k < at' \/ (k = at' /\ f[2] < i')
    <3>1. f[1] \in Family /\ f[2] \in 0..Count[f[1]]-1 /\ Count[f[1]] \in Nat
      BY Files, Counts
    <3>2. k = at' => ~(f[2] < i')
      BY <3>1, <2>1, <2>6, Apart, InitPlaces, InitNames
    <3>3. f \in visible <=> k < at \/ (k = at /\ f[2] < i)
      BY <1>1, <2>6, Lengths DEF TakenBefore
    <3> QED BY <3>1, <3>2, <3>3, <1>1, <1>2, <2>1, <2>6
  <2>7. TakenBefore'
    BY <2>5, <2>6, Lengths DEF TakenBefore
  <2> QED BY <2>1, <2>2, <2>4, <2>7 DEF LInv
<1>4. CASE at = 15
  <2>1. pc' = "loaded" /\ at' = 1 /\ i' = 0
    BY <1>1, <1>4, Lengths DEF Created, Advance
  <2>2. Order' = ExitOrder /\ Len(Order') = 13
    BY <2>1, Lengths DEF Order
  <2>3. TypeOK'
    BY <1>1, <1>2, <2>1, <2>2 DEF LInv, TypeOK
  <2>4. Counters'
    BY <1>1, <1>2, <2>1 DEF Counters
  <2>5. \A x \in Single : x \in held
    <3> TAKE x \in Single
    <3>1. PICK k \in 1..15 : InitOrder[k] = x
      BY InitNames
    <3> QED BY <3>1, <1>1, <1>4, Lengths DEF TakenBefore
  <2>6. \A f \in File : f \in visible
    <3> TAKE f \in File
    <3>1. f[1] \in Family /\ f[2] \in 0..Count[f[1]]-1 /\ Count[f[1]] \in Nat
      BY Files, Counts
    <3>2. PICK k \in 1..15 : InitOrder[k] = f[1]
      BY <3>1, InitNames
    <3> QED BY <3>1, <3>2, <1>1, <1>4, Lengths DEF TakenBefore
  <2>7. Everything'
    BY <1>2, <2>5, <2>6 DEF LInv, TypeOK, Everything
  <2> QED BY <2>1, <2>3, <2>4, <2>7 DEF LInv
<1> QED BY <1>1, <1>3, <1>4

\* A load refused InitOrder[m] falls to BeachOrder[n]: the names from there on, and
\* no others, stand before m in the order of init.
FallsTo(m, n) ==
  /\ \A k \in 1..14, l \in 1..15 : BeachOrder[k] = InitOrder[l] /\ BeachOrder[k] # "table" =>
       /\ k > n => l < m
       /\ k < n => l > m \/ (l = m /\ InitOrder[m] \notin Family)
       /\ k = n => l < m \/ (l = m /\ InitOrder[m] \in Family)
  /\ m = 15 => n = 1
  /\ BeachOrder[n] \in Family => InitOrder[m] = BeachOrder[n] \/ (m = 14 /\ BeachOrder[n] = "l1")

LEMMA Falls ==
  ASSUME NEW m \in 2..15, m # 6, NEW n \in 1..14, BeachOrder[n] = Beach(InitOrder[m])
  PROVE  FallsTo(m, n)
<1>1. m \in 2..8 \/ m \in 9..15
  OBVIOUS
<1>2. CASE m \in 2..8
  BY <1>2 DEF FallsTo, Beach, BeachOrder, InitOrder, Family
<1>3. CASE m \in 9..15
  BY <1>3 DEF FallsTo, Beach, BeachOrder, InitOrder, Family
<1> QED BY <1>1, <1>2, <1>3

LEMMA RefuseLoads == LInv /\ Refuse => LInv'
<1> SUFFICES ASSUME LInv, Refuse PROVE LInv'
  OBVIOUS
<1>1. pc = "init" /\ Order = InitOrder /\ Here = InitOrder[at]
      /\ at \in 1..15 /\ TakenBefore /\ i \in Nat /\ ret' \in {0, ENOMEM}
      /\ UNCHANGED <<i, held, visible, code, uses, late>>
  BY Lengths DEF Refuse, Order, Here, LInv, TypeOK, Counters
<1>2. CASE Here = "root"
  <2>1. pc' = "failed" /\ at' = 1 /\ j' = 0 /\ phase' = "code" /\ Order' = ExitOrder
    BY <1>2 DEF Refuse, Enter, Order
  <2>2. at = 1
    BY <1>1, <1>2, InitPlaces
  <2>3. held = {}
    <3>1. ASSUME NEW x \in Single PROVE x \notin held
      <4>1. PICK k \in 1..15 : InitOrder[k] = x
        BY InitNames
      <4> QED BY <4>1, <2>2, <1>1, Lengths DEF TakenBefore
    <3> QED BY <3>1 DEF LInv, TypeOK
  <2>4. visible = {}
    <3>1. ASSUME NEW f \in File PROVE f \notin visible
      <4>1. f[1] \in Family
        BY Files
      <4>2. PICK k \in 1..15 : InitOrder[k] = f[1]
        BY <4>1, InitNames
      <4>3. k # 1
        BY <4>1, <4>2, InitPlaces DEF Family
      <4> QED BY <4>2, <4>3, <2>2, <1>1, Lengths DEF TakenBefore
    <3> QED BY <3>1 DEF LInv, TypeOK
  <2>5. TypeOK'
    BY <1>1, <2>1, Lengths DEF LInv, TypeOK
  <2>6. Counters'
    BY <2>1 DEF Counters
  <2> QED BY <1>1, <2>1, <2>3, <2>4, <2>5, <2>6 DEF LInv, Nothing
<1>3. CASE Here # "root"
  <2>1. PICK n \in 1..14 : BeachOrder[n] = Beach(Here) /\ Enter("undo", n)
    BY <1>3, Lengths DEF Refuse
  <2>2. pc' = "undo" /\ at' = n /\ j' = 0 /\ phase' = "code"
        /\ Order' = BeachOrder /\ Here' = BeachOrder[n]
    BY <2>1 DEF Enter, Order, Here
  <2>3. at \in 2..15 /\ at # 6
    BY <1>1, <1>3 DEF Refuse, InitOrder
  <2>4. /\ \A k \in 1..14, l \in 1..15 : BeachOrder[k] = InitOrder[l] /\ BeachOrder[k] # "table" =>
              /\ k > n => l < at
              /\ k < n => l > at \/ (l = at /\ Here \notin Family)
              /\ k = n => l < at \/ (l = at /\ Here \in Family)
        /\ at = 15 => n = 1
        /\ BeachOrder[n] \in Family => Here = BeachOrder[n] \/ (at = 14 /\ BeachOrder[n] = "l1")
    <3>1. BeachOrder[n] = Beach(InitOrder[at])
      BY <1>1, <2>1, Zenon
    <3>2. FallsTo(at, n)
      BY <2>3, <3>1, Falls
    <3> QED BY <1>1, <3>2, Zenon DEF FallsTo
  <2>5. TypeOK'
    BY <1>1, <2>2, Lengths DEF LInv, TypeOK
  <2>6. Here' \in Family => i <= Count[Here']
    <3>1. CASE Here = BeachOrder[n]
      BY <1>1, <2>2, <3>1 DEF LInv, Counters
    <3>2. CASE at = 14 /\ BeachOrder[n] = "l1"
      BY <1>1, <2>2, <3>2, InitPlaces, Counts DEF LInv, Counters, Family
    <3> QED BY <2>2, <2>4, <3>1, <3>2
  <2>7. Counters'
    BY <1>1, <2>2, <2>6 DEF Counters
  <2>8. ASSUME NEW k \in 1..14, BeachOrder[k] \in Single \ {"table"}
        PROVE  BeachOrder[k] \in held <=> k >= n
    <3>1. PICK l \in 1..15 : InitOrder[l] = BeachOrder[k]
      BY <2>8, InitNames
    <3>2. BeachOrder[k] \in held <=> l < at
      BY <1>1, <2>8, <3>1, Lengths DEF TakenBefore
    <3>3. l = at => Here \notin Family
      BY <1>1, <3>1, <2>8, Apart
    <3> QED BY <2>3, <2>4, <2>8, <3>1, <3>2, <3>3
  <2>9. ASSUME NEW f \in File, NEW k \in 1..14, BeachOrder[k] = f[1]
        PROVE  f \in visible <=> k > n \/ (k = n /\ f[2] < i /\ f[2] >= 0)
    <3>1. f[1] \in Family /\ f[2] \in 0..Count[f[1]]-1 /\ Count[f[1]] \in Nat /\ f[1] # "table"
      BY Files, Counts DEF Family
    <3>2. PICK l \in 1..15 : InitOrder[l] = BeachOrder[k]
      BY <2>9, <3>1, InitNames
    <3>3. f \in visible <=> l < at \/ (l = at /\ f[2] < i)
      BY <1>1, <2>9, <3>2, Lengths DEF TakenBefore
    <3>4. l = at => Here \in Family /\ k >= n
      BY <1>1, <2>3, <2>4, <2>9, <3>1, <3>2
    <3>5. CASE k > n
      BY <2>4, <2>9, <3>1, <3>2, <3>3, <3>5
    <3>6. CASE k < n
      BY <2>3, <2>4, <2>9, <3>1, <3>2, <3>3, <3>4, <3>6
    <3>7. CASE k = n
      <4>1. CASE l = at
        BY <3>1, <3>3, <3>7, <4>1
      <4>2. CASE l < at
        <5>1. at = 14 /\ BeachOrder[n] = "l1"
          BY <1>1, <2>3, <2>4, <2>9, <3>1, <3>2, <3>7, <4>2, InitNames
        <5>2. i = Count["l1"]
          BY <1>1, <5>1, InitPlaces DEF LInv, Counters
        <5> QED BY <2>9, <3>1, <3>3, <3>7, <4>2, <5>1, <5>2
      <4> QED BY <2>3, <2>4, <2>9, <3>1, <3>2, <3>7, <4>1, <4>2
    <3> QED BY <3>5, <3>6, <3>7
  <2>10. KeptFrom(BeachOrder)'
    <3>1. BeachOrder' = BeachOrder
      BY DEF BeachOrder
    <3> QED BY <1>1, <2>2, <2>8, <2>9, <3>1, Lengths DEF KeptFrom
  <2>11. "table" \in held => at = 15
    BY <1>1, InitPlaces, Apart, Lengths DEF TakenBefore
  <2> QED BY <1>1, <2>2, <2>4, <2>5, <2>7, <2>10, <2>11 DEF LInv
<1> QED BY <1>2, <1>3
LEMMA UnloadLoads == LInv /\ Unload => LInv'
<1> SUFFICES ASSUME LInv, Unload PROVE LInv'
  OBVIOUS
<1>1. pc = "loaded" /\ pc' = "exit" /\ at' = 1 /\ j' = 0 /\ phase' = "code"
      /\ Order' = ExitOrder /\ Here' = "lists"
      /\ UNCHANGED <<i, ret, held, visible, code, uses, late>>
  BY DEF Unload, Enter, Order, Here, ExitOrder
<1>2. TypeOK'
  BY <1>1, Lengths DEF LInv, TypeOK
<1>3. Counters'
  BY <1>1 DEF Counters, Family
<1>4. CASE Nothing
  BY <1>1, <1>2, <1>3, <1>4 DEF LInv, Nothing
<1>5. CASE Everything
  <2>1. \A f \in File, k \in 1..13 : ExitOrder[k] = f[1] => k > 1
    BY Files DEF ExitOrder, Family
  <2>2. KeptFrom(ExitOrder)'
    <3>1. ExitOrder' = ExitOrder
      BY DEF ExitOrder
    <3> QED BY <1>1, <1>5, <2>1, <3>1, Lengths DEF KeptFrom, Everything
  <2> QED BY <1>1, <1>2, <1>3, <2>2 DEF LInv
<1> QED BY <1>1, <1>4, <1>5 DEF LInv

\* What Proceed makes of a position that has nothing left.
LEMMA ProceedLoads ==
  ASSUME LInv, pc \in {"undo", "exit"}, Proceed, phase = "code",
         held' = held \ {Here}, Here \in Family => j >= i,
         UNCHANGED <<ret, visible, code, uses, late>>
  PROVE  LInv'
<1>0. PICK o \in {BeachOrder, ExitOrder} : o = Order
  BY DEF Order
<1>1. (pc = "undo" /\ o = BeachOrder) \/ (pc = "exit" /\ o = ExitOrder)
  BY <1>0 DEF Order
<1>2. at \in 1..Len(o) /\ Len(o) \in Nat /\ i \in Nat /\ j \in Nat /\ Here = o[at] /\ visible \subseteq File
      /\ held \subseteq Single
  BY <1>0, Lengths DEF LInv, TypeOK, Order, Here
<1>3. KeptFrom(o) => /\ at < Len(o) /\ at' = at + 1 /\ j' = 0 /\ phase' = "code"
                           /\ (o[at'] \in Family => i' = Count[o[at']])
                        => KeptFrom(o)'
                     /\ at = Len(o) => held' \cap Single \subseteq {"table"} /\ visible' = {}
  BY <1>1, <1>2, Passed
<1>4. CASE at < Len(o)
  <2>1. pc' = pc /\ at' = at + 1 /\ j' = 0 /\ phase' = "code" /\ i' = Bound(o[at + 1])
    BY <1>0, <1>4 DEF Proceed, Enter
  <2>2. Order' = o /\ Here' = o[at + 1]
    BY <1>0, <2>1 DEF Order, Here
  <2>3. i' \in Nat /\ (Here' \in Family => i' = Count[Here'])
    BY <2>1, <2>2, <1>2, Counts DEF Bound
  <2>4. TypeOK'
    BY <1>2, <1>4, <2>1, <2>2, <2>3 DEF LInv, TypeOK
  <2>5. Counters'
    BY <1>2, <1>1, <2>1, <2>3, Counts DEF Counters
  <2>6. KeptFrom(o) => KeptFrom(o)'
    BY <1>3, <1>4, <2>1, <2>2, <2>3
  <2>7. "table" \in held' => "table" \in held /\ Here # "table"
    OBVIOUS
  <2>8. CASE pc = "undo"
    <3>1. at = 10 => Here = "table"
      BY <1>1, <1>2, <2>8 DEF BeachOrder
    <3>2. KeptFrom(BeachOrder)'
      BY <1>1, <2>2, <2>6, <2>8 DEF LInv
    <3> QED BY <1>2, <2>1, <2>4, <2>5, <2>7, <2>8, <3>1, <3>2 DEF LInv
  <2>9. CASE pc = "exit"
    <3>1. KeptFrom(ExitOrder)' \/ Nothing'
      BY <1>1, <2>2, <2>6, <2>9 DEF LInv, Nothing
    <3> QED BY <1>2, <2>1, <2>4, <2>5, <2>9, <3>1 DEF LInv
  <2> QED BY <2>8, <2>9
<1>5. CASE at = Len(o)
  <2>1. pc' = (IF pc = "exit" THEN "unloaded" ELSE IF ret = 0 THEN "loaded" ELSE "failed")
        /\ at' = 1 /\ j' = 0 /\ phase' = "code" /\ i' = i
    BY <1>0, <1>5 DEF Proceed, Enter
  <2>2. Order' = ExitOrder
    BY <2>1 DEF Order
  <2>3. TypeOK'
    BY <1>2, <2>1, <2>2, Lengths DEF LInv, TypeOK
  <2>4. Counters'
    BY <2>1 DEF Counters
  <2>5. CASE pc = "undo"
    <3>1. KeptFrom(o)
      BY <1>1, <2>5 DEF LInv
    <3>2. "table" \notin held
      <4>1. at = 14
        BY <1>1, <1>5, <2>5, Lengths
      <4>2. "table" \in held => at <= 10
        BY <2>5 DEF LInv
      <4> QED BY <4>1, <4>2
    <3>3. Nothing'
      BY <1>2, <1>3, <1>5, <3>1, <3>2 DEF Nothing
    <3> QED BY <2>1, <2>3, <2>4, <2>5, <3>3 DEF LInv
  <2>6. CASE pc = "exit"
    <3>1. held' \subseteq {"table"} /\ visible' = {}
      BY <1>1, <1>2, <1>3, <1>5, <2>6 DEF LInv, Nothing
    <3> QED BY <2>1, <2>3, <2>4, <2>6, <3>1 DEF LInv
  <2> QED BY <2>5, <2>6
<1> QED BY <1>2, <1>4, <1>5

\* A resource given back, and a loop that is over.
LEMMA ReleaseLoads == LInv /\ (Release \/ Destroyed) => LInv'
<1> SUFFICES ASSUME LInv, Release \/ Destroyed PROVE LInv'
  OBVIOUS
<1>1. CASE Release
  <2>1. Here \notin Family /\ phase = "code"
    BY <1>1, Apart DEF Release, LInv, Counters
  <2> QED BY <1>1, <2>1, ProceedLoads DEF Release
<1>2. CASE Destroyed
  <2>1. i \in Nat /\ j \in Nat /\ held \subseteq Single /\ Here \notin Single
    BY <1>2, Apart DEF Destroyed, Destroying, LInv, TypeOK
  <2>2. held' = held \ {Here} /\ j >= i
    BY <1>2, <2>1 DEF Destroyed, More
  <2> QED BY <1>2, <2>2, ProceedLoads DEF Destroyed, Destroying
<1> QED BY <1>1, <1>2

\* The three phases of the destruction of one file.
LEMMA DestroyLoads == LInv /\ (DropCode \/ Withdraw \/ Drain) => LInv'
<1> SUFFICES ASSUME LInv, DropCode \/ Withdraw \/ Drain PROVE LInv'
  OBVIOUS
<1>0. PICK o \in {BeachOrder, ExitOrder} : o = Order
  BY DEF Order, DropCode, Withdraw, Drain, Destroying
<1>1. (pc = "undo" /\ o = BeachOrder) \/ (pc = "exit" /\ o = ExitOrder)
  BY <1>0 DEF Order, DropCode, Withdraw, Drain, Destroying
<1>2. at \in 1..Len(o) /\ Len(o) \in Nat /\ i \in Nat /\ j \in Nat /\ Here = o[at] /\ Here \in Family
      /\ visible \subseteq File /\ UNCHANGED <<pc, at, i, ret, held, uses, late>>
      /\ Order' = Order /\ Here' = Here
  <2>1. at \in 1..Len(o) /\ Here = o[at]
    BY <1>0 DEF LInv, TypeOK, Here
  <2>2. Len(o) \in Nat
    BY <1>0, Lengths
  <2>3. i \in Nat /\ j \in Nat /\ visible \subseteq File
    BY DEF LInv, TypeOK
  <2>4. Here \in Family /\ UNCHANGED <<pc, at, i, ret, held, uses, late>>
    BY DEF DropCode, Withdraw, Drain, Destroying
  <2>5. Order' = Order /\ Here' = Here
    BY <2>4 DEF Order, Here
  <2> QED BY <2>1, <2>2, <2>3, <2>4, <2>5
<1>3. j < i
  BY DEF DropCode, Withdraw, Drain, LInv, Counters, More
<1>4. i <= Count[Here] /\ Count[Here] \in Nat
  BY <1>1, <1>2, Counts DEF LInv, Counters
<1>5. code' \subseteq code /\ visible' \subseteq visible /\ j' \in 0..i
      /\ phase' \in {"code", "put", "drain"} /\ (phase' # "code" => j' = j)
  BY <1>2, <1>3 DEF DropCode, Withdraw, Drain, FreeCode, Following, Doomed
<1>6. TypeOK'
  BY <1>2, <1>5 DEF LInv, TypeOK
<1>7. Counters'
  BY <1>1, <1>2, <1>3, <1>4, <1>5 DEF Counters
<1>8. ASSUME KeptFrom(o) PROVE KeptFrom(o)'
  <2>1. ASSUME NEW f \in File, NEW k \in 1..Len(o), o[k] = f[1]
        PROVE  f \in visible' <=>
                 \/ k > at
                 \/ k = at /\ f[2] < i /\ f[2] >= j' /\ (phase' = "drain" => f[2] # j')
    <3>1. f[1] \in Family /\ f[2] \in Nat /\ f = <<f[1], f[2]>>
      BY Files, Counts
    <3>2. f \in visible <=>
                 \/ k > at
                 \/ k = at /\ f[2] < i /\ f[2] >= j /\ (phase = "drain" => f[2] # j)
      BY <1>8, <2>1 DEF KeptFrom
    <3>3. f = Doomed <=> k = at /\ f[2] = j
      BY <2>1, <1>1, <1>2, <3>1, UndoNames DEF Doomed
    <3>4. CASE DropCode
      BY <1>2, <3>2, <3>4 DEF DropCode
    <3>5. CASE Withdraw
      BY <1>2, <3>1, <3>2, <3>3, <3>5 DEF Withdraw
    <3>6. CASE Drain
      BY <1>2, <3>1, <3>2, <3>6 DEF Drain, Following
    <3> QED BY <3>4, <3>5, <3>6
  <2>2. \A k \in 1..Len(o) : o[k] \in Single \ {"table"} => (o[k] \in held' <=> k >= at')
    BY <1>2, <1>8 DEF KeptFrom
  <2> QED BY <1>2, <2>1, <2>2 DEF KeptFrom
<1>9. CASE pc = "undo"
  BY <1>1, <1>2, <1>6, <1>7, <1>8, <1>9 DEF LInv
<1>10. CASE pc = "exit"
  <2>1. Nothing => Nothing'
    BY <1>2, <1>5 DEF Nothing
  <2> QED BY <1>1, <1>2, <1>6, <1>7, <1>8, <1>10, <2>1 DEF LInv
<1> QED BY <1>1, <1>9, <1>10

\* Clients change what files own, nothing that init or exit decides by.
LEMMA ClientLoads ==
  ASSUME LInv, NEW c \in Client, Generate(c) \/ Drop(c) \/ Close(c) \/ \E f \in File : Open(c, f)
  PROVE  LInv'
<1>1. UNCHANGED <<control, held, visible>>
  BY DEF Generate, Drop, Close, Open
<1>2. Order' = Order /\ Here' = Here
  BY <1>1 DEF Order, Here, control
<1>3. uses[c] # NoFile => uses[c] \in File
  BY DEF LInv, TypeOK
<1>4. code' \subseteq {f \in File : f[1] # "config"} /\ late' \subseteq File
      /\ uses' \in [Client -> File \cup {NoFile}]
  BY <1>3 DEF Generate, Drop, Close, Open, LInv, TypeOK
<1>5. TypeOK'
  BY <1>1, <1>2, <1>4 DEF LInv, TypeOK, control
<1> QED BY <1>1, <1>2, <1>5 DEF LInv, Counters, TakenBefore, KeptFrom, Everything, Nothing, control

LEMMA StepLoads == LInv /\ [Next]_vars => LInv'
<1> SUFFICES ASSUME LInv, [Next]_vars PROVE LInv'
  OBVIOUS
<1>1. CASE UNCHANGED vars
  <2>1. UNCHANGED <<control, held, visible, code, uses, late>>
    BY <1>1 DEF vars
  <2>2. Order' = Order /\ Here' = Here
    BY <2>1 DEF Order, Here, control
  <2> QED BY <2>1, <2>2 DEF LInv, TypeOK, Counters, TakenBefore, KeptFrom, Everything, Nothing, control
<1> QED
  BY <1>1, LoadLoads, TakeLoads, CreateLoads, CreatedLoads, RefuseLoads, UnloadLoads,
     ReleaseLoads, DestroyLoads, ClientLoads DEF Next, Module

-----------------------------------------------------------------------------
\* The variables keep their types: positions stay in their orders, and j does not
\* pass i.
THEOREM TypeCorrect == Spec => []TypeOK
<1>1. LInv => TypeOK
  BY DEF LInv
<1> QED BY InitLoads, StepLoads, <1>1, PTL DEF Spec

\* For any numbers of sets and options, whatever is refused and whenever: a load
\* keeps everything or nothing, and an unload leaves nothing but config_objs.
THEOREM LoadKeepsAllOrNothing == Spec => []AllOrNothing
<1>1. LInv => AllOrNothing
  BY DEF LInv, AllOrNothing, Nothing
<1> QED BY InitLoads, StepLoads, <1>1, PTL DEF Spec

\* Every label releases what is held, and every loop destroys files that exist, but
\* for the unload of a module whose failed load returned 0.
THEOREM ReleasesCorrect == Spec => []ReleasedOnce
<1>1. LInv => ReleasedOnce
  <2> SUFFICES ASSUME LInv, pc = "undo" \/ (pc = "exit" /\ "root" \in held)
               PROVE  /\ Here \in Single => Here \in held \/ (Here = "table" /\ pc = "undo")
                      /\ Destroying /\ j < i /\ phase # "drain" => Doomed \in visible
    BY DEF ReleasedOnce
  <2>1. PICK o \in {BeachOrder, ExitOrder} : o = Order /\ KeptFrom(o)
    BY DEF Order, LInv, Nothing
  <2>2. at \in 1..Len(o) /\ Len(o) \in Nat /\ i \in Nat /\ j \in Nat /\ Here = o[at]
    BY <2>1, Lengths DEF LInv, TypeOK, Here
  <2>3. Here = "table" => pc = "undo"
    BY <2>1, <2>2, Lengths DEF Order, ExitOrder
  <2>4. Here \in Single => Here \in held \/ (Here = "table" /\ pc = "undo")
    BY <2>1, <2>2, <2>3 DEF KeptFrom
  <2>5. ASSUME Destroying, j < i, phase # "drain" PROVE Doomed \in visible
    <3>1. Here \in Family /\ Count[Here] \in Nat /\ i <= Count[Here]
      BY <2>5, Counts DEF Destroying, LInv, Counters
    <3>2. Doomed \in File
      BY <3>1, <2>2, <2>5, Files DEF Doomed
    <3>3. Doomed[1] = o[at] /\ Doomed[2] = j
      BY <2>2 DEF Doomed
    <3> QED BY <2>1, <2>2, <2>5, <3>2, <3>3 DEF KeptFrom
  <2> QED BY <2>4, <2>5
<1> QED BY InitLoads, StepLoads, <1>1, PTL DEF Spec

\* An exit that has nothing to give back, as its load failed, meets no client.
EInv == pc = "exit" /\ "root" \notin held => \A c \in Client : uses[c] = NoFile

\* While there are files, or an exit that has something to give back, there is root.
LEMMA NoRootNoFile ==
  ASSUME LInv, pc = "exit", "root" \notin held
  PROVE  visible = {}
<1>1. at \in 1..13
  BY Lengths DEF LInv, TypeOK, Order
<1>2. ExitOrder[13] = "root" /\ "root" \in Single \ {"table"}
  BY DEF ExitOrder, Single
<1>3. ~ KeptFrom(ExitOrder)
  BY <1>1, <1>2, Lengths DEF KeptFrom
<1> QED BY <1>3 DEF LInv, Nothing

LEMMA StepEmpty == LInv /\ OInv /\ EInv /\ [Next]_vars => EInv'
<1> SUFFICES ASSUME LInv, OInv, EInv, [Next]_vars, pc' = "exit", "root" \notin held'
             PROVE  \A c \in Client : uses'[c] = NoFile
  BY DEF EInv
<1>1. CASE UNCHANGED vars
  BY <1>1 DEF vars, control, EInv
<1>2. CASE Unload
  <2>1. pc = "loaded" /\ UNCHANGED <<held, visible, uses>>
    BY <1>2 DEF Unload
  <2>2. visible = {} /\ phase = "code"
    BY <2>1 DEF LInv, Counters, Everything, Nothing, Single
  <2> QED BY <2>1, <2>2 DEF OInv
<1>3. CASE Load \/ Take \/ Create \/ Created \/ Refuse
  BY <1>3 DEF Load, Take, Create, Created, Refuse, Advance, Enter
<1>4. CASE Release \/ Destroyed
  <2>1. UNCHANGED uses /\ pc = "exit" /\ at \in 1..13 /\ at < 13
    <3>1. UNCHANGED uses /\ (pc = "undo" \/ pc = "exit") /\ Proceed
      BY <1>4 DEF Release, Destroyed, Destroying
    <3>2. at < Len(Order) /\ pc' = pc
      BY <3>1 DEF Proceed, Enter
    <3> QED BY <3>1, <3>2, Lengths DEF Order, LInv, TypeOK
  <2>2. "root" \notin held
    <3>1. ExitOrder[at] # "root"
      BY <2>1 DEF ExitOrder
    <3> QED BY <1>4, <2>1, <3>1 DEF Release, Destroyed, Here, Order
  <2> QED BY <2>1, <2>2 DEF EInv
<1>5. CASE DropCode \/ Withdraw \/ Drain
  BY <1>5 DEF DropCode, Withdraw, Drain, EInv
<1>6. ASSUME NEW c \in Client, Generate(c) \/ Drop(c) \/ Close(c) \/ \E f \in File : Open(c, f)
      PROVE  \A d \in Client : uses'[d] = NoFile
  <2>1. pc = "exit" /\ UNCHANGED held
    BY <1>6 DEF Generate, Drop, Close, Open, control
  <2>2. visible = {} /\ \A d \in Client : uses[d] = NoFile
    BY <2>1, NoRootNoFile DEF EInv
  <2> QED BY <1>6, <2>2 DEF Generate, Drop, Close, Open
<1> QED BY <1>1, <1>2, <1>3, <1>4, <1>5, <1>6 DEF Next, Module

\* At any moment, of a load, of its undoing, of use and of an exit, what a client in a
\* file of a cache set lacks of pools and eviction sets is what exit has freed so far,
\* and when the module is unloaded nobody is in a file.
THEOREM PoolsCorrect == Spec => []OnlyExitTakesPools
<1>1. LInv /\ OInv /\ EInv => OnlyExitTakesPools
  <2> SUFFICES ASSUME LInv, OInv, EInv, NEW c \in Client, uses[c] # NoFile, uses[c][1] # "config",
                      NEW x \in Needed
               PROVE  x \notin held <=> x \in FreedByExit
    BY DEF OnlyExitTakesPools
  <2> DEFINE f == uses[c]
  <2>1. x \in Single /\ x # "table"
    BY DEF Single, Needed
  <2>2. f \in File /\ f[1] \in Family /\ f[1] # "config" /\ f[2] \in Nat
    BY Files, Counts DEF LInv, TypeOK
  <2>3. f \in visible \/ (phase = "drain" /\ f = Doomed)
    BY DEF OInv
  <2>4. CASE pc \in {"absent", "failed", "unloaded", "loaded"}
    BY <2>1, <2>3, <2>4 DEF LInv, Counters, Nothing, Everything, FreedByExit
  <2>5. CASE pc = "init"
    <3>1. at \in 1..15 /\ TakenBefore /\ phase = "code"
      BY <2>5, Lengths DEF LInv, TypeOK, Counters, Order
    <3>2. PICK k \in 1..15 : InitOrder[k] = f[1]
      BY <2>2, InitNames
    <3>3. k <= at
      BY <2>2, <2>3, <3>1, <3>2, Lengths DEF TakenBefore
    <3>4. PICK l \in 1..15 : InitOrder[l] = x
      BY <2>1, InitNames
    <3>5. l < k
      BY <2>2, <3>2, <3>4 DEF InitOrder, Family, Needed
    <3>6. x \in held
      BY <2>1, <3>1, <3>3, <3>4, <3>5, Lengths DEF TakenBefore
    <3> QED BY <2>5, <3>6 DEF FreedByExit
  <2>6. CASE pc = "undo"
    <3>0. /\ \A k, l \in 1..14 : BeachOrder[k] = BeachOrder[l] => k = l
          /\ \A y \in (Single \ {"table"}) \cup Family : \E k \in 1..14 : BeachOrder[k] = y
      BY DEF BeachOrder, Single, Family
    <3>1. at \in 1..14 /\ KeptFrom(BeachOrder) /\ Here = BeachOrder[at]
      BY <2>6, Lengths DEF LInv, TypeOK, Order, Here
    <3>2. PICK k \in 1..14 : BeachOrder[k] = f[1]
      BY <2>2, <3>0
    <3>3. k >= at
      <4>1. CASE f \in visible
        BY <2>2, <3>1, <3>2, <4>1, Lengths DEF KeptFrom
      <4>2. CASE f = Doomed
        BY <3>0, <3>1, <3>2, <4>2 DEF Doomed
      <4> QED BY <2>3, <4>1, <4>2
    <3>4. PICK l \in 1..14 : BeachOrder[l] = x
      BY <2>1, <3>0
    <3>5. l > k
      BY <2>2, <3>2, <3>4 DEF BeachOrder, Family, Needed
    <3>6. x \in held
      BY <2>1, <3>1, <3>3, <3>4, <3>5, Lengths DEF KeptFrom
    <3> QED BY <2>6, <3>6 DEF FreedByExit
  <2>7. CASE pc = "exit"
    <3>1. "root" \in held
      BY <2>7 DEF EInv
    <3>2. at \in 1..13 /\ KeptFrom(ExitOrder)
      BY <2>7, <3>1, Lengths DEF LInv, TypeOK, Order, Nothing
    <3>3. /\ \A k, l \in 1..13 : ExitOrder[k] = ExitOrder[l] => k = l
          /\ \E l \in 1..13 : ExitOrder[l] = x
      BY DEF ExitOrder, Needed
    <3>4. PICK l \in 1..13 : ExitOrder[l] = x
      BY <3>3
    <3>5. x \in held <=> l >= at
      BY <2>1, <3>2, <3>4, Lengths DEF KeptFrom
    <3>6. x \in FreedByExit <=> l < at
      <4>1. x \in FreedByExit <=> \E k \in 1..at-1 : ExitOrder[k] = x
        BY <2>7 DEF FreedByExit
      <4> QED BY <3>2, <3>3, <3>4, <4>1
    <3> QED BY <3>2, <3>4, <3>5, <3>6
  <2> QED BY <2>4, <2>5, <2>6, <2>7 DEF LInv, TypeOK
<1>2. Init => EInv
  BY DEF Init, EInv
<1> QED BY InitLoads, StepLoads, InitOrphans, StepOrphans, StepEmpty, <1>1, <1>2, PTL DEF Spec
=============================================================================
