--------------------------- MODULE SessionProofs ----------------------------
(***************************************************************************)
(* Proofs about Session: the noise of the machine is restored, and the log *)
(* of a shell is true.                                                     *)
(***************************************************************************)
EXTENDS Session, SequenceTheorems, TLAPS

\* The option a setting belongs to, and the settings the ini file has changed.
OptionOf(p) == IF p \in {"min", "max", "governor"} THEN "freq" ELSE p
Owned == {p \in Part : OptionOf(p) \in ini}

\* What is left of a group of commands: of a setting, or of the processors.
PartGroup == Seq(Owned) \ {<<>>}
Group == IF "ht" \in ini THEN PartGroup \cup {<<"ht">>} ELSE PartGroup
Left(t) ==
  {p \in Part \cup {"ht"} : \E k \in DOMAIN t : \E j \in DOMAIN t[k] : t[k][j] = p}

Busy == {"quiet", "restore"}
Talking == {"prompt", "line", "post"}

NoiseType ==
  /\ ini \in SUBSET Option
  /\ online \in SUBSET Cpu /\ Boot \in online
  /\ changed \in [Part -> SUBSET Cpu]
  /\ spoilt \in BOOLEAN /\ mode \in Mode
  /\ pc \in {"out", "check", "command", "open"} \cup Busy \cup Talking
  /\ ended \in {"not yet", "main", "early"}

\* The processors are the first to be dealt with on the way in, the last on the
\* way out.
Orders ==
  /\ todo \in Seq(Group)
  /\ pc \notin Busy => todo = <<>>
  /\ pc = "quiet" => \A k \in DOMAIN todo : k > 1 => todo[k] \in PartGroup
  /\ pc = "restore" => \A k \in DOMAIN todo : k < Len(todo) => todo[k] \in PartGroup

\* All processors are online, or the one that stays.
Offline ==
  /\ online \in {Cpu, {Boot}}
  /\ online # Cpu => "ht" \in ini

\* A setting is changed where its restoring will reach.
Own ==
  \A p \in Part : changed[p] # {} =>
    /\ p \in Owned /\ changed[p] \subseteq online
    /\ "ht" \in ini => online = {Boot}

\* The settings are not changed before the processors are offline.
First ==
  pc = "quiet" /\ "ht" \in ini =>
    online = {Boot} \/ (todo # <<>> /\ todo[1] = <<"ht">>)

\* What is not yet normal is still to be restored.
Remains ==
  pc = "restore" =>
    /\ \A p \in Part : changed[p] # {} => p \in Left(todo)
    /\ online # Cpu => "ht" \in Left(todo)

Unspoilt == Offline /\ Own /\ First /\ Remains /\ (ended = "main" => Normal)
NInv ==
  /\ NoiseType /\ Orders /\ (ended = "main" => pc = "out")
  /\ ~spoilt => Unspoilt

-----------------------------------------------------------------------------
\* What is left of a sequence without its first element.
LEMMA Rest ==
  ASSUME NEW S, NEW t \in Seq(S), t # <<>>
  PROVE  /\ Len(t) \in Nat /\ Len(t) > 0 /\ DOMAIN t = 1..Len(t) /\ t[1] \in S
         /\ Tail(t) \in Seq(S) /\ Len(Tail(t)) = Len(t) - 1
         /\ DOMAIN Tail(t) = 1..(Len(t) - 1)
         /\ \A k \in 1..(Len(t) - 1) : Tail(t)[k] = t[k + 1]
<1>1. Len(t) \in Nat /\ DOMAIN t = 1..Len(t) /\ t \in [1..Len(t) -> S]
  BY LenProperties, Zenon
<1>2. Len(t) > 0
  BY <1>1, EmptySeq, SMT
<1>3. Tail(t) \in Seq(S) /\ Len(Tail(t)) = Len(t) - 1
  BY <1>1, <1>2, HeadTailProperties, SMT
<1>4. \A k \in 1..(Len(t) - 1) : Tail(t)[k] = t[k + 1]
  BY <1>1, <1>2, <1>3, HeadTailProperties, SMT
<1>5. DOMAIN Tail(t) = 1..(Len(t) - 1)
  BY <1>3, LenProperties, SMT
<1> QED
  BY <1>1, <1>2, <1>3, <1>4, <1>5

\* A sequence with another first element.
LEMMA Replaced ==
  ASSUME NEW S, NEW t \in Seq(S), t # <<>>, NEW h \in S, NEW u, u = <<h>> \o Tail(t)
  PROVE  /\ u \in Seq(S) /\ Len(u) = Len(t) /\ DOMAIN u = 1..Len(t) /\ u # <<>>
         /\ u[1] = h /\ \A k \in 2..Len(t) : u[k] = t[k]
<1>1. <<h>> \in Seq(S) /\ Len(<<h>>) = 1 /\ <<h>>[1] = h
  OBVIOUS
<1>2. /\ Len(t) \in Nat /\ Len(t) > 0 /\ Tail(t) \in Seq(S) /\ Len(Tail(t)) = Len(t) - 1
      /\ \A k \in 1..(Len(t) - 1) : Tail(t)[k] = t[k + 1]
  BY Rest
<1>3. /\ u \in Seq(S) /\ Len(u) = Len(t)
      /\ \A k \in 1..Len(t) : u[k] = IF k <= 1 THEN <<h>>[k] ELSE Tail(t)[k - 1]
  BY <1>1, <1>2, ConcatProperties, SMT
<1>4. DOMAIN u = 1..Len(t) /\ u # <<>>
  BY <1>2, <1>3, LenProperties, EmptySeq, SMT
<1>5. u[1] = h /\ \A k \in 2..Len(t) : u[k] = t[k]
  BY <1>1, <1>2, <1>3, SMT
<1> QED
  BY <1>3, <1>4, <1>5

\* It does not matter which two of three sequences are put together first.
EitherWay(s, t, u) == (s \o t) \o u = s \o (t \o u)

LEMMA Associated ==
  ASSUME NEW S, NEW s \in Seq(S), NEW t \in Seq(S), NEW u \in Seq(S)
  PROVE  EitherWay(s, t, u)
BY ConcatAssociative DEF EitherWay

\* The groups of one sequence and of another.
LEMMA Joined ==
  ASSUME NEW S, NEW s \in Seq(S), NEW t \in Seq(S)
  PROVE  /\ s \o t \in Seq(S) /\ Len(s \o t) = Len(s) + Len(t)
         /\ DOMAIN (s \o t) = 1..(Len(s) + Len(t))
         /\ \A k \in DOMAIN s : k \in DOMAIN (s \o t) /\ (s \o t)[k] = s[k]
         /\ \A k \in DOMAIN t : Len(s) + k \in DOMAIN (s \o t) /\ (s \o t)[Len(s) + k] = t[k]
<1>1. Len(s) \in Nat /\ DOMAIN s = 1..Len(s) /\ Len(t) \in Nat /\ DOMAIN t = 1..Len(t)
  BY LenProperties, Zenon
<1>2. /\ s \o t \in Seq(S) /\ Len(s \o t) = Len(s) + Len(t)
      /\ \A k \in 1..(Len(s) + Len(t)) :
           (s \o t)[k] = IF k <= Len(s) THEN s[k] ELSE t[k - Len(s)]
  BY ConcatProperties, Zenon
<1>3. DOMAIN (s \o t) = 1..(Len(s) + Len(t))
  BY <1>2, LenProperties, Zenon
<1>4. ASSUME NEW k \in DOMAIN t
      PROVE  Len(s) + k \in DOMAIN (s \o t) /\ (s \o t)[Len(s) + k] = t[k]
  <2>1. k \in Nat /\ Len(s) + k \in 1..(Len(s) + Len(t)) /\ ~(Len(s) + k <= Len(s))
        /\ (Len(s) + k) - Len(s) = k
    BY <1>1, SMT
  <2> QED
    BY <2>1, <1>2, <1>3, Zenon
<1>5. ASSUME NEW k \in DOMAIN s
      PROVE  k \in DOMAIN (s \o t) /\ (s \o t)[k] = s[k]
  <2>1. k \in Nat /\ k \in 1..(Len(s) + Len(t)) /\ k <= Len(s)
    BY <1>1, SMT
  <2> QED
    BY <2>1, <1>2, <1>3, Zenon
<1> QED
  BY <1>2, <1>3, <1>4, <1>5, Zenon

LEMMA LeftJoined ==
  ASSUME NEW S, NEW s \in Seq(S), NEW t \in Seq(S)
  PROVE  Left(s) \cup Left(t) \subseteq Left(s \o t)
<1>1. ASSUME NEW p \in Left(s)
      PROVE  p \in Left(s \o t)
  <2>1. PICK k \in DOMAIN s : \E j \in DOMAIN s[k] : s[k][j] = p
    BY Zenon DEF Left
  <2>2. k \in DOMAIN (s \o t) /\ (s \o t)[k] = s[k]
    BY Joined, Zenon
  <2> QED
    BY <2>1, <2>2, Zenon DEF Left
<1>2. ASSUME NEW p \in Left(t)
      PROVE  p \in Left(s \o t)
  <2>1. PICK k \in DOMAIN t : \E j \in DOMAIN t[k] : t[k][j] = p
    BY Zenon DEF Left
  <2>2. \A i \in DOMAIN t : Len(s) + i \in DOMAIN (s \o t) /\ (s \o t)[Len(s) + i] = t[i]
    BY Joined, SMT
  <2>3. Len(s) + k \in DOMAIN (s \o t) /\ (s \o t)[Len(s) + k] = t[k]
    BY <2>1, <2>2, Zenon
  <2> QED
    BY <2>1, <2>3, Zenon DEF Left
<1> QED
  BY <1>1, <1>2

-----------------------------------------------------------------------------
\* The groups of the options, by the settings of an option.
LEMMA AskedParts ==
  ASSUME NoiseType, NEW o \in Option, o # "ht"
  PROVE  /\ Asked(o) \in Seq(PartGroup)
         /\ \A p \in Owned : OptionOf(p) = o => p \in Left(Asked(o))
<1>1. CASE o \notin ini
  <2>1. Asked(o) = <<>>
    BY <1>1 DEF Asked
  <2>2. \A p \in Owned : OptionOf(p) # o
    BY <1>1 DEF Owned
  <2> QED
    BY <2>1, <2>2, EmptySeq, Zenon
<1>2. CASE o \in ini /\ o = "freq"
  <2>1. Asked(o) = << <<"min", "max", "governor">> >>
    BY <1>2 DEF Asked, Of
  <2>2. {"min", "max", "governor"} \subseteq Owned
    BY <1>2 DEF Owned, Part, OptionOf
  <2>3. <<"min", "max", "governor">> \in PartGroup
    BY <2>2 DEF PartGroup
  <2>4. \A p \in Owned : OptionOf(p) = o => p \in {"min", "max", "governor"}
    BY <1>2 DEF Owned, Part, OptionOf
  <2>5. {"min", "max", "governor"} \subseteq Left(Asked(o))
    BY <2>1 DEF Left, Part
  <2> QED
    BY <2>1, <2>3, <2>4, <2>5
<1>3. CASE o \in ini /\ o # "freq"
  <2>1. Asked(o) = << <<o>> >>
    BY <1>3 DEF Asked, Of
  <2>2. o \in Owned /\ o \in Part
    BY <1>3 DEF Owned, Part, OptionOf, Option
  <2>3. <<o>> \in PartGroup
    BY <2>2 DEF PartGroup
  <2>4. \A p \in Owned : OptionOf(p) = o => p = o
    BY <1>3 DEF Owned, Part, OptionOf
  <2>5. o \in Left(Asked(o))
    BY <2>1, <2>2 DEF Left
  <2> QED
    BY <2>1, <2>3, <2>4, <2>5
<1> QED
  BY <1>1, <1>2, <1>3

\* The groups of the processors.
LEMMA AskedProcessors ==
  ASSUME NoiseType
  PROVE  /\ "ht" \in ini => Asked("ht") = << <<"ht">> >> /\ "ht" \in Left(Asked("ht"))
         /\ "ht" \notin ini => Asked("ht") = <<>>
         /\ Asked("ht") \in Seq(Group) /\ PartGroup \subseteq Group
<1>1. "ht" \in ini => Asked("ht") = << <<"ht">> >>
  BY DEF Asked, Of
<1>2. "ht" \notin ini => Asked("ht") = <<>>
  BY DEF Asked
<1>3. PartGroup \subseteq Group
  BY Zenon DEF Group
<1>4. Asked("ht") \in Seq(Group)
  <2>1. "ht" \in ini => <<"ht">> \in Group
    BY DEF Group
  <2>2. CASE "ht" \in ini
    <3>1. ASSUME NEW S, NEW g \in S
          PROVE  <<g>> \in Seq(S)
      OBVIOUS
    <3> QED
      BY <2>2, <1>1, <2>1, <3>1, Zenon
  <2>3. CASE "ht" \notin ini
    BY <2>3, <1>2, EmptySeq
  <2> QED
    BY <2>2, <2>3
<1>5. "ht" \in ini => "ht" \in Left(Asked("ht"))
  BY <1>1 DEF Left
<1> QED
  BY <1>1, <1>2, <1>3, <1>4, <1>5

\* The groups of settings: they are those of all options but of the processors.
Settings == Asked("prefetch") \o (Asked("turbo") \o Asked("freq"))
LEMMA AskedSettings ==
  ASSUME NoiseType
  PROVE  Settings \in Seq(PartGroup) /\ Owned \subseteq Left(Settings)
<1>1. /\ Asked("prefetch") \in Seq(PartGroup) /\ Asked("turbo") \in Seq(PartGroup)
      /\ Asked("freq") \in Seq(PartGroup)
  BY AskedParts DEF Option
<1>2. /\ Asked("turbo") \o Asked("freq") \in Seq(PartGroup)
      /\ Left(Asked("turbo")) \cup Left(Asked("freq")) \subseteq Left(Asked("turbo") \o Asked("freq"))
  BY <1>1, Joined, LeftJoined, Zenon
<1>3. /\ Settings \in Seq(PartGroup)
      /\ Left(Asked("prefetch")) \cup Left(Asked("turbo") \o Asked("freq")) \subseteq Left(Settings)
  BY <1>1, <1>2, Joined, LeftJoined, Zenon DEF Settings
<1>4. ASSUME NEW p \in Owned
      PROVE  p \in Left(Asked("prefetch")) \/ p \in Left(Asked("turbo")) \/ p \in Left(Asked("freq"))
  <2>1. OptionOf(p) \in {"prefetch", "turbo", "freq"}
    BY DEF Owned, Part, OptionOf
  <2>2. OptionOf(p) \in Option /\ OptionOf(p) # "ht"
    BY <2>1 DEF Option
  <2> QED
    BY <2>1, <2>2, AskedParts, Zenon
<1> QED
  BY <1>2, <1>3, <1>4

\* The processors first, the settings first.
LEMMA Regrouped ==
  ASSUME NoiseType
  PROVE  Quieting = Asked("ht") \o Settings /\ Restoring = Settings \o Asked("ht")
<1>1. /\ Asked("prefetch") \in Seq(PartGroup) /\ Asked("turbo") \in Seq(PartGroup)
      /\ Asked("freq") \in Seq(PartGroup)
  BY AskedParts DEF Option
<1>2. /\ Asked("prefetch") \in Seq(Group) /\ Asked("turbo") \in Seq(Group)
      /\ Asked("freq") \in Seq(Group) /\ Asked("ht") \in Seq(Group)
  BY <1>1, AskedProcessors
<1>3. /\ ((Asked("ht") \o Asked("prefetch")) \o Asked("turbo")) \o Asked("freq")
           = Asked("ht") \o (Asked("prefetch") \o (Asked("turbo") \o Asked("freq")))
      /\ ((Asked("prefetch") \o Asked("turbo")) \o Asked("freq")) \o Asked("ht")
           = (Asked("prefetch") \o (Asked("turbo") \o Asked("freq"))) \o Asked("ht")
  <2>1. PICK S : S = Group
    OBVIOUS
  <2>2. PICK h \in Seq(S) : h = Asked("ht")
    BY <1>2, <2>1, Zenon
  <2>3. PICK a \in Seq(S) : a = Asked("prefetch")
    BY <1>2, <2>1, Zenon
  <2>4. PICK b \in Seq(S) : b = Asked("turbo")
    BY <1>2, <2>1, Zenon
  <2>5. PICK c \in Seq(S) : c = Asked("freq")
    BY <1>2, <2>1, Zenon
  <2>6. /\ ((h \o a) \o b) \o c = h \o (a \o (b \o c))
        /\ ((a \o b) \o c) \o h = (a \o (b \o c)) \o h
    <3>1. b \o c \in Seq(S) /\ h \o a \in Seq(S) /\ a \o b \in Seq(S)
      BY Joined, Zenon
    <3>2. EitherWay(h \o a, b, c) /\ EitherWay(h, a, b \o c) /\ EitherWay(a, b, c)
      BY <3>1, Associated, Zenon
    <3> QED
      BY <3>2, Zenon DEF EitherWay
  <2> QED
    BY <2>2, <2>3, <2>4, <2>5, <2>6, Zenon
<1> QED
  BY <1>3, Zenon DEF Quieting, Restoring, Settings

-----------------------------------------------------------------------------
\* What the two lists of groups begin with.
LEMMA Quietened ==
  ASSUME NoiseType
  PROVE  /\ Quieting \in Seq(Group)
         /\ \A k \in DOMAIN Quieting : k > 1 => Quieting[k] \in PartGroup
         /\ "ht" \in ini => Quieting # <<>> /\ Quieting[1] = <<"ht">>
<1>1. PICK h : h = Asked("ht")
  OBVIOUS
<1>2. PICK r : r = Settings
  OBVIOUS
<1>3. PICK S, G : S = PartGroup /\ G = Group
  OBVIOUS
<1>4. /\ Quieting = h \o r /\ h \in Seq(G) /\ r \in Seq(S) /\ S \subseteq G
      /\ "ht" \in ini => h = << <<"ht">> >>
      /\ "ht" \notin ini => h = <<>>
  BY <1>1, <1>2, <1>3, AskedProcessors, AskedSettings, Regrouped, Zenon
<1>5. r \in Seq(G)
  BY <1>4
<1>6. /\ h \o r \in Seq(G) /\ Len(h \o r) = Len(h) + Len(r)
      /\ DOMAIN (h \o r) = 1..(Len(h) + Len(r))
      /\ \A k \in DOMAIN h : k \in DOMAIN (h \o r) /\ (h \o r)[k] = h[k]
  BY <1>4, <1>5, Joined, SMT
<1>7. \A k \in 1..(Len(h) + Len(r)) : (h \o r)[k] = IF k <= Len(h) THEN h[k] ELSE r[k - Len(h)]
  BY <1>4, <1>5, ConcatProperties, SMT
<1>8. Len(r) \in Nat /\ DOMAIN r = 1..Len(r) /\ r \in [1..Len(r) -> S]
  BY <1>4, LenProperties, Zenon
<1>9. Len(h) \in Nat /\ Len(h) <= 1
  BY <1>4, EmptySeq
<1>10. ASSUME NEW k \in 1..(Len(h) + Len(r)), k > 1
       PROVE  (h \o r)[k] \in S
  <2>1. k - Len(h) \in 1..Len(r) /\ ~(k <= Len(h))
    BY <1>8, <1>9, <1>10
  <2> QED
    BY <2>1, <1>7, <1>8
<1>11. "ht" \in ini => h \o r # <<>> /\ (h \o r)[1] = <<"ht">>
  <2>1. "ht" \in ini => 1 \in DOMAIN h /\ h[1] = <<"ht">>
    BY <1>4
  <2>2. \A t : 1 \in DOMAIN t => t # <<>>
    OBVIOUS
  <2> QED
    BY <2>1, <2>2, <1>6, Zenon
<1> QED
  BY <1>3, <1>4, <1>6, <1>10, <1>11

LEMMA RestoringAll ==
  ASSUME NoiseType
  PROVE  /\ Restoring \in Seq(Group)
         /\ \A k \in DOMAIN Restoring : k < Len(Restoring) => Restoring[k] \in PartGroup
         /\ Owned \subseteq Left(Restoring)
         /\ "ht" \in ini => "ht" \in Left(Restoring)
<1>1. PICK h : h = Asked("ht")
  OBVIOUS
<1>2. PICK r : r = Settings
  OBVIOUS
<1>3. PICK S, G : S = PartGroup /\ G = Group
  OBVIOUS
<1>4. /\ Restoring = r \o h /\ h \in Seq(G) /\ r \in Seq(S) /\ S \subseteq G
      /\ "ht" \in ini => h = << <<"ht">> >> /\ "ht" \in Left(h)
      /\ "ht" \notin ini => h = <<>>
      /\ Owned \subseteq Left(r)
  BY <1>1, <1>2, <1>3, AskedProcessors, AskedSettings, Regrouped, Zenon
<1>5. r \in Seq(G)
  BY <1>4
<1>6. /\ r \o h \in Seq(G) /\ Len(r \o h) = Len(r) + Len(h)
      /\ DOMAIN (r \o h) = 1..(Len(r) + Len(h))
      /\ \A k \in DOMAIN r : k \in DOMAIN (r \o h) /\ (r \o h)[k] = r[k]
  BY <1>4, <1>5, Joined, SMT
<1>7. Left(r) \cup Left(h) \subseteq Left(r \o h)
  BY <1>4, <1>5, LeftJoined, Zenon
<1>8. Len(r) \in Nat /\ DOMAIN r = 1..Len(r) /\ r \in [1..Len(r) -> S]
  BY <1>4, LenProperties, Zenon
<1>9. Len(h) \in Nat /\ Len(h) <= 1
  BY <1>4, EmptySeq
<1>10. ASSUME NEW k \in 1..(Len(r) + Len(h)), k < Len(r \o h)
       PROVE  (r \o h)[k] \in S
  <2>1. k \in DOMAIN r
    BY <1>6, <1>8, <1>9, <1>10
  <2> QED
    BY <2>1, <1>6, <1>8
<1> QED
  BY <1>3, <1>4, <1>6, <1>7, <1>10

\* A group begins with a command of its own kind, and is then shorter.
LEMMA GroupShape ==
  ASSUME NoiseType, NEW g \in Group
  PROVE  /\ g[1] \in Owned \cup {"ht"} /\ 1 \in DOMAIN g /\ Len(g) \in Nat
         /\ \A j \in DOMAIN g : j = 1 \/ (Len(g) > 1 /\ \E i \in DOMAIN Tail(g) : Tail(g)[i] = g[j])
         /\ g \in PartGroup => g[1] \in Owned
         /\ g[1] = "ht" => g = <<"ht">> /\ "ht" \in ini /\ DOMAIN g = {1}
         /\ g[1] # "ht" => g \in PartGroup
         /\ Len(g) > 1 => Tail(g) \in PartGroup
<1>0. "ht" \notin Owned
  BY DEF Owned, Part
<1>1. CASE g \in PartGroup
  <2>1. PICK S : S = Owned
    OBVIOUS
  <2>2. g \in Seq(S) /\ g # <<>>
    BY <1>1, <2>1 DEF PartGroup
  <2>3. /\ Len(g) \in Nat /\ Len(g) > 0 /\ DOMAIN g = 1..Len(g) /\ g[1] \in S
        /\ Tail(g) \in Seq(S) /\ DOMAIN Tail(g) = 1..(Len(g) - 1) /\ Len(Tail(g)) = Len(g) - 1
        /\ \A k \in 1..(Len(g) - 1) : Tail(g)[k] = g[k + 1]
    BY <2>2, Rest, Zenon
  <2>4. ASSUME NEW j \in DOMAIN g, j # 1
        PROVE  Len(g) > 1 /\ \E i \in DOMAIN Tail(g) : Tail(g)[i] = g[j]
    <3>1. j - 1 \in 1..(Len(g) - 1) /\ (j - 1) + 1 = j /\ Len(g) > 1
      BY <2>3, <2>4
    <3> QED
      BY <3>1, <2>3
  <2>5. Len(g) > 1 => Tail(g) \in PartGroup
    <3>1. Len(g) > 1 => Len(Tail(g)) # 0
      BY <2>3
    <3>2. Len(g) > 1 => Tail(g) # <<>>
      BY <3>1, EmptySeq
    <3> QED
      BY <3>2, <2>1, <2>3 DEF PartGroup
  <2> QED
    BY <1>0, <1>1, <2>1, <2>3, <2>4, <2>5
<1>2. CASE g \notin PartGroup
  <2>1. g = <<"ht">> /\ "ht" \in ini
    BY <1>2, Zenon DEF Group
  <2> QED
    BY <1>0, <1>2, <2>1
<1> QED
  BY <1>1, <1>2

-----------------------------------------------------------------------------
\* What is left when the first command has been run, or its group given up.
LEMMA Passed ==
  ASSUME NoiseType, Orders, todo # <<>>, NEW u,
         \/ u = Tail(todo)
         \/ Len(todo[1]) > 1 /\ u = <<Tail(todo[1])>> \o Tail(todo)
  PROVE  /\ u \in Seq(Group)
         /\ pc = "quiet" => \A k \in DOMAIN u : u[k] \in PartGroup
         /\ pc = "restore" => \A k \in DOMAIN u : k < Len(u) => u[k] \in PartGroup
<1>1. PICK S, G : S = PartGroup /\ G = Group
  OBVIOUS
<1>2. todo \in Seq(G) /\ S \subseteq G
  BY <1>1, AskedProcessors DEF Orders
<1>3. /\ Len(todo) \in Nat /\ Len(todo) > 0 /\ DOMAIN todo = 1..Len(todo) /\ todo[1] \in G
      /\ Tail(todo) \in Seq(G) /\ Len(Tail(todo)) = Len(todo) - 1
      /\ DOMAIN Tail(todo) = 1..(Len(todo) - 1)
      /\ \A k \in 1..(Len(todo) - 1) : Tail(todo)[k] = todo[k + 1]
  BY <1>2, Rest, SMT
<1>4. Len(todo[1]) > 1 => Tail(todo[1]) \in S
  BY <1>1, <1>3, GroupShape, Zenon
<1>5. pc = "quiet" => \A k \in 2..Len(todo) : todo[k] \in S
  <2>1. \A k \in 2..Len(todo) : k \in DOMAIN todo /\ k > 1
    BY <1>3
  <2> QED
    BY <1>1, <2>1, Zenon DEF Orders
<1>10. pc = "restore" => \A k \in 1..(Len(todo) - 1) : todo[k] \in S
  <2>1. \A k \in 1..(Len(todo) - 1) : k \in DOMAIN todo /\ k < Len(todo)
    BY <1>3
  <2> QED
    BY <1>1, <2>1, Zenon DEF Orders
<1>6. CASE u = Tail(todo)
  <2>1. \A k \in 1..(Len(todo) - 1) : k + 1 \in 2..Len(todo)
    BY <1>3
  <2>2. pc = "quiet" => \A k \in DOMAIN u : u[k] \in S
    BY <1>3, <1>5, <1>6, <2>1, Zenon
  <2>3. pc = "restore" => \A k \in DOMAIN u : k < Len(u) => u[k] \in S
    <3>1. \A k \in DOMAIN u : k < Len(u) => k + 1 \in 1..(Len(todo) - 1) /\ k \in 1..(Len(todo) - 1)
      BY <1>3, <1>6
    <3> QED
      BY <1>3, <1>10, <1>6, <3>1, Zenon
  <2> QED
    BY <1>1, <1>3, <1>6, <2>2, <2>3, Zenon
<1>7. CASE Len(todo[1]) > 1 /\ u = <<Tail(todo[1])>> \o Tail(todo)
  <2>1. Tail(todo[1]) \in S /\ Tail(todo[1]) \in G
    BY <1>2, <1>4, <1>7
  <2>2. /\ u \in Seq(G) /\ Len(u) = Len(todo) /\ DOMAIN u = 1..Len(todo)
        /\ u[1] = Tail(todo[1]) /\ \A k \in 2..Len(todo) : u[k] = todo[k]
    <3>1. PICK t \in Seq(G) : t = todo
      BY <1>2
    <3>2. PICK h \in G : h = Tail(todo[1])
      BY <2>1
    <3>3. t # <<>> /\ u = <<h>> \o Tail(t)
      BY <3>1, <3>2, <1>7
    <3>4. /\ u \in Seq(G) /\ Len(u) = Len(t) /\ DOMAIN u = 1..Len(t)
          /\ u[1] = h /\ \A k \in 2..Len(t) : u[k] = t[k]
      BY <3>1, <3>2, <3>3, Replaced, SMT
    <3> QED
      BY <3>1, <3>2, <3>4
  <2>3. pc = "quiet" => \A k \in DOMAIN u : u[k] \in S
    <3>1. \A n \in Nat : \A k \in 1..n : k = 1 \/ k \in 2..n
      OBVIOUS
    <3>2. \A k \in DOMAIN u : k = 1 \/ k \in 2..Len(todo)
      BY <2>2, <1>3, <3>1, Zenon
    <3> QED
      BY <3>2, <1>5, <2>1, <2>2, Zenon
  <2>4. pc = "restore" => \A k \in DOMAIN u : k < Len(u) => u[k] \in S
    <3>1. \A n \in Nat : \A k \in 1..n : k < n =>
            k = 1 \/ (k \in 2..n /\ k \in 1..(n - 1))
      OBVIOUS
    <3>2. \A k \in DOMAIN u : k < Len(u) =>
            k = 1 \/ (k \in 2..Len(todo) /\ k \in 1..(Len(todo) - 1))
      BY <2>2, <1>3, <3>1, Zenon
    <3> QED
      BY <3>2, <1>10, <2>1, <2>2, Zenon
  <2> QED
    BY <1>1, <2>2, <2>3, <2>4, Zenon
<1> QED
  BY <1>6, <1>7

\* A command that is run takes no more than itself off what is left.
LEMMA Worked ==
  ASSUME NoiseType, Orders, todo # <<>>, NEW u,
         u = IF Len(todo[1]) > 1 THEN <<Tail(todo[1])>> \o Tail(todo) ELSE Tail(todo)
  PROVE  \A p \in Left(todo) : p = todo[1][1] \/ p \in Left(u)
<1> SUFFICES ASSUME NEW p \in Left(todo), p # todo[1][1]
             PROVE  p \in Left(u)
  OBVIOUS
<1>1. PICK G : G = Group
  OBVIOUS
<1>2. todo \in Seq(G)
  BY <1>1 DEF Orders
<1>3. /\ Len(todo) \in Nat /\ Len(todo) > 0 /\ DOMAIN todo = 1..Len(todo) /\ todo[1] \in G
      /\ Tail(todo) \in Seq(G) /\ Len(Tail(todo)) = Len(todo) - 1
      /\ DOMAIN Tail(todo) = 1..(Len(todo) - 1)
      /\ \A k \in 1..(Len(todo) - 1) : Tail(todo)[k] = todo[k + 1]
  BY <1>2, Rest, SMT
<1>4. PICK k \in DOMAIN todo : \E j \in DOMAIN todo[k] : todo[k][j] = p
  BY Zenon DEF Left
<1>5. p \in Part \cup {"ht"}
  BY DEF Left
<1>6. k = 1 => Len(todo[1]) > 1 /\ \E i \in DOMAIN Tail(todo[1]) : Tail(todo[1])[i] = p
  <2>1. ASSUME k = 1
        PROVE  Len(todo[1]) > 1 /\ \E i \in DOMAIN Tail(todo[1]) : Tail(todo[1])[i] = p
    <3>1. PICK j \in DOMAIN todo[1] : todo[1][j] = p
      BY <2>1, <1>4, Zenon
    <3>2. j # 1
      BY <3>1
    <3>3. PICK g \in G : g = todo[1]
      BY <1>3
    <3>4. \A i \in DOMAIN g : i = 1 \/ (Len(g) > 1 /\ \E l \in DOMAIN Tail(g) : Tail(g)[l] = g[i])
      BY <1>1, GroupShape, Zenon
    <3>5. Len(g) > 1 /\ \E l \in DOMAIN Tail(g) : Tail(g)[l] = p
      BY <3>1, <3>2, <3>3, <3>4, Zenon
    <3> QED
      BY <3>3, <3>5, Zenon
  <2> QED
    BY <2>1
<1>7. SUFFICES \E i \in DOMAIN u : \E j \in DOMAIN u[i] : u[i][j] = p
  BY <1>5, Zenon DEF Left
<1>8. CASE Len(todo[1]) > 1
  <2>1. PICK t \in Seq(G) : t = todo
    BY <1>2
  <2>2. PICK h \in G : h = Tail(todo[1])
    BY <1>1, <1>3, <1>8, GroupShape, AskedProcessors
  <2>3. t # <<>> /\ u = <<h>> \o Tail(t)
    BY <2>1, <2>2, <1>8
  <2>4. /\ DOMAIN u = 1..Len(t) /\ u[1] = h /\ \A i \in 2..Len(t) : u[i] = t[i]
    BY <2>1, <2>2, <2>3, Replaced, SMT
  <2>5. CASE k = 1
    <3>1. 1 \in DOMAIN u /\ u[1] = Tail(todo[1])
      BY <2>1, <2>2, <2>4, <1>3
    <3> QED
      BY <3>1, <2>5, <1>6, Zenon
  <2>6. CASE k # 1
    <3>1. k \in 2..Len(t)
      BY <2>1, <2>6, <1>3, <1>4
    <3>2. k \in DOMAIN u /\ u[k] = todo[k]
      BY <3>1, <2>1, <2>4
    <3> QED
      BY <3>2, <1>4, Zenon
  <2> QED
    BY <2>5, <2>6
<1>9. CASE ~(Len(todo[1]) > 1)
  <2>1. k # 1
    BY <1>6, <1>9
  <2>2. k - 1 \in 1..(Len(todo) - 1) /\ (k - 1) + 1 = k
    BY <2>1, <1>3, <1>4
  <2>3. k - 1 \in DOMAIN u /\ u[k - 1] = todo[k]
    BY <2>2, <1>3, <1>9
  <2> QED
    BY <2>3, <1>4, Zenon
<1> QED
  BY <1>8, <1>9

\* The command at hand is of a setting or of the processors, which are the first
\* on the way in and the last on the way out.
LEMMA AtHand ==
  ASSUME NoiseType, Orders, todo # <<>>
  PROVE  /\ todo[1][1] \in Owned \cup {"ht"}
         /\ todo[1][1] = "ht" => "ht" \in ini /\ todo[1] = <<"ht">>
         /\ pc = "restore" /\ todo[1][1] = "ht" => Left(todo) \subseteq {"ht"}
<1>1. PICK G : G = Group
  OBVIOUS
<1>2. todo \in Seq(G)
  BY <1>1 DEF Orders
<1>3. Len(todo) \in Nat /\ Len(todo) > 0 /\ DOMAIN todo = 1..Len(todo) /\ todo[1] \in G
  BY <1>2, Rest, SMT
<1>4. /\ todo[1][1] \in Owned \cup {"ht"}
      /\ todo[1] \in PartGroup => todo[1][1] \in Owned
      /\ todo[1][1] = "ht" => "ht" \in ini /\ todo[1] = <<"ht">> /\ DOMAIN todo[1] = {1}
  BY <1>1, <1>3, GroupShape, Zenon
<1>5. ASSUME pc = "restore", todo[1][1] = "ht", NEW p \in Left(todo)
      PROVE  p = "ht"
  <2>1. "ht" \notin Owned
    BY DEF Owned, Part
  <2>2. ~(1 < Len(todo))
    BY <2>1, <1>3, <1>4, <1>5 DEF Orders
  <2>3. DOMAIN todo = {1}
    BY <2>2, <1>3
  <2>4. PICK k \in DOMAIN todo : \E j \in DOMAIN todo[k] : todo[k][j] = p
    BY Zenon DEF Left
  <2> QED
    BY <2>3, <2>4, <1>4, <1>5
<1> QED
  BY <1>4, <1>5

-----------------------------------------------------------------------------
\* A step that leaves the machine alone, to where there is nothing to be run.
LEMMA Elsewhere ==
  ASSUME NInv, UNCHANGED <<ini, machine>>, mode' \in Mode, todo' = <<>>,
         pc' \in {"out", "check", "command", "open"} \cup Talking,
         ended' \in {"not yet", "main", "early"},
         ended' = "main" => pc' = "out" /\ (ended = "main" \/ spoilt \/ Normal)
  PROVE  NInv'
<1>1. NoiseType'
  BY DEF NInv, NoiseType, machine
<1>2. Orders'
  <2>1. todo' \in Seq(Group')
    BY EmptySeq
  <2>2. pc' \notin {"quiet", "restore"}
    BY DEF Talking
  <2> QED
    BY <2>1, <2>2 DEF Orders, Busy
<1>3. ASSUME ~spoilt'
      PROVE  Unspoilt'
  <2>1. ~spoilt /\ Unspoilt
    BY <1>3 DEF NInv, machine
  <2>2. pc' # "quiet" /\ pc' # "restore"
    BY DEF Talking
  <2>3. Offline' /\ Own'
    BY <2>1 DEF Unspoilt, Offline, Own, Owned, machine
  <2>4. (ended = "main" => Normal) /\ (Normal => Normal')
    BY <2>1 DEF Unspoilt, Normal, machine
  <2>5. ended' = "main" => Normal'
    BY <2>1, <2>4
  <2> QED
    BY <2>2, <2>3, <2>5 DEF Unspoilt, First, Remains
<1>4. ended' = "main" => pc' = "out"
  OBVIOUS
<1> QED
  BY <1>1, <1>2, <1>3, <1>4, Zenon DEF NInv

\* A step that begins to quiet the machine, or to restore it.
LEMMA Begins ==
  ASSUME NInv, UNCHANGED <<ini, machine, mode, ended>>, pc # "out",
         \/ pc' = "quiet" /\ todo' = Quieting
         \/ pc' = "restore" /\ todo' = Restoring
  PROVE  NInv'
<1>1. NoiseType /\ NoiseType'
  BY DEF NInv, NoiseType, machine, Busy
<1>2. Group' = Group /\ PartGroup' = PartGroup /\ Owned' = Owned
  BY DEF Group, PartGroup, Owned
<1>3. ended' # "main"
  BY DEF NInv
<1>4. CASE pc' = "quiet" /\ todo' = Quieting
  <2>1. Orders'
    BY <1>1, <1>2, <1>4, Quietened DEF Orders, Busy
  <2>2. ASSUME ~spoilt'
        PROVE  Unspoilt'
    <3>1. Offline /\ Own
      BY <2>2 DEF NInv, Unspoilt, machine
    <3>2. Offline' /\ Own'
      BY <1>2, <3>1 DEF Offline, Own, machine
    <3>3. First'
      BY <1>1, <1>4, Quietened DEF First
    <3>4. Remains'
      BY <1>4 DEF Remains
    <3> QED
      BY <1>3, <3>2, <3>3, <3>4 DEF Unspoilt
  <2> QED
    BY <1>1, <1>3, <2>1, <2>2, Zenon DEF NInv
<1>5. CASE pc' = "restore" /\ todo' = Restoring
  <2>1. Orders'
    BY <1>1, <1>2, <1>5, RestoringAll DEF Orders, Busy
  <2>2. ASSUME ~spoilt'
        PROVE  Unspoilt'
    <3>1. Offline /\ Own
      BY <2>2 DEF NInv, Unspoilt, machine
    <3>2. Offline' /\ Own'
      BY <1>2, <3>1 DEF Offline, Own, machine
    <3>3. First'
      BY <1>5 DEF First
    <3>4. Remains'
      <4>1. \A p \in Part : changed'[p] # {} => p \in Left(todo')
        BY <1>1, <1>5, <3>1, RestoringAll DEF Own, machine
      <4>2. online' # Cpu => "ht" \in Left(todo')
        BY <1>1, <1>5, <3>1, RestoringAll DEF Offline, machine
      <4>3. Left(todo)' = Left(todo')
        BY DEF Left
      <4> QED
        BY <4>1, <4>2, <4>3 DEF Remains
    <3> QED
      BY <1>3, <3>2, <3>3, <3>4 DEF Unspoilt
  <2> QED
    BY <1>1, <1>3, <2>1, <2>2, Zenon DEF NInv
<1> QED
  BY <1>4, <1>5

\* The session ends early.
LEMMA EndsEarly ==
  ASSUME NInv, Early, UNCHANGED <<ini, machine, mode>>
  PROVE  NInv'
BY Elsewhere DEF Early, NInv, NoiseType, machine

LEMMA GoesToRestore ==
  ASSUME NInv, ToRestore, UNCHANGED <<ini, machine, mode>>, pc # "out"
  PROVE  NInv'
BY Begins DEF ToRestore, machine

\* A command to the system, on the processors it reaches or on some of them.
LEMMA Commanded ==
  ASSUME NInv, pc \in Busy, todo # <<>>, NEW where \in SUBSET Reach(todo[1][1]),
         Effect(todo[1][1], where),
         UNCHANGED <<ini, pc, mode, ended>>,
         \/ /\ where = Reach(todo[1][1]) /\ spoilt' = spoilt
            /\ todo' = IF Len(todo[1]) > 1 THEN <<Tail(todo[1])>> \o Tail(todo) ELSE Tail(todo)
         \/ /\ spoilt' = (spoilt \/ pc = "restore" \/ todo[1][1] = "ht")
            /\ todo' = Tail(todo)
  PROVE  NInv'
<1>. DEFINE part == todo[1][1]
<1>1. NoiseType /\ Orders /\ (pc = "quiet" \/ pc = "restore") /\ ended # "main" /\ Boot \in Cpu
  BY SessionAssumption DEF NInv, Busy
<1>2. Group' = Group /\ PartGroup' = PartGroup /\ Owned' = Owned
  BY DEF Group, PartGroup, Owned
<1>3. PICK u : u = todo'
  OBVIOUS
<1>4. /\ u \in Seq(Group)
      /\ pc = "quiet" => \A k \in DOMAIN u : u[k] \in PartGroup
      /\ pc = "restore" => \A k \in DOMAIN u : k < Len(u) => u[k] \in PartGroup
  BY <1>1, <1>3, Passed, Zenon
<1>5. Orders'
  BY <1>1, <1>2, <1>3, <1>4, Zenon DEF Orders, Busy
<1>6. /\ part \in Owned \cup {"ht"} /\ Owned \subseteq Part /\ "ht" \notin Owned
      /\ part = "ht" => "ht" \in ini /\ todo[1] = <<"ht">>
      /\ pc = "restore" /\ part = "ht" => Left(todo) \subseteq {"ht"}
  BY <1>1, AtHand DEF Owned, Part
<1>7. NoiseType'
  BY <1>1, <1>6 DEF NoiseType, Effect, Reach
<1>8. ASSUME ~spoilt'
      PROVE  Unspoilt'
  <2>1. ~spoilt /\ Offline /\ Own /\ First /\ Remains
    <3>1. ~spoilt
      BY <1>8, Zenon
    <3> QED
      BY <3>1, Zenon DEF NInv, Unspoilt
  <2>2. CASE pc = "quiet" /\ part = "ht"
    <3>1. where = Cpu
      BY <1>8, <2>2 DEF Reach
    <3>2. online' = {Boot} /\ changed' = changed
      BY <1>1, <2>2, <3>1 DEF Effect, NoiseType
    <3>3. Offline' /\ Own'
      BY <1>2, <1>6, <2>1, <2>2, <3>2 DEF Offline, Own
    <3>4. First' /\ Remains'
      BY <2>2, <3>2 DEF First, Remains
    <3> QED
      BY <1>1, <3>3, <3>4 DEF Unspoilt
  <2>3. CASE pc = "quiet" /\ part # "ht"
    <3>1. part \in Owned /\ where \subseteq online
      BY <1>6, <2>3 DEF Reach
    <3>2. /\ online' = online
          /\ changed' = [changed EXCEPT ![part] = changed[part] \cup where]
      BY <2>3 DEF Effect
    <3>3. "ht" \in ini => online = {Boot}
      BY <2>1, <2>3 DEF First
    <3>4. \A p \in Part : changed'[p] = IF p = part THEN changed[p] \cup where ELSE changed[p]
      BY <1>1, <1>6, <3>1, <3>2 DEF NoiseType
    <3>5. Offline' /\ Own'
      BY <1>2, <2>1, <3>1, <3>2, <3>3, <3>4 DEF Offline, Own
    <3>6. First' /\ Remains'
      BY <2>3, <3>2, <3>3 DEF First, Remains
    <3> QED
      BY <1>1, <3>5, <3>6 DEF Unspoilt
  <2>4. CASE pc = "restore" /\ part = "ht"
    <3>1. where = Cpu
      BY <1>8, <2>4 DEF Reach
    <3>2. online' = Cpu /\ changed' = changed
      BY <1>1, <2>4, <3>1 DEF Effect, NoiseType
    <3>3. \A p \in Part : changed[p] = {}
      BY <1>6, <2>1, <2>4 DEF Remains, Part
    <3>4. Offline' /\ Own' /\ First' /\ Remains'
      BY <2>4, <3>2, <3>3 DEF Offline, Own, First, Remains
    <3> QED
      BY <1>1, <3>4 DEF Unspoilt
  <2>5. CASE pc = "restore" /\ part # "ht"
    <3>1. part \in Owned /\ where = online
      BY <1>6, <1>8, <2>5 DEF Reach
    <3>2. /\ online' = online
          /\ changed' = [changed EXCEPT ![part] = changed[part] \ where]
      BY <2>5 DEF Effect
    <3>3. \A p \in Part : changed'[p] = IF p = part THEN {} ELSE changed[p]
      BY <1>1, <1>6, <2>1, <3>1, <3>2 DEF NoiseType, Own
    <3>4. Offline' /\ Own'
      BY <1>2, <2>1, <3>2, <3>3 DEF Offline, Own
    <3>5. \A p \in Left(todo) : p = part \/ p \in Left(u)
      <4>1. u = IF Len(todo[1]) > 1 THEN <<Tail(todo[1])>> \o Tail(todo) ELSE Tail(todo)
        BY <1>3, <1>8, <2>5
      <4> QED
        BY <1>1, <4>1, Worked, Zenon
    <3>6. Left(u) = Left(todo)'
      BY <1>3 DEF Left
    <3>7. Remains'
      BY <2>1, <2>5, <3>2, <3>3, <3>5, <3>6 DEF Remains
    <3>8. First'
      BY <2>5 DEF First
    <3> QED
      BY <1>1, <3>4, <3>7, <3>8 DEF Unspoilt
  <2> QED
    BY <1>1, <2>2, <2>3, <2>4, <2>5
<1> QED
  BY <1>1, <1>5, <1>7, <1>8, Zenon DEF NInv

-----------------------------------------------------------------------------
LEMMA NInvInitially ==
  ASSUME Init PROVE NInv
<1>1. NoiseType
  BY SessionAssumption DEF Init, NoiseType, Mode
<1>2. Orders
  BY EmptySeq DEF Init, Orders, Busy
<1>3. Unspoilt
  BY DEF Init, Unspoilt, Offline, Own, First, Remains
<1> QED
  BY <1>1, <1>2, <1>3, Zenon DEF NInv, Init

\* Every step of the session keeps the invariant.
LEMMA NInvStep ==
  ASSUME NInv, [Next]_vars PROVE NInv'
<1>0. NoiseType /\ Orders /\ mode \in Mode
  BY DEF NInv, NoiseType
<1>1. CASE Works
  BY <1>1, Commanded DEF Works, Busy
<1>2. CASE Fails
  BY <1>2, Commanded DEF Fails, Busy, Given_Up
<1>3. CASE Check
  <2>1. pc # "out" /\ UNCHANGED <<ini, machine, mode>>
    BY <1>3 DEF Check
  <2>2. CASE Early
    BY <2>1, <2>2, EndsEarly
  <2>3. CASE pc' = "quiet" /\ todo' = Quieting /\ UNCHANGED <<ended, shell, answered>>
    BY <2>1, <2>3, Begins
  <2> QED
    BY <1>3, <2>2, <2>3 DEF Check
<1>4. CASE Quiet
  BY <1>0, <1>4, Elsewhere DEF Quiet, NInv, NoiseType
<1>5. CASE Command
  <2>1. pc # "out" /\ UNCHANGED <<ini, machine, mode>>
    BY <1>5 DEF Command
  <2> QED
    BY <1>5, <2>1, EndsEarly, GoesToRestore DEF Command
<1>6. CASE Open
  <2>1. UNCHANGED <<ini, machine, mode>> /\ pc = "open"
    BY <1>6 DEF Open
  <2>2. CASE Early
    BY <2>1, <2>2, EndsEarly
  <2>3. CASE pc' = "prompt" /\ UNCHANGED <<todo, ended, answered>>
    BY <1>0, <2>1, <2>3, Elsewhere DEF NInv, NoiseType, Orders, Busy, Talking
  <2> QED
    BY <1>6, <2>2, <2>3 DEF Open
<1>7. CASE Restored
  <2>1. Left(todo) = {}
    BY <1>7 DEF Restored, Left
  <2>2. spoilt \/ Normal
    BY <1>7, <2>1 DEF Restored, NInv, Unspoilt, Remains, Normal
  <2> QED
    BY <1>0, <1>7, <2>2, Elsewhere DEF Restored
<1>8. CASE DoRun \/ DoSet \/ DoLevel \/ DoClose \/ DoNothing
  <2>1. pc = "line" /\ pc' = "post" /\ UNCHANGED <<ini, machine, mode, todo, ended>>
    BY <1>8, Zenon DEF DoRun, DoSet, DoLevel, DoClose, DoNothing, Done, Line
  <2> QED
    BY <1>0, <2>1, Elsewhere DEF NInv, NoiseType, Orders, Busy, Talking
<1>9. CASE Raises
  BY <1>9, EndsEarly DEF Raises
<1>10. CASE Post
  <2>1. pc = "post" /\ UNCHANGED <<ini, machine, mode>>
    BY <1>10 DEF Post
  <2>2. CASE ToRestore
    BY <2>1, <2>2, GoesToRestore
  <2>3. CASE pc' = "prompt" /\ UNCHANGED <<todo, ended, answered>>
    BY <1>0, <2>1, <2>3, Elsewhere DEF NInv, NoiseType, Orders, Busy, Talking
  <2> QED
    BY <1>10, <2>2, <2>3 DEF Post
<1>11. CASE Interrupt
  <2>1. UNCHANGED <<ini, machine, mode>> /\ pc # "out"
    BY <1>11 DEF Interrupt
  <2> QED
    BY <1>11, <2>1, EndsEarly, GoesToRestore DEF Interrupt
<1>12. ASSUME NEW m \in Mode, Start(m)
       PROVE  NInv'
  BY <1>0, <1>12, Elsewhere DEF Start, Orders, Busy
<1>13. ASSUME NEW c \in Typed, Enter(c)
       PROVE  NInv'
  <2>1. pc = "prompt" /\ pc' = "line" /\ UNCHANGED <<ini, machine, mode, todo, ended>>
    BY <1>13 DEF Enter
  <2> QED
    BY <1>0, <2>1, Elsewhere DEF NInv, NoiseType, Orders, Busy, Talking
<1>14. CASE UNCHANGED vars
  <2>1. UNCHANGED <<ini, machine, pc, mode, todo, ended>>
    BY <1>14 DEF vars
  <2>2. NoiseType' /\ Orders' /\ (Unspoilt => Unspoilt') /\ spoilt' = spoilt
    BY <1>0, <2>1 DEF NoiseType, Orders, Group, PartGroup, Owned, Unspoilt, Offline, Own, First,
                      Remains, Left, Normal, machine
  <2> QED
    BY <2>1, <2>2, Zenon DEF NInv
<1> QED
  BY <1>1, <1>2, <1>3, <1>4, <1>5, <1>6, <1>7, <1>8, <1>9, <1>10, <1>11, <1>12, <1>13, <1>14
     DEF Next, Step

\* The noise is restored by every session that main ends, for any options of the
\* ini file, any processors, and any sessions before it that ended early.
THEOREM NoiseCorrect == Spec => []NoiseRestored
<1>1. Init => NInv
  BY NInvInitially
<1>2. NInv /\ [Next]_vars => NInv'
  BY NInvStep
<1>3. NInv => NoiseRestored
  BY Zenon DEF NInv, Unspoilt, NoiseRestored
<1> QED
  BY <1>1, <1>2, <1>3, PTL DEF Spec

-----------------------------------------------------------------------------
Target == Level \X Numbers
Response == [kind : {"answers", "syntax"}, target : Target, line : Nat]
Entry == [kind : {"prompt", "answers"}, target : Target, line : Nat]
Shell ==
  [level : Level, set : [Level -> Numbers], prompt : Target, logging : BOOLEAN,
   log : Seq(Entry), typed : Typed, last : Typed, lines : Nat,
   response : Response \cup {None}]

\* The prompt of an entry; each entry with answers is behind its own, and the
\* lines of the prompts rise.
PromptOf(e) == [e EXCEPT !.kind = "prompt"]
Behind(log) ==
  \A k \in DOMAIN log : log[k].kind = "answers" => k > 1 /\ log[k - 1] = PromptOf(log[k])
Rising(log) ==
  \A k \in DOMAIN log : log[k].kind = "prompt" => \A j \in 1..(k - 1) : log[j].line < log[k].line
UpTo(log, n) == \A k \in DOMAIN log : log[k].line <= n
Logged(log) == {log[k].line : k \in {j \in DOMAIN log : log[j].kind = "answers"}}
EndsWith(log, e) == log # <<>> /\ log[Len(log)] = e

\* The answers that postcmd is about to write.
Pending ==
  {e.line : e \in {f \in {shell.response} : pc = "post" /\ ToWrite /\ f.kind = "answers"}}

PromptEntry(s) == [kind |-> "prompt", target |-> s.prompt, line |-> s.lines]
LogInv ==
  /\ shell \in Shell /\ shell.prompt = target
  /\ Behind(shell.log) /\ Rising(shell.log) /\ UpTo(shell.log, shell.lines)
  /\ shell.logging /\ pc # "post" => shell.response = None
  /\ shell.logging /\ pc = "line" => EndsWith(shell.log, PromptEntry(shell))
  /\ pc = "post" /\ ToWrite => EndsWith(shell.log, PromptOf(shell.response))
  /\ answered = Logged(shell.log) \cup Pending

SInv == IF pc \in Talking THEN LogInv ELSE shell = None /\ answered = {}

-----------------------------------------------------------------------------
\* An entry written to the log.
LEMMA LogWritten ==
  ASSUME NEW log \in Seq(Entry), NEW e \in Entry
  PROVE  LET l == Append(log, e) IN
         /\ l \in Seq(Entry) /\ Len(l) = Len(log) + 1 /\ Len(log) \in Nat /\ l # <<>>
         /\ DOMAIN log = 1..Len(log) /\ DOMAIN l = 1..(Len(log) + 1)
         /\ l[Len(l)] = e
         /\ \A k \in 1..Len(log) : l[k] = log[k] /\ l[k] \in Entry
<1>1. /\ Append(log, e) \in Seq(Entry) /\ Len(Append(log, e)) = Len(log) + 1
      /\ \A i \in 1..Len(log) : Append(log, e)[i] = log[i]
      /\ Append(log, e)[Len(log) + 1] = e
  BY AppendProperties, SMT
<1>2. Len(log) \in Nat /\ DOMAIN log = 1..Len(log) /\ log \in [1..Len(log) -> Entry]
  BY LenProperties, Zenon
<1>3. DOMAIN Append(log, e) = 1..(Len(log) + 1)
  BY <1>1, LenProperties, Zenon
<1>4. Append(log, e) # <<>>
  BY <1>1, <1>2, EmptySeq, SMT
<1>5. \A k \in 1..Len(log) : Append(log, e)[k] = log[k] /\ Append(log, e)[k] \in Entry
  BY <1>1, <1>2, Zenon
<1> QED
  BY <1>1, <1>2, <1>3, <1>4, <1>5, Zenon

\* The prompt of a new line.
LEMMA PromptWritten ==
  ASSUME NEW log \in Seq(Entry), NEW e \in Entry, e.kind = "prompt", NEW n \in Nat,
         Behind(log), Rising(log), UpTo(log, n), e.line = n + 1
  PROVE  LET l == Append(log, e) IN
         /\ l \in Seq(Entry) /\ Behind(l) /\ Rising(l) /\ UpTo(l, n + 1) /\ EndsWith(l, e)
         /\ Logged(l) = Logged(log)
<1> DEFINE l == Append(log, e)
<1> HIDE DEF l
<1>1. /\ l \in Seq(Entry) /\ Len(l) = Len(log) + 1 /\ Len(log) \in Nat /\ l # <<>>
      /\ DOMAIN log = 1..Len(log) /\ DOMAIN l = 1..(Len(log) + 1)
      /\ l[Len(log) + 1] = e
      /\ \A k \in 1..Len(log) : l[k] = log[k] /\ l[k] \in Entry
  BY LogWritten, Zenon DEF l
<1>2. \A k \in DOMAIN l : k = Len(log) + 1 \/ k \in DOMAIN log
  BY <1>1, SMT
<1>3. Behind(l)
  <2> SUFFICES ASSUME NEW k \in DOMAIN l, l[k].kind = "answers"
               PROVE  k > 1 /\ l[k - 1] = PromptOf(l[k])
    BY DEF Behind
  <2>1. k \in DOMAIN log /\ l[k] = log[k]
    BY <1>1, <1>2, SMT
  <2>2. k > 1 /\ log[k - 1] = PromptOf(log[k])
    BY <2>1, Zenon DEF Behind
  <2>3. k - 1 \in 1..Len(log)
    BY <2>1, <2>2, <1>1
  <2> QED
    BY <2>1, <2>2, <2>3, <1>1, Zenon
<1>4. UpTo(l, n + 1)
  <2> SUFFICES ASSUME NEW k \in DOMAIN l PROVE l[k].line <= n + 1
    BY DEF UpTo
  <2>1. CASE k \in DOMAIN log
    <3>1. log[k].line <= n /\ l[k] = log[k] /\ log[k].line \in Nat
      BY <1>1, <2>1 DEF UpTo, Entry
    <3> QED
      BY <3>1
  <2>2. CASE k = Len(log) + 1
    BY <1>1, <2>2
  <2> QED
    BY <1>2, <2>1, <2>2
<1>5. Rising(l)
  <2> SUFFICES ASSUME NEW k \in DOMAIN l, l[k].kind = "prompt", NEW j \in 1..(k - 1)
               PROVE  l[j].line < l[k].line
    BY DEF Rising
  <2>1. j \in 1..Len(log) /\ l[j] = log[j] /\ log[j].line \in Nat
    BY <1>1, SMT DEF Entry
  <2>2. CASE k \in DOMAIN log
    BY <1>1, <2>1, <2>2 DEF Rising
  <2>3. CASE k = Len(log) + 1
    <3>1. log[j].line <= n
      BY <1>1, <2>1, Zenon DEF UpTo
    <3> QED
      BY <1>1, <2>1, <2>3, <3>1
  <2> QED
    BY <1>2, <2>2, <2>3
<1>6. Logged(l) = Logged(log)
  <2>1. {j \in DOMAIN l : l[j].kind = "answers"} = {j \in DOMAIN log : log[j].kind = "answers"}
    BY <1>1, <1>2, SMT
  <2>2. \A j \in {i \in DOMAIN log : log[i].kind = "answers"} : l[j].line = log[j].line
    BY <1>1
  <2> QED
    BY <2>1, <2>2, Zenon DEF Logged
<1>7. EndsWith(l, e)
  BY <1>1, Zenon DEF EndsWith
<1> QED
  BY <1>1, <1>3, <1>4, <1>5, <1>6, <1>7, Zenon DEF l

\* The answers of the line whose prompt is the last entry.
LEMMA AnswersWritten ==
  ASSUME NEW log \in Seq(Entry), NEW e \in Entry, e.kind = "answers", NEW n \in Nat,
         Behind(log), Rising(log), UpTo(log, n), EndsWith(log, PromptOf(e))
  PROVE  LET l == Append(log, e) IN
         /\ l \in Seq(Entry) /\ Behind(l) /\ Rising(l) /\ UpTo(l, n)
         /\ Logged(l) = Logged(log) \cup {e.line}
<1> DEFINE l == Append(log, e)
<1> HIDE DEF l
<1>1. /\ l \in Seq(Entry) /\ Len(l) = Len(log) + 1 /\ Len(log) \in Nat /\ l # <<>>
      /\ DOMAIN log = 1..Len(log) /\ DOMAIN l = 1..(Len(log) + 1)
      /\ l[Len(log) + 1] = e
      /\ \A k \in 1..Len(log) : l[k] = log[k] /\ l[k] \in Entry
  BY LogWritten, Zenon DEF l
<1>2. \A k \in DOMAIN l : k = Len(log) + 1 \/ k \in DOMAIN log
  BY <1>1, SMT
<1>3. Len(log) > 0 /\ Len(log) \in DOMAIN log /\ log[Len(log)] = PromptOf(e)
  BY <1>1, EmptySeq, SMT DEF EndsWith
<1>4. PromptOf(e).line = e.line /\ e.line \in Nat
  BY DEF PromptOf, Entry
<1>5. Behind(l)
  <2> SUFFICES ASSUME NEW k \in DOMAIN l, l[k].kind = "answers"
               PROVE  k > 1 /\ l[k - 1] = PromptOf(l[k])
    BY DEF Behind
  <2>1. CASE k \in DOMAIN log
    <3>1. l[k] = log[k]
      BY <1>1, <2>1
    <3>2. k > 1 /\ log[k - 1] = PromptOf(log[k])
      BY <2>1, <3>1, Zenon DEF Behind
    <3>3. k - 1 \in 1..Len(log)
      BY <2>1, <3>2, <1>1
    <3> QED
      BY <3>1, <3>2, <3>3, <1>1, Zenon
  <2>2. CASE k = Len(log) + 1
    <3>1. k > 1 /\ k - 1 = Len(log)
      BY <2>2, <1>1, <1>3
    <3> QED
      BY <3>1, <2>2, <1>1, <1>3, Zenon
  <2> QED
    BY <1>2, <2>1, <2>2
<1>6. UpTo(l, n)
  <2>1. e.line <= n
    BY <1>3, <1>4, Zenon DEF UpTo
  <2>2. ASSUME NEW k \in DOMAIN l PROVE l[k].line <= n
    BY <1>1, <1>2, <2>1 DEF UpTo
  <2> QED
    BY <2>2 DEF UpTo
<1>7. Rising(l)
  <2> SUFFICES ASSUME NEW k \in DOMAIN l, l[k].kind = "prompt", NEW j \in 1..(k - 1)
               PROVE  l[j].line < l[k].line
    BY DEF Rising
  <2>1. k \in DOMAIN log /\ l[k] = log[k]
    BY <1>1, <1>2
  <2>2. l[j] = log[j]
    BY <1>1, <2>1
  <2> QED
    BY <2>1, <2>2 DEF Rising
<1>8. Logged(l) = Logged(log) \cup {e.line}
  <2>1. {j \in DOMAIN l : l[j].kind = "answers"}
          = {j \in DOMAIN log : log[j].kind = "answers"} \cup {Len(log) + 1}
    BY <1>1, <1>2, SMT
  <2>2. \A j \in {i \in DOMAIN log : log[i].kind = "answers"} : l[j].line = log[j].line
    BY <1>1
  <2>3. l[Len(log) + 1].line = e.line
    BY <1>1
  <2> QED
    BY <2>1, <2>2, <2>3 DEF Logged
<1> QED
  BY <1>1, <1>5, <1>6, <1>7, <1>8, Zenon DEF l

\* Answers are in the log once.
LEMMA Once ==
  ASSUME NEW log \in Seq(Entry), Behind(log), Rising(log),
         NEW k \in DOMAIN log, log[k].kind = "answers",
         NEW j \in 1..(k - 1), log[j].kind = "answers"
  PROVE  log[j].line # log[k].line
<1>1. Len(log) \in Nat /\ DOMAIN log = 1..Len(log) /\ log \in [1..Len(log) -> Entry]
  BY LenProperties, Zenon
<1>2. k > 1 /\ log[k - 1] = PromptOf(log[k])
  BY Zenon DEF Behind
<1>3. k - 1 \in DOMAIN log /\ log[k] \in Entry /\ j \in DOMAIN log /\ log[j] \in Entry
  BY <1>1, <1>2, SMT
<1>4. log[k - 1].kind = "prompt" /\ log[k - 1].line = log[k].line
  BY <1>2, <1>3 DEF PromptOf, Entry
<1>5. j # k - 1
  BY <1>4
<1>6. j \in 1..((k - 1) - 1)
  BY <1>1, <1>3, <1>5, SMT
<1>7. log[j].line < log[k - 1].line
  BY <1>3, <1>4, <1>6, Zenon DEF Rising
<1> QED
  BY <1>3, <1>4, <1>7 DEF Entry

-----------------------------------------------------------------------------
LEMMA SInvInitially ==
  ASSUME Init PROVE SInv
BY DEF Init, SInv, Talking

\* The shell of a session that has just opened it.
LEMMA Opened ==
  ASSUME NEW o \in BOOLEAN, shell' = CQShell(FirstLevel, FirstSet, o), pc' = "prompt",
         answered = {}, answered' = answered
  PROVE  SInv'
<1>1. Nothing \in Typed /\ <<>> \in Seq(Entry)
  BY DEF Nothing, Typed
<1>2. FirstLevel \in Level /\ FirstSet \in [Level -> Numbers] /\ FirstSet[FirstLevel] \in Numbers
  BY SessionAssumption
<1>3. shell' = [level |-> FirstLevel, set |-> FirstSet, prompt |-> <<FirstLevel, FirstSet[FirstLevel]>>,
                logging |-> o, log |-> <<>>, typed |-> Nothing, last |-> Nothing, lines |-> 0,
                response |-> None]
  BY DEF CQShell
<1>4. shell' \in Shell
  BY <1>1, <1>2, <1>3 DEF Shell, Target
<1>5. (shell.prompt)' = target'
  BY <1>3 DEF target
<1>6. Behind(shell'.log) /\ Rising(shell'.log) /\ UpTo(shell'.log, shell'.lines) /\ Logged(shell'.log) = {}
  BY <1>3 DEF Behind, Rising, UpTo, Logged
<1>7. Pending' = {}
  BY DEF Pending
<1>8. Logged(shell.log)' = Logged(shell'.log)
  BY DEF Logged
<1>9. /\ Behind(shell.log)' /\ Rising(shell.log)' /\ UpTo(shell.log, shell.lines)'
  BY <1>6 DEF Behind, Rising, UpTo
<1> QED
  BY <1>3, <1>4, <1>5, <1>6, <1>7, <1>8, <1>9 DEF SInv, LogInv, Talking

LEMMA Entered ==
  ASSUME SInv, NEW c \in Typed, Enter(c)
  PROVE  SInv'
<1> DEFINE t == IF c = Nothing THEN shell.last ELSE c
           e == PromptEntry([shell EXCEPT !.lines = @ + 1])
<1>1. /\ pc = "prompt" /\ pc' = "line" /\ answered' = answered /\ LogInv /\ shell \in Shell
  BY DEF Enter, SInv, Talking, LogInv
<1>2. t \in Typed /\ shell.lines \in Nat /\ shell.log \in Seq(Entry) /\ shell.logging \in BOOLEAN
  BY <1>1 DEF Shell
<1>3. /\ e = [kind |-> "prompt", target |-> shell.prompt, line |-> shell.lines + 1]
      /\ e \in Entry /\ e.kind = "prompt" /\ e.line = shell.lines + 1
  BY <1>1, <1>2 DEF PromptEntry, Shell, Entry
<1>4. shell' = [shell EXCEPT !.typed = t, !.last = t, !.lines = shell.lines + 1,
                             !.log = IF shell.logging THEN Append(shell.log, e) ELSE shell.log]
  BY <1>3 DEF Enter
<1> HIDE DEF t, e
<1>5. PICK l : l = Append(shell.log, e)
  OBVIOUS
<1>6. /\ l \in Seq(Entry) /\ Behind(l) /\ Rising(l) /\ UpTo(l, shell.lines + 1) /\ EndsWith(l, e)
      /\ Logged(l) = Logged(shell.log)
  <2>1. PICK log \in Seq(Entry) : log = shell.log
    BY <1>2
  <2>2. PICK d \in Entry : d = e
    BY <1>3
  <2>3. PICK n \in Nat : n = shell.lines
    BY <1>2
  <2>4. Behind(log) /\ Rising(log) /\ UpTo(log, n)
    BY <1>1, <2>1, <2>3 DEF LogInv
  <2>5. /\ Append(log, d) \in Seq(Entry) /\ Behind(Append(log, d)) /\ Rising(Append(log, d))
        /\ UpTo(Append(log, d), n + 1) /\ EndsWith(Append(log, d), d)
        /\ Logged(Append(log, d)) = Logged(log)
    BY <1>3, <2>2, <2>3, <2>4, PromptWritten, Zenon
  <2> QED
    BY <1>5, <2>1, <2>2, <2>3, <2>5, Zenon
<1>7. shell' \in Shell
  <2>1. PICK log \in Seq(Entry) : log = IF shell.logging THEN l ELSE shell.log
    BY <1>2, <1>6
  <2>2. shell' = [shell EXCEPT !.typed = t, !.last = t, !.lines = shell.lines + 1, !.log = log]
    BY <1>4, <1>5, <2>1
  <2>3. shell.lines + 1 \in Nat
    BY <1>2
  <2> QED
    BY <1>1, <1>2, <2>1, <2>2, <2>3 DEF Shell
<1>8. /\ shell'.prompt = shell.prompt /\ shell'.level = shell.level /\ shell'.set = shell.set
      /\ shell'.logging = shell.logging /\ shell'.lines = shell.lines + 1
      /\ shell'.response = shell.response
      /\ shell'.log = IF shell.logging THEN l ELSE shell.log
  BY <1>1, <1>4, <1>5 DEF Shell
<1>9. (shell.prompt)' = target'
  BY <1>1, <1>8 DEF target, LogInv
<1>10. Behind(shell'.log) /\ Rising(shell'.log) /\ Logged(shell'.log) = Logged(shell.log)
  BY <1>1, <1>6, <1>8, Zenon DEF LogInv
<1>11. UpTo(shell'.log, shell'.lines)
  <2>1. CASE shell.logging
    BY <1>6, <1>8, <2>1
  <2>2. CASE ~shell.logging
    <3>1. \A k \in DOMAIN shell.log : shell.log[k].line \in Nat /\ shell.log[k].line <= shell.lines
      <4>1. \A k \in DOMAIN shell.log : shell.log[k] \in Entry
        BY <1>2, LenProperties, SMT
      <4>2. UpTo(shell.log, shell.lines)
        BY <1>1 DEF LogInv
      <4> QED
        BY <4>1, <4>2 DEF UpTo, Entry
    <3> QED
      BY <1>2, <1>8, <2>2, <3>1 DEF UpTo
  <2> QED
    BY <2>1, <2>2
<1>12. Pending = {} /\ Pending' = {}
  BY <1>1 DEF Pending
<1>13. shell'.logging => EndsWith(shell'.log, PromptEntry(shell'))
  <2>1. PromptEntry(shell') = e
    BY <1>3, <1>8 DEF PromptEntry
  <2> QED
    BY <1>6, <1>8, <2>1, Zenon
<1>14. /\ Behind(shell.log)' /\ Rising(shell.log)' /\ UpTo(shell.log, shell.lines)'
       /\ Logged(shell.log)' = Logged(shell'.log)
       /\ EndsWith(shell.log, PromptEntry(shell))' = EndsWith(shell'.log, PromptEntry(shell'))
  BY <1>10, <1>11 DEF Behind, Rising, UpTo, Logged, EndsWith, PromptEntry
<1>15. /\ answered' = Logged(shell.log)' \cup Pending'
  BY <1>1, <1>10, <1>12, <1>14 DEF LogInv
<1>16. /\ shell'.logging => shell'.response = None
  BY <1>1, <1>8, Zenon DEF LogInv
<1> QED
  BY <1>1, <1>7, <1>9, <1>13, <1>14, <1>15, <1>16 DEF SInv, LogInv, Talking

\* A command that leaves the log and the line as they are.
LEMMA Commands ==
  ASSUME LogInv, pc = "line", pc' = "post", shell' \in Shell,
         shell'.log = shell.log, shell'.lines = shell.lines, shell'.prompt = target',
         ToWrite' => EndsWith(shell.log, PromptOf(shell'.response)),
         answered' = answered \cup Pending'
  PROVE  SInv'
<1>1. Behind(shell.log) /\ Rising(shell.log) /\ UpTo(shell.log, shell.lines)
  BY DEF LogInv
<1>2. /\ Behind(shell.log)' /\ Rising(shell.log)' /\ UpTo(shell.log, shell.lines)'
      /\ Logged(shell.log)' = Logged(shell.log)
      /\ EndsWith(shell.log, PromptOf(shell.response))' = EndsWith(shell.log, PromptOf(shell'.response))
  BY <1>1 DEF Behind, Rising, UpTo, Logged, EndsWith, PromptOf
<1>3. Pending = {}
  BY DEF Pending
<1>4. answered' = Logged(shell.log)' \cup Pending'
  BY <1>2, <1>3 DEF LogInv
<1> QED
  BY <1>2, <1>4 DEF SInv, LogInv, Talking

\* A run: what it leaves to be written is of the line whose prompt is the last entry.
LEMMA Ran ==
  ASSUME SInv, DoRun PROVE SInv'
<1>1. pc = "line" /\ pc' = "post" /\ LogInv /\ shell \in Shell
  BY DEF DoRun, Line, Done, SInv, LogInv, Talking
<1>2. PICK k \in {"answers", "syntax"} :
        /\ shell' = [shell EXCEPT !.response = [kind |-> k, target |-> target, line |-> shell.lines]]
        /\ answered' = IF shell.logging /\ k = "answers" THEN answered \cup {shell.lines} ELSE answered
  BY DEF DoRun
<1>3. PICK r : r = [kind |-> k, target |-> target, line |-> shell.lines]
  OBVIOUS
<1>4. r \in Response /\ r.kind = k /\ r.line = shell.lines
  <2>1. target = shell.prompt /\ shell.prompt \in Target /\ shell.lines \in Nat
    BY <1>1 DEF LogInv, Shell
  <2> QED
    BY <1>3, <2>1 DEF Response
<1>5. r # None
  BY <1>4, SessionAssumption DEF Response, Target
<1>6. /\ shell' \in Shell /\ shell'.log = shell.log /\ shell'.lines = shell.lines
      /\ shell'.prompt = shell.prompt /\ shell'.level = shell.level /\ shell'.set = shell.set
      /\ shell'.logging = shell.logging /\ shell'.response = r
  BY <1>1, <1>2, <1>3, <1>4 DEF Shell
<1>7. shell'.prompt = target'
  BY <1>1, <1>6 DEF LogInv, target
<1>8. PromptOf(r) = PromptEntry(shell)
  BY <1>1, <1>3 DEF PromptOf, PromptEntry, LogInv
<1>9. ToWrite' => EndsWith(shell.log, PromptOf(shell'.response))
  BY <1>1, <1>6, <1>8, Zenon DEF ToWrite, LogInv
<1>10. answered' = answered \cup Pending'
  <2>1. CASE shell.logging /\ k = "answers"
    <3>1. Pending' = {shell.lines}
      BY <1>1, <1>4, <1>5, <1>6, <2>1 DEF Pending, ToWrite
    <3> QED
      BY <1>2, <2>1, <3>1
  <2>2. CASE ~(shell.logging /\ k = "answers")
    <3>1. Pending' = {}
      BY <1>1, <1>4, <1>5, <1>6, <2>2 DEF Pending, ToWrite
    <3> QED
      BY <1>2, <2>2, <3>1
  <2> QED
    BY <2>1, <2>2
<1> QED
  BY <1>1, <1>6, <1>7, <1>9, <1>10, Commands

\* The other commands leave nothing to be written.
LEMMA OtherCommands ==
  ASSUME SInv, DoSet \/ DoLevel \/ DoClose \/ DoNothing
  PROVE  SInv'
<1>1. pc = "line" /\ pc' = "post" /\ LogInv /\ shell \in Shell /\ answered' = answered
  BY DEF DoSet, DoLevel, DoClose, DoNothing, Line, Done, SInv, LogInv, Talking
<1>2. shell.logging => shell.response = None
  BY <1>1, Zenon DEF LogInv
<1>3. SUFFICES /\ shell' \in Shell /\ shell'.log = shell.log /\ shell'.lines = shell.lines
               /\ shell'.prompt = target' /\ (shell'.logging => shell.logging)
               /\ shell'.response = shell.response
  <2>1. ~ToWrite'
    BY <1>2, <1>3, Zenon DEF ToWrite
  <2>2. Pending' = {}
    BY <2>1 DEF Pending
  <2> QED
    BY <1>1, <1>3, <2>1, <2>2, Commands
<1>4. CASE DoSet
  <2>1. shell.typed \in Typed /\ shell.typed.op = "set" /\ shell.set \in [Level -> Numbers] /\ shell.level \in Level
    BY <1>1, <1>4 DEF DoSet, Line, Shell
  <2>2. shell.typed.arg \in Numbers
    BY <2>1 DEF Typed
  <2>3. PICK f : f = [shell.set EXCEPT ![shell.level] = shell.typed.arg]
    OBVIOUS
  <2>4. f \in [Level -> Numbers] /\ f[shell.level] \in Numbers
    BY <2>1, <2>2, <2>3
  <2>5. shell' = [shell EXCEPT !.set = f, !.prompt = <<shell.level, f[shell.level]>>]
    BY <1>4, <2>3 DEF DoSet, Prompt
  <2>6. /\ shell' \in Shell /\ shell'.log = shell.log /\ shell'.lines = shell.lines
        /\ shell'.prompt = <<shell.level, f[shell.level]>> /\ shell'.set = f /\ shell'.level = shell.level
        /\ shell'.logging = shell.logging /\ shell'.response = shell.response
    BY <1>1, <2>1, <2>4, <2>5 DEF Shell, Target
  <2> QED
    BY <2>6 DEF target
<1>5. CASE DoLevel
  <2>1. shell.typed \in Typed /\ shell.typed.op = "level" /\ shell.set \in [Level -> Numbers]
    BY <1>1, <1>5 DEF DoLevel, Line, Shell
  <2>2. PICK l \in Level : l = shell.typed.arg
    BY <2>1 DEF Typed
  <2>3. shell' = [shell EXCEPT !.level = l, !.prompt = <<l, shell.set[l]>>]
    BY <1>5, <2>2 DEF DoLevel, Prompt
  <2>4. /\ shell' \in Shell /\ shell'.log = shell.log /\ shell'.lines = shell.lines
        /\ shell'.prompt = <<l, shell.set[l]>> /\ shell'.set = shell.set /\ shell'.level = l
        /\ shell'.logging = shell.logging /\ shell'.response = shell.response
    BY <1>1, <2>1, <2>2, <2>3 DEF Shell, Target
  <2> QED
    BY <2>4 DEF target
<1>6. CASE DoClose
  <2>1. shell' = [shell EXCEPT !.logging = FALSE]
    BY <1>6 DEF DoClose
  <2>2. /\ shell' \in Shell /\ shell'.log = shell.log /\ shell'.lines = shell.lines
        /\ shell'.prompt = shell.prompt /\ shell'.set = shell.set /\ shell'.level = shell.level
        /\ shell'.logging = FALSE /\ shell'.response = shell.response
    BY <1>1, <2>1 DEF Shell
  <2> QED
    BY <1>1, <2>2 DEF target, LogInv
<1>7. CASE DoNothing
  BY <1>1, <1>7 DEF DoNothing, target, LogInv
<1> QED
  BY <1>4, <1>5, <1>6, <1>7

\* postcmd writes the answers behind the prompt of their line.
LEMMA Posted ==
  ASSUME SInv, Post, pc' = "prompt"
  PROVE  SInv'
<1>1. pc = "post" /\ LogInv /\ shell \in Shell /\ shell.typed.op # "quit"
  BY DEF Post, SInv, LogInv, Talking, ToRestore
<1>2. /\ shell' = IF ToWrite THEN Written(shell) ELSE shell
      /\ answered' = answered
      /\ ~(ToWrite /\ shell.response.kind = "syntax")
  BY <1>1 DEF Post
<1>3. Pending' = {}
  BY DEF Pending
<1>4. CASE ToWrite
  <2>1. shell.response \in Response /\ shell.response.kind = "answers"
    BY <1>1, <1>2, <1>4 DEF ToWrite, Shell, Response
  <2>2. PICK r \in Entry : r = shell.response /\ r.kind = "answers"
    BY <2>1 DEF Response, Entry
  <2>3. PICK log \in Seq(Entry) : log = shell.log
    BY <1>1 DEF Shell
  <2>4. PICK n \in Nat : n = shell.lines
    BY <1>1 DEF Shell
  <2>5. Behind(log) /\ Rising(log) /\ UpTo(log, n) /\ EndsWith(log, PromptOf(r))
    BY <1>1, <1>4, <2>2, <2>3, <2>4 DEF LogInv
  <2>6. PICK l : l = Append(log, r)
    OBVIOUS
  <2>7. /\ l \in Seq(Entry) /\ Behind(l) /\ Rising(l) /\ UpTo(l, n)
        /\ Logged(l) = Logged(log) \cup {r.line}
    BY <2>2, <2>5, <2>6, AnswersWritten, Zenon
  <2>8. shell' = [shell EXCEPT !.log = l, !.response = None]
    BY <1>2, <1>4, <2>2, <2>3, <2>6 DEF Written
  <2>9. /\ shell' \in Shell /\ shell'.log = l /\ shell'.lines = n /\ shell'.response = None
        /\ shell'.prompt = shell.prompt /\ shell'.set = shell.set /\ shell'.level = shell.level
    BY <1>1, <2>4, <2>7, <2>8 DEF Shell
  <2>10. shell'.prompt = target'
    BY <1>1, <2>9 DEF target, LogInv
  <2>11. Pending = {r.line}
    BY <1>1, <1>4, <2>2 DEF Pending
  <2>12. /\ Behind(shell.log)' /\ Rising(shell.log)' /\ UpTo(shell.log, shell.lines)'
         /\ Logged(shell.log)' = Logged(l)
    BY <2>7, <2>9 DEF Behind, Rising, UpTo, Logged
  <2>13. answered' = Logged(shell.log)' \cup Pending'
    BY <1>1, <1>2, <1>3, <2>3, <2>7, <2>11, <2>12 DEF LogInv
  <2> QED
    BY <2>9, <2>10, <2>12, <2>13 DEF SInv, LogInv, Talking
<1>5. CASE ~ToWrite
  <2>1. shell' = shell /\ Pending = {} /\ (shell.logging => shell.response = None)
    BY <1>1, <1>2, <1>5 DEF Pending, ToWrite, Shell
  <2>2. /\ Behind(shell.log)' /\ Rising(shell.log)' /\ UpTo(shell.log, shell.lines)'
        /\ Logged(shell.log)' = Logged(shell.log) /\ target' = target
    BY <1>1, <2>1 DEF Behind, Rising, UpTo, Logged, LogInv, target
  <2> QED
    BY <1>1, <1>2, <1>3, <2>1, <2>2 DEF SInv, LogInv, Talking
<1> QED
  BY <1>4, <1>5

LEMMA SInvStep ==
  ASSUME NInv, SInv, [Next]_vars PROVE SInv'
<1>1. CASE pc' \notin Talking /\ shell' = None /\ answered' = {}
  BY <1>1 DEF SInv
<1>2. CASE pc' \notin Talking /\ pc \notin Talking /\ UNCHANGED <<shell, answered>>
  BY <1>2 DEF SInv
<1>3. CASE UNCHANGED vars
  BY <1>3 DEF vars, machine, SInv, LogInv, Talking, target, Behind, Rising, UpTo, Logged, EndsWith,
              PromptEntry, PromptOf, Pending, ToWrite
<1>4. ASSUME Early PROVE SInv'
  BY <1>4 DEF Early, SInv, Talking
<1>5. ASSUME ToRestore PROVE SInv'
  BY <1>5 DEF ToRestore, SInv, Talking
<1>6. CASE Works \/ Fails \/ Check \/ Quiet \/ Restored \/ \E m \in Mode : Start(m)
  BY <1>1, <1>2, <1>4, <1>6 DEF Works, Fails, Check, Quiet, Restored, Start, Talking
<1>7. CASE Command \/ Raises \/ Interrupt
  BY <1>4, <1>5, <1>7, Zenon DEF Command, Raises, Interrupt
<1>8. CASE Open
  <2>1. CASE Early
    BY <1>4, <2>1
  <2>2. CASE pc = "open" /\ pc' = "prompt" /\ (\E o \in BOOLEAN : shell' = CQShell(FirstLevel, FirstSet, o))
             /\ answered' = answered
    BY <2>2, Opened DEF SInv, Talking
  <2> QED
    BY <1>8, <2>1, <2>2 DEF Open
<1>9. CASE DoRun \/ DoSet \/ DoLevel \/ DoClose \/ DoNothing
  BY <1>9, Ran, OtherCommands, Zenon
<1>10. CASE Post
  BY <1>5, <1>10, Posted, Zenon DEF Post
<1>11. CASE \E c \in Typed : Enter(c)
  BY <1>11, Entered
<1> QED
  BY <1>3, <1>6, <1>7, <1>8, <1>9, <1>10, <1>11, Zenon DEF Next, Step

\* The log of a shell is true, for any levels and sets and any number of lines.
THEOREM LogCorrect == Spec => []LogIsTrue
<1>1. Init => NInv /\ SInv
  BY NInvInitially, SInvInitially
<1>2. NInv /\ SInv /\ [Next]_vars => NInv' /\ SInv'
  BY NInvStep, SInvStep
<1>3. NInv /\ SInv => LogIsTrue
  <2> SUFFICES ASSUME SInv, shell # None
               PROVE  LogIsTrue
    BY DEF LogIsTrue
  <2>1. LogInv
    BY DEF SInv
  <2>2. PICK log \in Seq(Entry) : log = shell.log
    BY <2>1 DEF LogInv, Shell
  <2>3. Behind(log) /\ Rising(log)
    BY <2>1, <2>2 DEF LogInv
  <2>4. ASSUME NEW k \in DOMAIN log, log[k].kind = "answers"
        PROVE  /\ k > 1 /\ log[k - 1] = [log[k] EXCEPT !.kind = "prompt"]
               /\ \A j \in 1..(k - 1) : log[j].kind = "answers" => log[j].line # log[k].line
    <3>1. k > 1 /\ log[k - 1] = [log[k] EXCEPT !.kind = "prompt"]
      BY <2>3, <2>4, Zenon DEF Behind, PromptOf
    <3>2. \A j \in 1..(k - 1) : log[j].kind = "answers" => log[j].line # log[k].line
      BY <2>3, <2>4, Once, Zenon
    <3> QED
      BY <3>1, <3>2
  <2>5. ASSUME pc = "prompt"
        PROVE  Logged(log) = answered
    <3>1. Pending = {}
      BY <2>5 DEF Pending
    <3> QED
      BY <2>1, <2>2, <3>1 DEF LogInv
  <2>6. ASSUME NEW k \in DOMAIN shell.log, shell.log[k].kind = "answers"
        PROVE  /\ k > 1 /\ shell.log[k - 1] = [shell.log[k] EXCEPT !.kind = "prompt"]
               /\ \A j \in 1..(k - 1) :
                    shell.log[j].kind = "answers" => shell.log[j].line # shell.log[k].line
    BY <2>2, <2>4, <2>6
  <2>7. pc = "prompt" =>
          {shell.log[k].line : k \in {j \in DOMAIN shell.log : shell.log[j].kind = "answers"}} = answered
    BY <2>2, <2>5 DEF Logged
  <2> QED
    BY <2>6, <2>7 DEF LogIsTrue
<1> QED
  BY <1>1, <1>2, <1>3, PTL DEF Spec
=============================================================================
