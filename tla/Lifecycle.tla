------------------------------ MODULE Lifecycle ------------------------------
(***************************************************************************)
(* cachequery_init and cachequery_exit: what the module acquires when it   *)
(* is loaded, any part of which can be refused, what it gives back when it *)
(* is unloaded or the load is undone, and the clients that use a file of   *)
(* sysfs from the moment it appears.                                       *)
(***************************************************************************)
EXTENDS Naturals, Sequences, FiniteSets

CONSTANTS
  Count,          \* files of each family: the sets of a level, the options
  Client, NoFile  \* processes that use the files; none in use

ENOMEM == 12     \* or another error, without its sign
Family == {"l3", "l2", "l1", "config"}

ASSUME LifecycleAssumption == Count \in [Family -> Nat \ {0}]

File == UNION {{f} \X (0..Count[f]-1) : f \in Family}

\* Init is a straight line, so are the labels below its success, which a
\* failed load falls through, and exit.  Each entry is a resource, or the
\* family whose files a loop creates or destroys.  "group" is the empty
\* attribute group, "lists" the eviction sets, "table" config_objs.
InitOrder == <<"root", "group", "pool3", "pool2", "pool1", "lists",
               "kset3", "kset2", "kset1", "ksetC", "l3", "l2", "l1", "table", "config">>
BeachOrder == <<"config", "l1", "l2", "l3", "ksetC", "kset1", "kset2", "kset3",
                "lists", "table", "pool1", "pool2", "pool3", "root">>
ExitOrder == <<"lists", "pool3", "pool2", "pool1", "l3", "l2", "l1", "config",
               "kset3", "kset2", "kset1", "ksetC", "root">>

Single == {"root", "pool3", "pool2", "pool1", "lists",
           "kset3", "kset2", "kset1", "ksetC", "table"}

\* Where a load that is refused something starts to fall.
\* Mutant: pool1 is refused and pool2 kept.
Beach_Low(x) ==
  CASE x \in {"group", "pool3"} -> "root"
    [] x \in {"pool2", "pool1"} -> "pool3"
    [] x = "kset3" -> "lists"
    [] x = "kset2" -> "kset3"
    [] x = "kset1" -> "kset2"
    [] x = "ksetC" -> "kset1"
    [] x = "table" -> "l1"
    [] OTHER -> x
Beach(x) ==
  CASE x \in {"group", "pool3"} -> "root"
    [] x = "pool2" -> "pool3"
    [] x = "pool1" -> "pool2"
    [] x = "kset3" -> "lists"
    [] x = "kset2" -> "kset3"
    [] x = "kset1" -> "kset2"
    [] x = "ksetC" -> "kset1"
    [] x = "table" -> "l1"
    [] OTHER -> x

\* The refusals that set ret; after the others it is still what
\* sysfs_create_group returned, 0.
Sets == {"root", "group", "pool3", "pool2", "pool1", "table"}

VARIABLES
  pc,             \* absent | init | undo | exit | loaded | failed | unloaded
  at,             \* the position in the order of init, undo or exit
  i, j,           \* the loop counters
  phase,          \* of a file being destroyed: code | put | drain
  ret,            \* what init returns: 0 or an error
  held,           \* the single resources held
  visible,        \* the files in sysfs
  code,           \* the files of cache sets that own code pages
  uses,           \* the file each client is in
  late            \* the files that got code in the course of their destruction

control == <<pc, at, i, j, phase, ret>>
vars == <<control, held, visible, code, uses, late>>

Order == IF pc = "init" THEN InitOrder ELSE IF pc = "undo" THEN BeachOrder ELSE ExitOrder
Here == Order[at]
Enter(mode, n) == pc' = mode /\ at' = n /\ j' = 0 /\ phase' = "code"

-----------------------------------------------------------------------------
Load ==
  /\ pc = "absent"
  /\ Enter("init", 1) /\ i' = 0 /\ ret' = 0
  /\ UNCHANGED <<held, visible, code, uses, late>>

\* i stays what the last loop made it.
Advance ==
  /\ pc' = IF at = Len(Order) THEN "loaded" ELSE "init"
  /\ at' = IF at = Len(Order) THEN 1 ELSE at + 1
  /\ UNCHANGED <<j, phase, ret>>

\* A resource is granted.  The loop after it starts at 0.
Take ==
  /\ pc = "init" /\ Here \in Single \cup {"group"}
  /\ held' = held \cup ({Here} \cap Single)
  /\ Advance /\ i' = 0
  /\ UNCHANGED <<visible, code, uses, late>>

\* kobject_init_and_add makes the file visible at once.
Create ==
  /\ pc = "init" /\ Here \in Family /\ i < Count[Here]
  /\ visible' = visible \cup {<<Here, i>>}
  /\ i' = i + 1
  /\ UNCHANGED <<pc, at, j, phase, ret, held, code, uses, late>>

Created ==
  /\ pc = "init" /\ Here \in Family /\ i = Count[Here]
  /\ Advance /\ i' = IF at < Len(Order) /\ Order[at+1] = "table" THEN i ELSE 0
  /\ UNCHANGED <<held, visible, code, uses, late>>

\* A resource or a file is refused.  Eviction sets are not checked.
Refuse ==
  /\ pc = "init" /\ Here # "lists" /\ (Here \in Family => i < Count[Here])
  /\ ret' = IF Here \in Sets THEN ENOMEM ELSE ret
  /\ IF Here = "root" THEN Enter("failed", 1)
     ELSE \E n \in 1..Len(BeachOrder) : BeachOrder[n] = Beach(Here) /\ Enter("undo", n)
  /\ UNCHANGED <<i, held, visible, code, uses, late>>

\* rmmod, of a module whose load returned 0.
Unload ==
  /\ pc = "loaded"
  /\ Enter("exit", 1)
  /\ UNCHANGED <<i, ret, held, visible, code, uses, late>>

\* The next label.  The loop over the files of one family is entered with i
\* at their number, but for the loop that an unfinished one went to.
\* Mutant: i is not set between the loops of the undo.
Bound_Kept(x) == IF pc = "exit" /\ x \in Family THEN Count[x] ELSE i
Bound(x) == IF x \in Family THEN Count[x] ELSE i

Proceed ==
  IF at < Len(Order) THEN Enter(pc, at + 1) /\ i' = Bound(Order[at+1])
  ELSE /\ Enter(IF pc = "exit" THEN "unloaded" ELSE IF ret = 0 THEN "loaded" ELSE "failed", 1)
       /\ UNCHANGED i

\* vfree, kset_unregister, kobject_put, and kfree of the eviction sets.
Release ==
  /\ pc \in {"undo", "exit"} /\ Here \in Single
  /\ held' = held \ {Here}
  /\ Proceed
  /\ UNCHANGED <<ret, visible, code, uses, late>>

\* destroy_cacheset_obj and destroy_config_obj: the code is freed, then the
\* file is withdrawn, and kobject_put returns when no client is in it.
Doomed == <<Here, j>>
Destroying == pc \in {"undo", "exit"} /\ Here \in Family

\* Files of the loop that are left.   Mutant: j <= i.
More_Inclusive == j <= i
More == j < i

\* Mutant: the code is not freed.
FreeCode_Not == UNCHANGED code
FreeCode == code' = code \ {Doomed}

DropCode ==
  /\ Destroying /\ More /\ phase = "code"
  /\ FreeCode
  /\ phase' = "put"
  /\ UNCHANGED <<pc, at, i, j, ret, held, visible, uses, late>>

Withdraw ==
  /\ Destroying /\ phase = "put"
  /\ visible' = visible \ {Doomed}
  /\ phase' = "drain"
  /\ UNCHANGED <<pc, at, i, j, ret, held, code, uses, late>>

\* Mutant: kobject_put does not wait for the clients.
Drained_Always(f) == TRUE
Drained(f) == \A c \in Client : uses[c] # f

\* Mutant: the loop does not go on.
Following_Same == j
Following == j + 1

Drain ==
  /\ Destroying /\ phase = "drain" /\ Drained(Doomed)
  /\ j' = Following /\ phase' = "code"
  /\ UNCHANGED <<pc, at, i, ret, held, visible, code, uses, late>>

Destroyed ==
  /\ Destroying /\ phase = "code" /\ ~More
  /\ Proceed
  /\ UNCHANGED <<ret, held, visible, code, uses, late>>

-----------------------------------------------------------------------------
\* A client reads or writes a file.
Open(c, f) ==
  /\ uses[c] = NoFile /\ f \in visible
  /\ uses' = [uses EXCEPT ![c] = f]
  /\ UNCHANGED <<control, held, visible, code, late>>

\* A read of `run` generates the code of a set, a write frees it.
Generate(c) ==
  /\ uses[c] # NoFile /\ uses[c][1] # "config"
  /\ code' = code \cup {uses[c]}
  /\ late' = IF Destroying /\ phase # "code" /\ uses[c] = Doomed THEN late \cup {uses[c]} ELSE late
  /\ UNCHANGED <<control, held, visible, uses>>

Drop(c) ==
  /\ uses[c] # NoFile
  /\ code' = code \ {uses[c]}
  /\ UNCHANGED <<control, held, visible, uses, late>>

Close(c) ==
  /\ uses[c] # NoFile
  /\ uses' = [uses EXCEPT ![c] = NoFile]
  /\ UNCHANGED <<control, held, visible, code, late>>

-----------------------------------------------------------------------------
Init ==
  /\ pc = "absent" /\ at = 1 /\ i = 0 /\ j = 0 /\ phase = "code" /\ ret = 0
  /\ held = {} /\ visible = {} /\ code = {} /\ late = {}
  /\ uses = [c \in Client |-> NoFile]

Module == Load \/ Take \/ Create \/ Created \/ Refuse
          \/ Release \/ DropCode \/ Withdraw \/ Drain \/ Destroyed

Next ==
  \/ Module \/ Unload
  \/ \E c \in Client : Generate(c) \/ Drop(c) \/ Close(c) \/ \E f \in File : Open(c, f)

\* The kernel runs insmod and rmmod to their end, and a call on a file returns.
Fairness == WF_vars(Module) /\ \A c \in Client : WF_vars(Close(c))
Spec == Init /\ [][Next]_vars /\ Fairness

-----------------------------------------------------------------------------
TypeOK ==
  /\ pc \in {"absent", "init", "undo", "exit", "loaded", "failed", "unloaded"}
  /\ at \in 1..Len(Order) /\ phase \in {"code", "put", "drain"}
  /\ i \in Nat /\ j \in 0..i \cup {0}
  /\ ret \in {0, ENOMEM}
  /\ held \subseteq Single /\ visible \subseteq File
  /\ code \subseteq {f \in File : f[1] # "config"} /\ late \subseteq File
  /\ uses \in [Client -> File \cup {NoFile}]

Everything == held = Single /\ visible = File
Nothing == held = {} /\ visible = {}

\* Whatever is refused, and whenever, a load keeps all or nothing, and an
\* unload leaves nothing but config_objs (main.c:793-833, 836-864).
AllOrNothing ==
  /\ pc \in {"failed", "loaded"} => Everything \/ Nothing
  /\ pc = "unloaded" => held \subseteq {"table"} /\ visible = {}

\* Nothing is given back twice, nor destroyed twice, unless a load that failed
\* returned 0 and is unloaded: the labels release what was taken, the counter
\* i what the loops made (main.c:793-807).  vfree(NULL) is allowed.
ReleasedOnce ==
  (pc = "undo" \/ (pc = "exit" /\ "root" \in held)) =>
    /\ Here \in Single => Here \in held \/ (Here = "table" /\ pc = "undo")
    /\ Destroying /\ j < i /\ phase # "drain" => Doomed \in visible

\* What a client in a file of a cache set works with is there from the moment the file
\* appears, though the load may be undone under it, until the client has left, though
\* the module may be unloaded meanwhile: what it lacks is exactly what exit, which
\* frees eviction sets and pools before it removes the files, has freed so far, and
\* nobody is in a file when the module is gone (main.c:797-830, 839-856).
Needed == {"pool3", "pool2", "pool1", "lists"}
FreedByExit == IF pc = "exit" THEN {ExitOrder[k] : k \in 1..at-1} ELSE {}

OnlyExitTakesPools ==
  (\E c \in Client : uses[c] # NoFile /\ uses[c][1] # "config") =>
    Needed \ held = Needed \cap FreedByExit

\* Code outlives its file only if a client generates it between the two halves
\* of destroy_cacheset_obj (main.c:324-328).
NoOrphanCode == code \subseteq visible \cup late

\* insmod and rmmod return: they wait for clients, never for ever.
Ends == pc \in {"init", "undo", "exit"} ~> pc \in {"loaded", "failed", "unloaded"}
=============================================================================
