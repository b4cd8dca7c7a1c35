------------------------------ MODULE Session -------------------------------
(***************************************************************************)
(* cachequery.py around its commands: a session quiets the machine, runs   *)
(* one command, the first line of a file or the shell with its log, and    *)
(* makes the machine normal again, unless it ends before that.  The state  *)
(* of the machine outlives a session; the ini file stays the same.         *)
(***************************************************************************)
EXTENDS Naturals, Sequences, FiniteSets

CONSTANTS
  Cpu, Boot,        \* processors, and the one that cannot be taken offline
  Inis,             \* the sets of noise options that are tried
  Level, Numbers,   \* the levels, and the set numbers that are tried
  FirstLevel, FirstSet, \* those of the ini file and the options: a level, a number for each
  None,
  MaxLines          \* bound: lines typed in a session

Option == {"ht", "prefetch", "turbo", "freq"}
Part == {"prefetch", "turbo", "min", "max", "governor"}
Mode == {"single", "batch", "interactive"}

ASSUME SessionAssumption ==
  /\ Boot \in Cpu /\ Inis \subseteq SUBSET Option
  /\ FirstLevel \in Level /\ FirstSet \in [Level -> Numbers]
  /\ None \notin [kind : {"answers", "syntax"}, target : Level \X Numbers, line : Nat]

VARIABLES
  ini,              \* [System]: the options that are on
  online,           \* processors that are
  changed,          \* the processors with each setting changed
  pc, mode,
  todo,             \* groups of commands to the system, left to be run
  ended,            \* how the last session ended: by main, early, or not yet
  spoilt,           \* taking offline or restoring has failed once (a history)
  shell,            \* the state of the shell, None if there is none
  answered          \* lines answered while the log was open (a history)

machine == <<online, changed, spoilt>>
vars == <<ini, machine, pc, mode, todo, ended, shell, answered>>

\* level and set are the settings, prompt their text; log is what this session
\* wrote to its file; typed the command under way, last cmd.Cmd's lastcmd.
Nothing == [op |-> "none", arg |-> None]
CQShell(l, f, opened) ==
  [level |-> l, set |-> f, prompt |-> <<l, f[l]>>, logging |-> opened, log |-> <<>>,
   typed |-> Nothing, last |-> Nothing, lines |-> 0, response |-> None]

\* The session ends without the rest of main.
Early == pc' = "out" /\ ended' = "early" /\ todo' = <<>> /\ shell' = None /\ answered' = {}

-----------------------------------------------------------------------------
\* The groups of an option's commands; one that fails ends its group.  The
\* processors go offline first and come back last.   Mutant: offline last.
Of(o) == IF o = "freq" THEN <<"min", "max", "governor">> ELSE <<o>>
Asked(o) == IF o \in ini THEN <<Of(o)>> ELSE <<>>
Quieting_Late == Asked("prefetch") \o Asked("turbo") \o Asked("freq") \o Asked("ht")
Quieting == Asked("ht") \o Asked("prefetch") \o Asked("turbo") \o Asked("freq")
Restoring == Asked("prefetch") \o Asked("turbo") \o Asked("freq") \o Asked("ht")

\* A command works on all processors that are online, or fails on all but some.
Effect(part, where) ==
  LET on == pc = "quiet" IN
  IF part = "ht"
  THEN online' = (IF on THEN online \ (where \ {Boot}) ELSE online \cup where) /\ UNCHANGED changed
  ELSE changed' = [changed EXCEPT ![part] = IF on THEN @ \cup where ELSE @ \ where] /\ UNCHANGED online
Reach(part) == IF part = "ht" THEN Cpu ELSE online

Works ==
  /\ pc \in {"quiet", "restore"} /\ todo # <<>>
  /\ Effect(todo[1][1], Reach(todo[1][1]))
  /\ todo' = IF Len(todo[1]) > 1 THEN <<Tail(todo[1])>> \o Tail(todo) ELSE Tail(todo)
  /\ UNCHANGED <<ini, spoilt, pc, mode, ended, shell, answered>>

\* The error is printed and the next group begun.   Mutant: all begins again.
Given_Again == IF pc = "quiet" THEN Quieting ELSE Restoring
Given_Up == Tail(todo)

Fails ==
  /\ pc \in {"quiet", "restore"} /\ todo # <<>>
  /\ \E some \in SUBSET Reach(todo[1][1]) : Effect(todo[1][1], some)
  /\ todo' = Given_Up
  /\ spoilt' = (spoilt \/ pc = "restore" \/ todo[1][1] = "ht")
  /\ UNCHANGED <<ini, pc, mode, ended, shell, answered>>

-----------------------------------------------------------------------------
\* main up to the cache, and check_system with its two modprobe.
Start(m) ==
  /\ pc = "out"
  /\ pc' = "check" /\ mode' = m /\ ended' = "not yet"
  /\ UNCHANGED <<ini, machine, todo, shell, answered>>

Check ==
  /\ pc = "check"
  /\ \/ pc' = "quiet" /\ todo' = Quieting /\ UNCHANGED <<ended, shell, answered>>
     \/ Early
  /\ UNCHANGED <<ini, machine, mode>>

Quiet ==
  /\ pc = "quiet" /\ todo = <<>>
  /\ pc' = IF mode = "interactive" THEN "open" ELSE "command"
  /\ UNCHANGED <<ini, machine, mode, todo, ended, shell, answered>>

ToRestore ==
  pc' = "restore" /\ todo' = Restoring /\ shell' = None /\ answered' = {} /\ UNCHANGED ended

\* The command of the arguments or the first line of the file: it returns, with
\* answers or a syntax error, or it raises, which batch catches; without arguments
\* there is the usage and an exit.
Command ==
  /\ pc = "command"
  /\ ToRestore \/ (mode = "single" /\ Early)
  /\ UNCHANGED <<ini, machine, mode>>

\* The shell, with its log file open if the settings name one.
Open ==
  /\ pc = "open"
  /\ \/ /\ pc' = "prompt"
        /\ \E o \in BOOLEAN : shell' = CQShell(FirstLevel, FirstSet, o)
        /\ UNCHANGED <<todo, ended, answered>>
     \/ Early
  /\ UNCHANGED <<ini, machine, mode>>

\* An interrupt: batch catches it in its command.
Interrupt ==
  /\ pc # "out"
  /\ IF mode = "batch" /\ pc = "command" THEN ToRestore ELSE Early
  /\ UNCHANGED <<ini, machine, mode>>

Restored ==
  /\ pc = "restore" /\ todo = <<>>
  /\ pc' = "out" /\ ended' = "main"
  /\ UNCHANGED <<ini, machine, mode, todo, shell, answered>>

-----------------------------------------------------------------------------
Typed == [op : {"run", "unlog", "log", "quit", "none"}, arg : {None}]
         \cup [op : {"level"}, arg : Level] \cup [op : {"set"}, arg : Numbers]

target == <<shell.level, shell.set[shell.level]>>
Line(op) == pc = "line" /\ shell.typed.op = op
Done == pc' = "post" /\ UNCHANGED <<ini, machine, mode, todo, ended>>

\* A line and precmd, which writes the prompt; an empty line is the last command
\* again.
Enter(c) ==
  /\ pc = "prompt"
  /\ shell.lines < MaxLines \/ c.op = "quit"
  /\ pc' = "line"
  /\ LET t == IF c = Nothing THEN shell.last ELSE c
         k == shell.lines + 1
     IN shell' = [shell EXCEPT !.typed = t, !.last = t, !.lines = k,
          !.log = IF shell.logging
                  THEN Append(@, [kind |-> "prompt", target |-> shell.prompt, line |-> k])
                  ELSE @]
  /\ UNCHANGED <<ini, machine, mode, todo, ended, answered>>

\* r, rr, R or a line without a command: answers or a syntax error, which is None
\* in their place.
DoRun ==
  /\ Line("run")
  /\ \E k \in {"answers", "syntax"} :
       /\ shell' = [shell EXCEPT !.response = [kind |-> k, target |-> target, line |-> shell.lines]]
       /\ answered' = IF shell.logging /\ k = "answers" THEN answered \cup {shell.lines} ELSE answered
  /\ Done

\* Both refresh the prompt.   Mutant: it stays that of the last level.
Prompt_Stale(l, f) == <<shell.level, f[shell.level]>>
Prompt(l, f) == <<l, f[l]>>

\* A number that is no set of the level is found out by a run only.
DoSet ==
  /\ Line("set")
  /\ LET f == [shell.set EXCEPT ![shell.level] = shell.typed.arg]
     IN shell' = [shell EXCEPT !.set = f, !.prompt = Prompt(shell.level, f)]
  /\ Done /\ UNCHANGED answered

DoLevel ==
  /\ Line("level")
  /\ LET l == shell.typed.arg
     IN shell' = [shell EXCEPT !.level = l, !.prompt = Prompt(l, shell.set)]
  /\ Done /\ UNCHANGED answered

\* close, for unlog, q and EOF.
DoClose ==
  /\ Line("unlog") \/ Line("quit")
  /\ shell' = [shell EXCEPT !.logging = FALSE]
  /\ Done /\ UNCHANGED answered

\* An empty line before any command, and log with a file open.
DoNothing ==
  /\ Line("none") \/ (Line("log") /\ shell.logging)
  /\ Done /\ UNCHANGED <<shell, answered>>

\* Exceptions, which nothing catches: of a file a run accesses; of do_log, which
\* writes the header of the file it has opened to a name that does not exist; of
\* postcmd, which iterates over the None of a syntax error.
ToWrite == shell.logging /\ shell.response # None
Raises ==
  /\ \/ Line("run")
     \/ Line("log") /\ ~shell.logging
     \/ pc = "post" /\ ToWrite /\ shell.response.kind = "syntax"
  /\ Early
  /\ UNCHANGED <<ini, machine, mode>>

\* postcmd writes the answers of the response.
Written(s) == [s EXCEPT !.log = Append(@, s.response), !.response = None]

Post ==
  /\ pc = "post" /\ ~(ToWrite /\ shell.response.kind = "syntax")
  /\ IF shell.typed.op = "quit" THEN ToRestore
     ELSE /\ pc' = "prompt"
          /\ shell' = IF ToWrite THEN Written(shell) ELSE shell
          /\ UNCHANGED <<todo, ended, answered>>
  /\ UNCHANGED <<ini, machine, mode>>

-----------------------------------------------------------------------------
Init ==
  /\ ini \in Inis /\ online = Cpu /\ changed = [p \in Part |-> {}]
  /\ spoilt = FALSE
  /\ pc = "out" /\ mode = "single" /\ todo = <<>> /\ ended = "not yet"
  /\ shell = None /\ answered = {}

Step ==
  \/ Works \/ Fails \/ Check \/ Quiet \/ Command \/ Open \/ Restored
  \/ DoRun \/ DoSet \/ DoLevel \/ DoClose \/ DoNothing \/ Raises \/ Post

Next ==
  \/ Step \/ Interrupt
  \/ \E m \in Mode : Start(m)
  \/ \E c \in Typed : Enter(c)

\* The interpreter runs, and the commands it starts return.
Spec == Init /\ [][Next]_vars /\ WF_vars(Step)

-----------------------------------------------------------------------------
\* A session that main ended leaves every option of the ini file as it was, on
\* every processor, whatever sessions that ended early left before it, as long as
\* the processors were taken offline and the settings restored without a failure
\* (cachequery.py:60-101, 553).
Normal == online = Cpu /\ \A p \in Part : changed[p] = {}
NoiseRestored == ended = "main" /\ ~spoilt => Normal

\* The log has the answers of every line answered while it was open, once, and
\* behind that line's prompt, which names the level and set they are of
\* (cachequery.py:366-383, 409-420).
LogIsTrue == shell # None =>
  LET log == shell.log IN
  /\ \A k \in DOMAIN log : log[k].kind = "answers" =>
       /\ k > 1 /\ log[k - 1] = [log[k] EXCEPT !.kind = "prompt"]
       /\ \A j \in 1..(k - 1) : log[j].kind = "answers" => log[j].line # log[k].line
  /\ pc = "prompt" => {log[k].line : k \in {j \in DOMAIN log : log[j].kind = "answers"}} = answered

\* A session does not hang: from anywhere it comes to the prompt or its end, commands
\* to the system that fail included (cachequery.py:60-101, 527-553).
ComesToAnEnd == pc \notin {"out", "prompt"} ~> pc \in {"out", "prompt"}
=============================================================================
