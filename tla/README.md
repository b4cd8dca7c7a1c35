# CacheQuery in TLA+

CacheQuery measures, with generated machine code, which accesses to the blocks of
one set of an Intel cache hit. A Linux kernel module (`src/src/`) offers one pair
of files per cache set in sysfs; a Python program (`src/tool/`) is its shell. This
directory holds models of the parts of that program that have a state of their
own, the TLC configurations that check them, and proofs of some of what is
checked.

## The system

| component | source | state | operations |
| --- | --- | --- | --- |
| measurement loop of a read | `src/src/main.c` `val_show` | trace, repetition, result word; `RSI` of the generated code | execute, count, abort |
| code generator | `src/src/parser.c` `generate_code` | static tables `query_blocks`, `banned_*`; the code buffer | assign names, prime, emit each element, finish or give up |
| run and code files of a set | `main.c` `cacheset_store`, `val_show`, `code_show`; `parser.c` | `kobj->lexer`, `kobj->code` | write a query, read counts, read code |
| lists of congruent blocks | `src/src/lists.c` | a doubly linked list per set and level | fill, shuffle |
| eviction sets | `lists.c` `init_evictionsets`, `find_l*_eviction_set`, `clean_l*_set` | against L1 one per list, shared by its blocks; against L2 one per block, made when first needed | find, share, free |
| loading and unloading | `main.c` `cachequery_init`, `cachequery_exit` | pools, ksets, files, `config_objs` | acquire in order, undo from a label, give back |
| configuration | `src/src/config.c`, `main.c` | global `conf`, no lock | one file per option |
| calibration, histograms | `main.c` `calibrate`, `src/src/histogram.c` | the histogram `cal`, shared by all calls; thresholds of one read | in every read whose thresholds are 0 |
| placement of code pages | `parser.c` `allocate_code_pages` | candidate pages | retry until the pages do not share the set |
| lexer of queries | `parser.c` `read_block`, `str_to_num` | position in the text | next block |
| performance counters | `src/src/msrdrv.c`, `src/include/msrdrv.h` | model-specific registers | program, stop |
| address functions | `src/src/cache.c`, headers | none | set and slice of an address |
| command line, shell, answer cache | `src/tool/cachequery.py` | level, set, options, LevelDB, session log | commands |
| MemBlockLang compiler | `src/tool/cachequery.py` | none | expand a line into queries |
| control of noise | `cachequery.py` | prefetchers, frequency, processors that are off | disable, restore |

How they meet:

* The shell opens `/sys/kernel/cachequery/<level>_sets/<set>/run` for every query,
  writes it, closes, opens and reads. It is the only client the authors had in mind,
  but any process may use the files.
* A write of `run` replaces the parsed query and frees the code of the set. The first
  read generates code and keeps it; every read runs it. `code` copies it out.
  sysfs serialises the calls on one open file and nothing else; the module
  has no lock.
* `generate_code` works in tables that are `static`, hence shared by all sets, and
  takes its blocks from the list of the set and from eviction sets that hang on the
  list's head.
* The generated code returns one word, which `val_show` unpacks.
* The options are global variables which each function reads when it needs them.
* A read whose thresholds are not configured calibrates them first, with code and pages of
  its own, in a histogram all reads share; then it runs the code of the query. Around every
  run it programs and stops the counter of the processor it happens to be on.
* The lists of L3 get their eviction sets against L2 from the first read or calibration that
  needs them.
* A session of the shell changes the machine (prefetchers, frequency, processors) before its
  first command and changes it back at its end, if it gets there.
* Loading creates the files one family after the other: the first are in use while the
  last are made, or while a failed load is undone.

What makes it hard: two processes in the files of a set; an option that changes
between two reads of it; code that outlives the query it was compiled for, or
its failed compilation; tables that outlive a query; a word of 64 bits one
value of which is an error code; loads that must evict a block from two levels and
leave a third alone; a dozen allocations with a clean-up each; an answer
cache whose key says less than the answer depends on; eviction sets made by whoever comes
first; a call that can be moved to another processor between two steps that must be on one;
a session that may end at any point between changing the machine and changing it back. Each of these is listed, at its
line, in `PROJECT.json` under `hazards`, with the properties about it.

What makes each component correct:

* loop: the numbers printed are the hits of the accesses marked `?`, in order; the
  error code means an error;
* generator: names stand for distinct blocks of the target set; every marked access
  gets a bit; the code measures the query on the target set and nothing else;
* files of a set: the answer is to the query written last; nothing freed is run or
  read; no pages are lost; a call returns;
* lists: links stay inverse of each other; shuffling permutes, and leaves the head;
* eviction sets: a call finds them whole, whoever made them; every buffer is freed once;
* calibration and counters: a threshold is the least time of its own calibration and in the
  unit of the times compared with it; a hit threshold is timed on a hit of the level; the
  counter counts what the code reads, and stops;
* code pages: none is lost, none of their lines is where the query is measured;
* compiler and lexer: the kernel's list is the query the line means, and of any text it is
  what the text spells, up to the first error;
* session: after it the machine is as it was; its log tells what was answered, and for which set;
* loading: all or nothing; nothing is given back twice; only exit takes pools from clients;
* shell: what is printed after a query, at a prompt, measures that query on the set of
  that prompt.

## The modules

Each module translates the code it names, and says in comments where a definition
is coarser. The definitions marked `Mutant:` in comments are plausible
errors of the code; no specification uses them, they show what a property is able to
notice.

### TraceLoop: `val_show` from the warm-up on

State: `pc` (in the generated code, or back from it), `rsi` and `retmask` as
functions from bit numbers to bits, `trace`, `rep`, `asks`; and two history variables,
the times `seen` in this execution and the `hits` so far. Actions: `Show`
enters the call; `Access`, `Exception` and `Return` are what the code does with each
profiled access; `WarmedUp`, `Abort` and `Tally` are the body and the test of the loop.
Abstracted: addresses, counters, `only_one_time` (whose result is a time, not a word
of bits). The code between `goto err` and the end of that block (`main.c:626-628`) is
unreachable, so `fails` stays 0.

### CodeGen, CodeMeaning: `generate_code`, and the code of `calibrate`

State: the position in the query, `next` in the list of the set, the table
`blockOf`, the three tables of banned sets, the eviction sets, the
code so far, `asks`. One action per phase: `Begin` (or `NoPages`) resets the tables and
places the code, `Known`, `Choose` and `Exhausted` assign blocks, `Prime` emits the
prologue, `Access` and `Flush` an element each, `End` the epilogue; every
emission may find the pages full, which ends in `err`. `Free` is the write that follows.
An instruction is an operation and the set of blocks it concerns. The
random choice of a block and of eviction sets is a quantifier.
`CodeMeaning` gives the instructions a meaning: an LRU set with `Ways` ways for
the target and, for the closer levels, the blocks they hold. `Calibrate` is the code of
`calibrate`, with the eviction code of its own and without bans: its one timed load must be
served by the level for a hit threshold and from beyond it for a miss threshold. The real replacement
policy is what CacheQuery is used to find out; LRU is one for which the answer can be
computed and depends on every access.

### CacheSet, QueryFile: the files of one set

State: where each client is in its call, what the call keeps (the text, the
pointer `run`, the repetition, `i`), the parsed query, the fields of `kobj->code`,
the pages and their content, `only_one_time`. A step ends where
the call touches what another may have changed: `WriteRun` and `Parse` are a store;
`ReadRun`, `CheckLexer`, `DropCode`, `Allocate` or `NoPages`, `Place`, `Emit` or `GiveUp`,
`SetAsks` a read up to the code, `FixRun` to `Report`
the run; `ReadCode`, `CheckCode`, `CopyCode` the other file. `free_code_pages` is the two steps
`FreeCode` and `ResetCode` wherever it is called, at the end of a store, for the code a read
replaces and at `beach`: between them `start` points to freed pages. The number of answers of a
query is not its own: code compiled under `only_one_time` counts the last access too, marked or not
(`Count`), and may be run when the option is off again. The access that
the kernel cannot survive ends in `dead` with its cause in `fault`: `generate`
(a freed list or freed pages are written), `run`, `partial` (code that has no end is
run), `divide`, `copy`. What the text parses to, whether it fits and whether the set
has enough blocks are constants: CodeGen is about these.

`QueryFile` is what the files promise to a single client, without pages and
steps: a query, perhaps its code, the last reply.

### Lists, Decks: `buffer_to_cachesets`, `shuffle_list`

State: the links. `Fill` puts a block in front of the list of its set, `Shuffle` is one
turn of the loop. The exchange of two nodes is written as the code does it, link by link,
with its exception for nodes that are next or next but one. `Decks` is the same with sequences.

### Lifecycle: `cachequery_init`, `cachequery_exit`

State: the position in a straight line of acquisitions, or in that of the labels, or
of exit; the counters `i` and `j` that the loops share; what is held, which files
exist, which of them own code, which a client is in. `Take` and `Create`
acquire, `Refuse` is any of them failing, `Release`, `DropCode`, `Withdraw`, `Drain`
and `Destroyed` give back. Clients open, generate, drop, close.

### Frontend: `cachequery.py`

State: the target, the options, the answer cache, what each run file was given last;
the line under way and the runs left. `DoR`, `DoRR` and `Repeated` start a command, `Hit`,
`Miss`, `Write`, `Read` are the body of `query` and of the loop over a line,
`AccessFails` an exception, `Start`, `DoQuit`, `DoUnlog`, `DoSet`, `DoLevel` the rest. The
kernel is what `CacheSet` shows of it: a file answers with a measurement of the
query it holds, an empty line or "Runtime exception!".

### MBL, Lexer, QueryText: from a line to the list of blocks

`MBL` has the transformer of `cachequery.py`, one operator per rule of the grammar: names and
their numbers (`Trans`), groups, macros, tags, powers, the product of alternatives (`Concat`), and
the text that comes out, character by character, since a conversion is what the next module
reads. `Lexer` has `read_block` and `str_to_num` on such texts: `ReadBlock` is the block that
begins at a position and where the next one may begin. `QueryText` composes them: `Expand`, then
for each text `Write`, as many `Read` as there are blocks, and `Stored`, or `Refused` if there is no
memory for a block: the list ends there as well. Another client may write
any text in the place of the shell. The grammar, which lark turns into a parser, is not modelled: a
line is the sequence of its items.

### Measure, CodePages: `val_show` around the code

State: for each call its place, whose code it is about (`phase`: the hit threshold, the miss threshold,
the query), its processor, its thresholds with their unit; for each file its code, with the unit
it was compiled for; `conf`, the histogram `cal`, the counter of each processor, the number of code
areas. `Show` to `Least` follow a call through calibrations and repetitions, `Place` is one attempt of
`allocate_code_pages`, `NoPages` its failure, `Beach` that of the assignment of blocks, which gives the
pages back, `NoRoom` that of the emission: a calibration loses its area, and a file keeps its own with
code without an end, which its next read runs and does not survive (`Derail`, place `dead`). `Configure`
changes the options, `Move` is the scheduler, possible wherever the code allows preemption: a step is
what runs between two such points. `CodePages` says which pages are rejected and in which sets the lines
of a page really are. Histories: the times a call recorded by itself, whether it was alone.

### EvictionSets: `init_evictionsets` and the lazy L2 sets

State: the buffers with what is written in them and how often they were freed, the pointer and size of
each block, the list the load or the clean-up is at, the place of each call. `First` is what the two
`find_` functions return: of the places of a pool whose block is as wanted, the first, list by list. `Share` is one turn of the loops of the load, `Check`, `Allocate`,
`Write`, `Size` the walk of a call over its list, `Clean2` and `Clean3` one list of the clean-up.
What kmalloc does not give, or the head of an empty list, is dereferenced: `InitOops`, `Refused`.

### Session: `main`, noise control, `CQShell`

State: of the machine, the processors that are online and those on which each setting is
changed; of the session, the commands to the system still to be run, the shell with its prompt, log and
response. `Works` and `Fails` are one such command, in the groups the conditions of `disable_noise`
make; `Early` is every end that skips the rest of `main`: an exception, an exit, an interrupt. Between
precmd and postcmd a command answers, fails to parse, or raises.

## The runs

| run | instance | shows |
| --- | --- | --- |
| TraceLoop | word of 4 bits, 2 repetitions, times 1 to 3, thresholds 1 and 3 | counts are hits; the error code is unambiguous; a read returns |
| CodeGen | 2, 8, 16 sets; a target at each level; every query of up to 3 elements over 3 names | names, number of answers, meaning, and that of calibrations |
| CacheSet | 1 client, 5 queries, 2 areas of pages, 2 repetitions | the run file implements QueryFile; no fault but those it allows; no leak; calls return |
| CacheSetTwo | 2 clients (symmetric), 2 queries, 2 areas | a stale pointer does not outlast the call of `free_code_pages` |
| Lists | 6 blocks, 2 sets, every map of blocks to sets, every choice of random numbers | links, and the refinement of Decks |
| Lifecycle | 2 clients; 2, 1, 2 sets and 1 option | all or nothing, once, what exit takes from clients and nothing else does, orphans, unloading ends |
| Frontend | 2 levels, 1 and 2 sets, 2 queries, lines of 1 and 2 queries, 1 repetition | what is printed, with and without refresh and cache; commands return |
| QueryText | lines of up to 3 items over 2 to 3 names, macros of 2 names; every text of up to 6 of 7 characters; memory for a block refused once | the list in the kernel is the query of the line, or its beginning; a text is read as it is spelled |
| Measure | 2 files, 2 processors, 3 calibrations, 2 repetitions, one change, move or calibration without room, any number of other failures | thresholds, counters, pages |
| Measure_CodeStaysApart | one client | violated: below |
| Session | 2 processors, 2 levels, 2 sets, 4 ini files, 3 lines | noise is restored, the log is true, sessions end |
| EvictionSets | 2 clients, lists of up to 3 blocks, 9 buffers | sets are whole, buffers freed once |

Why the bounds are enough:

* A word of 4 bits has up to 3 answers, so first, middle and last differ, and the
  all-ones word is one bit away. Times lie at, between and beyond both thresholds. Two
  repetitions are a first and a last one. The proofs hold for all of these.
* In CodeGen a query of three elements over three names can repeat, alternate
  and exhaust a list of three; `AskMax` is 2, so that a third marked access is beyond the
  limit; `Limit` is 22 instructions, which some queries exceed. The pools hold blocks
  that are banned, that are leaders, and that conflict with the target: each of
  the filters decides about one at least. `EvictSize`, 2 as the ways of the model's caches, is what a miss
  calibration loads: the code has twice the ways for L3 and the size of an eviction set for the others.
* In CacheSet the five queries are one with one marked access, its last (where the mean divides by
  0); one with 63 and another access behind, whose code has 64 answers under `only_one_time`; one
  with none, whose code has one then; one too long, and one with too many names. Two areas allow a
  leak to be followed by an allocation. Two clients interleave at every step, and with one query
  that works and one that gives up each store and read of both meets every step of the other.
* Six blocks over two sets give lists of every length from 0 to 6; the exchange touches at
  most six nodes.
* Families of different sizes make a loop counter left over from the wrong loop
  visible. Two clients can be in two files.
* Texts of six characters hold two blocks, or one with padding, tag and an error; numbers longer
  than `MaxDigits` (2 in place of 6) and beyond `MaxSet` occur; the macros have two names, so
  that `@`, `_`, a list in brackets and a power on each differ.
* In Measure the areas are of two pages, the second of which may be the one that is bad; two
  attempts are one that is checked and the last, which is not; the first of three calibrations is
  dropped, as the first eleven are in the code, so two times are recorded. `MaxEvents` is 1: one
  change, move or failure at any point of two calls that interleave.
* In Session two processors are the one that stays and one that goes; the four ini files are no
  option, and three pairs in which one option depends on what another left online, or not; three lines can answer, change the target, and
  answer or fail again. Sessions follow each other without a bound.
* In EvictionSets a list of two blocks has a head and one that is not; pools give fewer blocks
  than there is room, as many, more, and none, and one list is empty.
* Two levels that do not have the same sets, and a line of two queries, are what the paths
  and `R` tell apart; sessions follow each other without a bound.

Deadlock is checked, except in Lists, Lifecycle, QueryText, Measure and EvictionSets, where the
program ends: the lists are done, the module is unloaded, the texts are written, or every client has
run code without an end.

### Fairness

A call is run by the kernel to its end: weak fairness of the steps of a call
that is under way (`InCall`, `Step(p)`), of insmod and rmmod (`Module`), and of a
client's leaving a file (`Close`). Nothing forces a call, a command or a load to begin,
and nothing forces a failure or its absence. The interpreter runs the steps of a command
(`Step` of Frontend and of Session); which of them, success or failure, is open. Nothing forces a
user to type.

### Where the code does not do what it says

* `Measure_CodeStaysApart`. "check that code doesn't interfer with eviction sets"
  (`parser.c:222`): the test compares the slice of the first line of a page, but the lines of a page are
  in different slices, since the masks of the hash have bits below 12 (`cache.c:28`). Pages are taken
  that have a line in the L3 set under test. What the test does achieve is `PagesApart`.

Met on the way, and in no run:

* the bans of "sets used by code" (`parser.c:363`) see the first line of the code only: the loop counts to the
  number of pages in steps of the size of a block (`MeasuresQuery` holds all the same);
* code that did not fit is kept, and the next read runs it: write, read, read (`main.c:578`; the fault `partial`
  of CacheSet, which `SafeCode` allows and names);
* a load that is refused a kset or a file undoes everything and returns 0 (`main.c:788`); `rmmod` then gives
  all back again (`ReleasedOnce` excludes that);
* without `refresh`, `R` on a line with several queries repeats the last and prints it under the names of
  all (`cachequery.py:389`; `OwnQuery` is about refresh);
* after `level` or `set` the answer cache has answers of the old set (`cachequery.py:330`; `OwnTarget` is about
  sessions without it);
* a text with an error, or without memory for one of its blocks, is measured up to there, and the store
  reports success (`parser.c:59-64`, `206`);
* code compiled under `only_one_time` counts its last access even if it is not marked, and is kept when the
  option is cleared: a read then prints one number more than the query has marks, and a query without any can
  be the one whose mean divides by 0 (`parser.c:475`, `main.c:675`; `QueryFile` says when);
* `free_code_pages` leaves the pointer to the pages it has freed until its second statement, in reads as in
  stores (`parser.c:268`; `NoStaleStart`);
* exit frees the eviction sets and the pools before the files whose clients use them (`main.c:839-849`;
  `OnlyExitTakesPools` says which, and that nothing else does);
* a read that finds code calibrates its thresholds all the same, and drops them (`main.c:562-585`);
* `calibrate` passes the number of sets where a level is expected (`main.c:357`): its code may be anywhere.

Of less weight: `src/README.md:35` writes
`config/num_repetitions/val` where the file is called `value` (`main.c:231`); batch
mode takes a "list of commands" and runs the first line (`cachequery.py:445`, `539-543`);
exit never frees `config_objs`, and release functions never free their objects; the
command `log` prints to an undefined name; a syntax error while the session is logged
ends the shell.

## The proofs

TLAPS checks these for every value of the constants that satisfies the assumptions.

| theorem | module | says | from |
| --- | --- | --- | --- |
| `TypeCorrect`, `TraceCorrect`, `ExceptionCorrect` | TraceLoopProofs | `TypeOK`, `TraceFaithful`, `ExceptionExact` for all widths, thresholds and repetitions | `LoopAssumption` |
| `NamesCorrect` | CodeGenProofs | `NamesAreBlocks` for all geometries, lists, pools, eviction sets and queries | `CodeGenAssumption` |
| `TypeCorrect`, `AsksCorrect` | CodeGenProofs | `TypeOK`, `AsksCounted` for the same, and any size of the code pages | the same |
| `QueryMeasured`, `ColdMeasured` | CodeGenProofs | `MeasuresQuery` for the same and any number of ways; and from any content of the caches | and `MeaningAssumption` |
| `CalibrationMeasured`, `ColdCalibrated` | CodeGenProofs | `CalibrationMeasures`, likewise | the same |
| `TypeCorrect` | CacheSetProofs | `TypeOK` for any number of clients | `CacheSetAssumption` |
| `StalenessEnds` | CacheSetProofs | `NoStaleStart` for any number of clients | the same |
| `SingleClientSafe`, `SingleClientNoLeak` | CacheSetProofs | `SafeCode`, `NoLeak` if there is one client | the same |
| `SingleClientServed` | CacheSetProofs | `ImplementsQueryFile`, step by step, if there is one client | the same |
| `LinksCorrect` | ListsProofs | `DoublyLinked` for any blocks, sets and random numbers | `ListsAssumption` |
| `ListsAreDecks` | ListsProofs | `ImplementsDecks`, step by step, for the same | the same |
| `FreedCorrect` | ListsProofs | `FreedOnce` for any pools, number of calls and interleaving | `EvictionSetsAssumption` |
| `WholeCorrect` | ListsProofs | `SetsWhole` for the same | the same |
| `TypeCorrect`, `OrphansCorrect` | LifecycleProofs | `TypeOK`, `NoOrphanCode` for any number of files and clients | `LifecycleAssumption`, none |
| `LoadKeepsAllOrNothing`, `ReleasesCorrect`, `PoolsCorrect` | LifecycleProofs | `AllOrNothing`, `ReleasedOnce`, `OnlyExitTakesPools` for the same | `LifecycleAssumption` |
| `TypeCorrect`, `QueryCorrect`, `TargetCorrect`, `EntriesCorrect` | FrontendProofs | `TypeOK`, `OwnQuery`, `OwnTarget`, `EntriesStay` for all levels, sets, queries and lines | `FrontendAssumption` |
| `CountersCorrect` | MeasureProofs | `CountersStop` for any number of clients and processors | none |
| `CountsCorrect`, `LeastCorrect`, `PagesCorrect` | MeasureProofs | `CountsWhatIsRead`, `ThresholdIsLeast`, `PagesAccounted` for the same, any targets, times and events | `MeasureAssumption` |
| `ApartCorrect` | MeasureProofs | `PagesApart` for any geometry, hash and areas | and `PagesAssumption` |
| `NoiseCorrect` | SessionProofs | `NoiseRestored` for any processors and ini files | `SessionAssumption` |
| `LogCorrect` | SessionProofs | `LogIsTrue` for any levels and sets, and lines without a bound | the same |

The assumptions are the types of the constants and a few facts more:

* Lists of a target have no block twice and are congruent (`CodeGenAssumption`): that is what
  `LinksCorrect` and `ListsAreDecks` say filling and shuffling keep. They are not empty: the code relies on a
  pool that is large enough, and would dereference the head of an empty list (`lists.c:184`).
* The pools suffice (`MeaningAssumption`), which `MARGIN` in `config/settings.h:36-67` is for: in whatever set
  the code is, an eviction set has `EV1` or `EV2` blocks left that neither the code nor a leader set bans, and a
  list has the blocks a miss takes besides its head. A thrash set is not one that is queried. The cache has no
  more ways than an eviction set has blocks. The sets of L2 are a multiple of those of L1, and there are finitely many blocks.
* No block of L2 and L3 is in two lists, or twice in one, and the blocks of a list of L3 share set and slice
  (`EvictionSetsAssumption`): lists are made per set and slice from pools of their own (`lists.c:47-90`), and `LinksCorrect` and
  `ListsAreDecks` say that they stay so. How many blocks a list has is left open, none included.
* Of the marked accesses of a query at most 63 count (`CacheSetAssumption`), and the last access once more
  under `only_one_time`: that is `AsksCounted`.
* Every family has at least one file (`LifecycleAssumption`), and the sets of L2 are a multiple of the lines of a
  page (`PagesAssumption`): macros of `config/settings.h`.
* The clients are finitely many, the longest time that counts is one the histogram has, the rows of
  pages are numbers and a slice combined with 0 is itself (`MeasureAssumption`): the hash is an
  exclusive or of bits, of which the proofs need no more.
* The processor that stays is one (`SessionAssumption`: number 0 cannot be taken off), and no response
  is taken for the absence of one.

The inductive invariants, each of which TLC has checked on the bounds of the module's run before it
was proved:

* TraceLoop. `TraceFaithful` says nothing of the register. The invariant `IInv`
  adds that `rsi` is `Packed(seen)`, the bits of the times seen, last one lowest
  (`RunInv`); that a value returned is either that or the error code, with the
  time that caused it (`RetInv`); that a repetition is under way only while one is
  left, and none before the warm-up is over (`CountInv`, `WarmInv`). `PackedAppend` is the shift,
  `AnswerBitOf` the unpacking; `PackedIsNoError` uses that the top bit is never
  set, which is why the limit is one less than the width.
* CodeGen. `NamesAreBlocks` needs that the names before the position have blocks and
  the position is in the query (`Naming`); `FreshBlock` then says that a block
  further down the list is a new one. `AsksCounted` is about the finished code: `GInv` follows
  it from the first instruction on, `Measured` being that the readings of the counter before and after an
  access are as many as the marks so far. `Tally` counts the instructions of an operation;
  that it is a sum over parts, and what it is for the primes and flushes of any number of blocks, is
  proved by induction over a set of numbers (`Upwards`).
* CodeMeaning. `QueryMeasured` is a simulation. `MInv` says of the code so far, when it is run, and of the elements of the
  query it was made from, when they are asked of a set of their own, that the two caches match (`Matched`): the set of one is
  that of the other under the blocks of the names, in the same order of recency, and the same loads were served by it. Each operation
  keeps this only because nothing of the target is left in a closer level between accesses (`Away`), which is where the
  eviction sets come in: what they hold (`Pools`) and what is banned (`Bans`) leaves enough blocks, none of them of the target. After
  the prologue the set is empty, whatever it was: hence `ColdMeasured`, from any cache (`Cold`). In a calibration, the loads before the
  timed one make its block the most recent of the set, or, being as many distinct blocks as there are ways, push it out (`Filled`).
* CacheSet. `TInv` adds to the types that a client that holds a pointer into the list
  finds a query there (`Held`) and that a repetition is left (`Counted`). From it
  `NoStaleStart` is inductive by itself: each free is followed, in the next step
  of the same call, by a reset. With one client the invariant
  says for each place of the call what `start`, the pages and the list are; no step of
  another interferes, and the only page that is not free is the one `start` points to.
  The refinement maps the state to the query (`Stored`), which a store replaces when it has parsed it, and
  to the code (`Compiled`), which is none until its number of answers is set. `Told` adds what the answer of
  a call is made of: that number belongs to the code that is kept, and the code that has run is it.
  Every step then is a step of QueryFile or leaves its state alone.
* Lists. `LInv` is that the links are inverse of each other (`Tied`), that no block is linked into the
  list of another set (`Sorted`), that the rest of the pool is not linked at all (`Fresh`), and that
  the position to exchange is in the list (`Turn`). A list is a walk along `next`, a
  recursive function of the number of steps; that it meets no block twice, that it ends, and what an exchange
  of two links makes of it, is shown by `Upwards`. The exchange of two blocks that are neither next nor next but
  one, and each of the exceptions, is a renaming of the links: the walk afterwards is the walk before with the two blocks
  renamed, hence the deck with two of its blocks exchanged.
* EvictionSets. `Book` is the account of the buffers: whoever will free a buffer owns it, namely the first block of a list that of
  the set the list shares, and each block of L3 its own. No two owners have the same buffer, what an owner has yet to free is not
  freed, and each buffer is owned, freed, or excused: made after the unloading began, or for a list that was walked twice. `FreedOnce` needs
  that a walk overwrites no pointer unless two calls met in it or kmalloc gave nothing, hence `Steady`: the blocks ahead of a walk have
  no buffer, and a list whose head has none has none at all. `SetsWhole` needs besides what the buffers hold: a walk has complete
  sets behind it (`Behind`), a list that was walked is complete (`Finished`), code is generated only from such a list
  (`InUse`), and what the blocks of a list share was found for its head and evicts all of them, as they are congruent (`Sharing`).
  A write goes to a buffer nobody else has, by the book. After a dereference of what is not there, where the kernel
  stops, all that is claimed is that nothing was freed twice.
* Lifecycle. `OInv` follows the three phases of a file that goes: after the first its code is
  late code, and in the last its clients are the only ones that do not see their file. `LInv` ties
  what is held to the position: a load holds what it has passed (`TakenBefore`), an undo or an exit what is
  before it (`KeptFrom`), with the files of a loop cut at its counters, whose bounds are `Counters`.
  A load that is refused `config_objs` enters the loop over the L1 files with the counter of another loop,
  and it is the invariant's account of that counter that shows the files given back to be those there are.
  `OnlyExitTakesPools` is `LInv` read at the needs of a client, but for an exit that finds nothing to give
  back, because the load had been undone: that nobody is in a file then is `EInv`.
* Frontend. `TInv` adds to the types that a command under way has a query left, and runs.
  `OwnTarget` is then inductive: without the cache all that is printed was read from the file of the
  target, which no command changes while it runs. `OwnQuery` needs `Refreshed`, that the runs left
  all write, so that a file read has the query, and that the cache has measurements under
  their own query; `EntriesStay` needs `Asked`, that a query which is being asked was of no use to the
  cache when it was looked up, and is still.
* Measure. A file has no code, code without an end or whole code, and only the last gets as far as a counter
  (`Flow`). `RunsForCall`: a counter that runs is that of a call on its processor that has programmed
  it and has yet to stop it. A call that overlaps may stop the counter, or program it again; either way
  the last one on the processor stops it. A move or a change of the configuration breaks just this.
  `MInv` says of each place of a call which code and thresholds it has. From it: `UInv`, that while
  the configuration is as it was at the write, code, thresholds and counter are all in its unit;
  `TInv`, that the histogram of a call that is alone has the times of its phase and no others; `AccountStep`,
  that the areas a step adds are those its client holds more, by the cardinalities of two sets that differ in
  one client; and `PInv`, that the search ended with pages that suit or gave up. `PagesApart` then is arithmetic
  on rows and sets.
* Session. `NInv` says in which order the settings and the processors are dealt with (`Orders`), that
  the processors are all online or the one that stays (`Offline`), that a setting is changed only where
  restoring will reach it (`Own`, `First`), and, while it restores, that what is not yet normal is still to come (`Remains`).
  `LogInv` says that an answer is behind its prompt, that the lines of the prompts rise, that a line that is being
  answered has its prompt at the end, and that the lines answered are those logged and the one postcmd is about to log.

Model-checked only:

* Liveness (`Returns`, `CallsReturn`, `Ends`, `CommandsReturn`, `ComesToAnEnd`): ENABLED is out of the prover's reach.
* `KernelReadsLine` and `ReadsExactly`: QueryText, MBL and Lexer recurse over texts. `Upwards` carries an induction where a recursive
  function can be unfolded and the induction formula made a set of numbers, as in Lists and CodeGen; the compiler is
  a RECURSIVE operator, on which the provers have nothing.

## Not modelled

* The value of times and of performance counters, the hash of the slices, opcodes,
  headers: hardware, or data.
* The conversions of `config_store`, and the options other than `only_one_time`, `use_pmc`, `core_cycles`,
  `thrash_set`, `num_repetitions`, `num_calibrations` and the thresholds. The setters are assignments without a check.
* The values of the configuration before `init_config`, when the files are there already (`main.c:768`).
* The grammar of MemBlockLang, texts longer than a page, two sessions at once.
* The functions of the histogram that write to the kernel log (`get_mean` but for its division by 0, `get_mode`,
  `get_perc`, `get_n_below`, `print_hist`).
* Concurrent compilation for two sets, over the same static tables.

## Plan

In order of what the system depends on most. Done: TraceLoop (the numbers), CodeGen with
CodeMeaning (what they measure), CacheSet with QueryFile (of which query), Lists with
Decks (on which blocks), Lifecycle, Frontend; then QueryText with MBL and Lexer, Measure with CodePages,
EvictionSets, Session.

Next modules: ConcurrentGen, two sets compiled at once over `query_blocks` and the
banned sets, and which of CodeGen's invariants survive under which exclusion; the configuration before
`init_config` within Lifecycle; two sessions at once.

Next proofs: `KernelReadsLine` and `ReadsExactly`, with the recursion of MBL and Lexer written as functions of positions;
which part of QueryFile's promise is left with several clients.
