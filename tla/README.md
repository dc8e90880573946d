# Verification of the CSC501 operating-systems projects

The repository holds four independent C programs, written for a course:

| Program | What it is | Size |
| --- | --- | --- |
| `P1` | a library of user-level threads (`mythread.c` over `list.c`, `queue.c`) | 1015 lines |
| `P2` | a shell (`ush.c`, and the course's parser `parse.c`) | 1516 lines |
| `P3` | a game of hot potato over TCP (`master.c`, `player.c`) | 1258 lines |
| `P4` | a file system in memory for FUSE (`ramdisk.c`, `ramdisk_list.c`, a log) | 2604 lines |

They share no code and do not talk to each other, so each has modules of its
own; only the linked list, which P1 and P4 have each a version of, is one module
for both. This file says what each of them is made of, what is modelled, what
TLC checks, what TLAPS proves, and what is left.

To check a model: `tlc -config MyThread_safety.cfg MCMyThread.tla`, and so on
for each `.cfg` (the part of its name before the underscore is the module, with
`MC` before it; `Parser_lines.cfg` goes with `Parser` itself). To check the
proofs: `tlapm M.tla` for each module `M` of section 4.

## 1. Inventory

### P1: threads
*State.* `thread_engine`: the running thread, the ready queue, the list of
joiners that block. Each `_thread`: parent, kids, and four fields about joins.
Each `_semaphore`: a value and a list of waiters. Lists and queues are cells
with head, tail and a counter.
*Operations.* create, yield, join, join-all, exit; semaphore init, signal,
wait, destroy; init of the whole; append, delete, look up in a list.
*Interaction.* One CPU and no pre-emption; the library is entered by calls and
left by `swapcontext`. Threads affect each other only through the queues and
through `parent` and `kids`.
*Hard.* A thread exits before its parent, or its parent before it; the memory
of either is reused; a join and an exit come in either order; nobody is ready.
*Correct means.* No thread is lost or queued twice; a join returns exactly when
what it waits for has exited; a semaphore counts; ready threads get to run.

### P2: shell
*State.* The current directory and ush's note of it, the environment, the
priority, the three standard descriptors, what stdio has not written and what it
has read ahead, `LookAhead` and the pipes under construction in the parser.
*Operations.* The parser; eight built-in commands; the search in `PATH`;
redirections in `parseCmd`; pipelines in `parsePipe`; `.ushrc`.
*Interaction.* `main` calls `parse`, then `parsePipe`, which forks a process for
each command but the last; pipes, `wait` and the file offsets that a fork shares
connect them.
*Hard.* Descriptors are redirected in the shell process itself and must come
back; every stage of a pipeline is waited for before the next one is started;
stdio's buffers are copied by `fork` and given back by `exit`; the parser reads
one token ahead.
*Correct means.* After each line the descriptors are what they were; output and
input are where the line says; a pipeline whose output fits its pipes ends; each
line is executed, in order; a line means what it says.

### P3: hot potato
*State.* The master: the players' addresses, hops, a listener. A player: its
index, its neighbours' addresses, a listener.
*Operations.* Start-up (the master accepts N players and numbers them), the
ring (it sends each player its neighbours), the game, the report, the shutdown.
*Interaction.* One TCP connection for each message.
*Hard.* Listeners that open late, retries that run out, accepts that fail, a
process too many, an `addrlen` that is never set, a `recv` that returns less
than was asked for, an index that is used though it never came.
*Correct means.* One potato; its track is a walk over the ring; the report has
as many entries as there were hops; everybody leaves in the end.

### P4: ramdisk
*State.* `ramdisk_engine`: the size used, the list of files in the root. Each
`_ramdisk_file`: type, name, its parent's name and pointer, size, an array of
blocks or a list of files.
*Operations.* create, mkdir, unlink, rmdir, rename, read, write, truncate;
getattr, open, opendir, readdir look only; access, chmod, chown and utimens do
nothing.
*Interaction.* The kernel calls the handlers through FUSE, several at a time;
they share the lists and `current_size` without a lock.
*Hard.* The arithmetic of blocks at its borders, holes, allocations that fail
half-way, a parent pointer that is set in some places only, the account of the
disk that five handlers keep, paths walked while a list changes.
*Correct means.* A byte is read where it was written; the tree is a tree; the
account is the sum over the tree; the handlers agree on what there is.

## 2. Modules

| Module | Models | Role |
| --- | --- | --- |
| `ThreadService` | what P1 promises | abstract specification |
| `MyThread` | `mythread.c`, with its lists as values | component, refines `ThreadService` |
| `CommonFacts` | | lemmas about queues, least numbers, sums and finite sets |
| `MyThread_proofs` | | theorems about `MyThread` |
| `ListService` | a list as a sequence | abstract specification |
| `LinkedList` | the cells of `list.c`, `queue.c`, `ramdisk_list.c` | component, refines `ListService` |
| `LinkedList_proofs` | | theorems about `LinkedList` |
| `Parser` | `parse.c`, from tokens to pipes | algorithm |
| `Parser_proofs` | | theorems about `Parser` |
| `Shell` | `main`, `check_ushrc`, `parsePipe`, `parseCmd`, `processFileCmd` and the processes they fork | three kinds of process, pipes, stdio |
| `Shell_proofs` | | theorems about `Shell` |
| `Builtins` | the built-in commands and the search in `PATH` | component |
| `HotPotato` | `master.c` and any number of `player.c` | two components and the network |
| `HotPotato_proofs` | | theorems about `HotPotato` |
| `RamdiskFile` | the block array of one file | component and algorithm |
| `FileNamespace` | what P4's name space promises | abstract specification |
| `RamdiskTree` | files, lists, parent pointers, the account, what the handlers answer | component, refines `FileNamespace` |
| `RamdiskTree_proofs` | | theorems about `RamdiskTree` |
| `RamdiskQuota` | the account under several FUSE threads | component |
| `RamdiskQuota_proofs` | | theorems about `RamdiskQuota` |
| `MC...` | | instances for TLC |

How they compose: `MCShell` gives `Shell` lines of text as `Parser` reads them,
so the two are checked together, the lines a parser error swallows included.
`LinkedList` justifies the sequences and sets that `MyThread` and `RamdiskTree`
use for lists, and `RamdiskQuota` splits in steps the updates of the account that
`RamdiskTree` and `RamdiskFile` make in one.

### MyThread
One action for each call of `mythread.h`, with everything the call does up to
its return or its `swapcontext`. A thread is the *address* of its `_thread`.
A dead address keeps its fields, because `free` leaves them and orphans read
them through `parent` (what else may overwrite them is in section 5);
`MyThreadCreate` may take any address that is not live.
`Dispatch` is the NULL that `de_queue` returns when nobody is ready: the process
dies, and the model says so (`status = "crashed"`).
Kids and the list of joiners are sets, because their order cannot be observed.
The ready queue and the semaphores' lists are sequences.

### LinkedList
One algorithm with three variants, chosen at the start: a queue deletes at its
front only, and `ramdisk_list.c` clears the pointer to a deleted last cell, which
`list.c` leaves. Each change of a pointer or of the counter is a step of its
own. In P4 a handler that changes a directory has the kernel's lock on it, but
a handler below walks through it without one: `walk` is a call of
`is_file_exist`, cell by cell. A cell that was unlinked keeps its `next`, because
`del_l_elem` does not free it; the *file* is freed, so that what a walk reads as
its name is arbitrary, or the read faults.

### Parser
`mkPipe` and `mkCmd` call each other and read a token in the middle of their
loops. Each such place is a location, and `Consume(s, t)` is what the code does
with token `t` up to the next one. The run feeds every sequence of tokens. The
characters below (`nextToken`) are abstracted to the tokens it may return.

### Shell
The shell, the stage it forked for a command of a pipeline, and the command one
of them forked to `execv` a file: at most three processes, each with a table
from descriptor numbers to what is open. Numbers are taken as the system takes
them, lowest first, so that a leak or a descriptor put back wrongly is seen. A
program is what it does to its descriptors: `filter` copies its input to the
end, `source` writes some units, `broken` cannot be executed; `echo` and
`missing` stand for everything `ush` prints itself.

`buffer` is what stdio has not written yet, and `mode` when it writes. stdio
chooses when something is first printed, by what descriptor 1 is then: on a
terminal (`interactive`) each newline writes the text from then on, else it stays
until `fflush` or `exit`, and a fork copies it. The choice is for good. It falls on
the prompt if standard input is a terminal, but a `.ushrc` runs before that: if the
first thing it prints is redirected into a file, or printed in a stage, the shell
or that stage keeps all its output, at a terminal as well. The ghost `direct` says
that stdio has kept no output of the line at hand, nor has any left of the lines
before. Lines come from `.ushrc`, then from standard input, through one stdio
buffer that reads `ReadAhead` lines at a time from an offset that children
share; `exit` in a child moves it back by what is unread. `sticky` is whether
this stdio reads again after an end of file (C libraries differ).

### Builtins
A session of commands in one process. A path is absolute or relative with `..`;
what a directory holds by the one file name is fixed in a session. Operators are
named after the built-in they model and return the process they leave, what they
print, what they run, and whether ush lives.

### HotPotato
A message is an element of the queue of connections its receiver has not
accepted: `backlog` for the master, `inbox` for each player. Connect, send and
close is one step, since the sender never waits for an answer; only a player's
first connection waits, for its index. Connects fail when nobody listens on the
port and are retried `MaxTry` times. `AddrlenOutcomes` are the values of the
`addrlen` that `process_potato`, `get_neighbors_info` and `listen_msg` hand to
`accept` without setting it. `Timely` excludes, in the liveness run only, that
one side runs out of retries while the other is about to open its listener.
A process is `member[k]` if it is the one whose host the master noted for index
`k`. What the master sends to player `k` reaches whoever has the port of index `k`
open on that host, and that need not be this process: a player whose first
connection died goes on with what was on the stack for an index (`Unreceived`),
which may be another player's. On a host of its own it is then heard by nobody; on
that player's host it may open the port first and play in its place, and the player
cannot bind and exits. `Garbage` is any number that is no player's index. The
number -1 is left out: its port is the master's own.

`MaxFaults` bounds the failures of `accept` and `bind`, and the calls of `recv`
that return before a track or the neighbours' addresses are there. Addresses that
come in part are both neighbours, the left one, or none (`Told`); one that is cut
in its middle is an address nobody answers at, so it counts as none.
A short call is harmless to a track longer
than `SEND_BLOCK` when it ends between two entries; else an entry is `Torn`, and
what follows is shifted. At most one call is torn in one transfer.

### RamdiskFile
`r_write`, `r_read` and `r_truncate` with the code's arithmetic, on blocks of
`BlockSize` bytes. A byte is a pair of the write that made it and the position
it was meant for, so a byte in the wrong place is seen even if the values
agree. `content`, `end`, `plain` and `jumped` are ghosts. The kernel (external)
writes within one page and reads whole pages that begin below the size.

### RamdiskTree
A file is the address of its `_ramdisk_file`. `create_ramdisk_dir` does not set
`parent`, so a directory's `parent` is what an earlier file left at the address
or garbage. The kernel (external) looks a path up before it creates, and keeps a
rename within its rules; that a directory renamed over is empty is not one of
them. The handlers run one at a time here. `misled`,
`shadowed`, `phantoms` and `leaked` are ghosts: they record that a rename deleted
from the wrong list, that one took a name in use, which directories were charged
for and not made, and which files a failed rename left on no list. `lost` are the
files whose `r_truncate` found no memory: the bytes are paid back, the size is kept,
and `blocks` is NULL. The next handler that uses the blocks goes through NULL
(`LostCrashes`), `r_unlink` and `r_truncate` too, so nothing is paid back twice and
`current_size` does not become negative. `Getattr`,
`Open`, `Opendir` and `Readdir` are what those handlers answer.

### RamdiskQuota
Every access of a handler to `current_size` is a step: the check, the load and
the store of an update, with the work between. The kernel (external) keeps one
operation at a time on a file, and one that makes or removes a name in a
directory; all else overlaps. `races` counts the updates that began while
another was under way, and `overlapped` what those should have added.

## 3. What TLC checks

| Run | Instance | Shows |
| --- | --- | --- |
| `MyThread_safety` | 4 addresses, 2 semaphores, values to 1 | joiners are woken and nobody else, what a crash needs, a root that exits, the inductive invariant, and that `MyThread` implements `ThreadService` |
| `MyThread_liveness` | 3 addresses, 1 semaphore | a ready thread gets the CPU or the process ends |
| `LinkedList_walks` | 4 cells, lists of up to 3, one walk | the three lists are sequences; what a look-up beside a change may answer |
| `Parser_lines` | every text of up to 8 tokens | legal lines are parsed to what they mean, of others a sound beginning is kept; how far `parse` reads |
| `Shell_lines` | two lines out of 36 typed, or files of up to four lines for `.ushrc` and standard input; up to 3 commands; pipes of 2 units, 3 lines read ahead | descriptors come back, output and input are where the line says, all of it arrives, no line is passed over, a line that fits its pipes ends |
| `Builtins_session` | 4 directories, 4 values of `PATH`, 145 commands | what `pwd` says, which file runs, what crashes ush, whose priority changes |
| `HotPotato_ring` | 3 players, up to 3 hops | the game ends with a complete report and nobody left |
| `HotPotato_faults` | 2 players, a third process on another host, 4 hops, 2 faults, bad `addrlen`, slow players, blocks of 2 entries | one potato, a true track, a sound ring, a complete report |
| `HotPotato_shutdown` | 2 players, slow | violated: "master will shutdown the ring" |
| `RamdiskFile_blocks` | 4 blocks of 2 bytes at first, pages of 4 bytes, 3 writes, 1 failing `malloc` | bytes are stored, holes are zero, appended files are read back but for one case |
| `RamdiskTree_names` | 3 addresses, 2 names, room for two directories, 1 failing `malloc` | the account is off by what a failed `malloc` left and no more, the tree is sound, the handlers agree, `RamdiskTree` implements `FileNamespace` |
| `RamdiskQuota_threads` | 3 threads, 3 names in 2 directories, 1 overlap of updates | by how much the account and the limit can be off |

Why the bounds are enough. *Threads:* four addresses are the fewest at which an
orphan can outlive its parent, see the parent's address taken by a new thread,
and that thread can join another; two semaphores let a thread wait on one while
the other is destroyed and made again. *Lists:* three elements make a first, a
middle and a last; the fourth cell is one that was deleted while the walk is at
it. Walks do not see each other, so one is enough. *Parser:* eight tokens hold a
pipe of three commands with a redirection, an argument array that has to grow
(from 4 to 8), or a bad line and the next one. *Shell:* the second line runs with
what the first left behind; three stages have a middle one, with a pipe on both
sides; pipes of two units are filled by some lines and overrun by one; files are
longer than what stdio reads at once; some `.ushrc` print first into a file, in the
shell or in a stage, before a line is typed. (134,498 states.)
*Built-ins:* sessions are of any length;
two directories of the same name make `cd a` ambiguous, and a file of one name
in several directories makes `PATH`'s order matter. *Ring:* with two players left
and right are the same player and with three they differ, with three hops the
potato can come back or go round; one retry separates the first attempt from the
last; four hops make tracks shorter than, as long as and longer than a block. Two
processes share a host, where one can take the other's port, and the third has its
own.
*Blocks:* a page of two blocks covers writes within a block, over a border and
of a whole page; three pages reach the first doubling at the end of the array,
which is where the corner case of `r_write` is, and the reach of 22 bytes allows
a write that needs two doublings at once. *Tree:* three addresses make a chain
of three levels, or two siblings under a directory, and two names make a clash.
*Quota:* with three threads two can be past the check while a third updates; a
disk smaller than what three requests ask for is overrun by two of them.

### Where the code does not do what it says
`HotPotato_shutdown` is a run that TLC finds violated. The other disagreements
are part of the models, and the properties are stated around them:

- `_swap_run` puts the running thread at the *end* of the ready queue; its
  comment says "front" (`mythread.c:91`). `NoStarvation` depends on the end.
- `list.h:29` and `:49` promise 0 for success and for "exists"; `list.c` returns 1.
- `init_master` counts a failed `accept` as a player (`master.c:304`, against
  `:608`): the ring has a hole. `RingIsSound` holds, since a hole is no player.
- `r_read` counts a last stretch shorter than a block without copying it
  (`ramdisk.c:633`, against `:565`): `LosesTail` in `ReadsBack`.
- `r_rename` deletes from `parent->sub_files`, and no directory's `parent` is
  ever set (`ramdisk.c:1995`, against `:1991`): the ghost `misled`.
- A file name that is missing at the end of a line costs the next line as well
  (`parse.c:116`, a `do` loop that reads first). A token that cannot begin a
  pipe ends the line there (`parse.c:252`). See `ReadsItsLine`.
- A `PATH` search takes the *last* directory that has the file (`ush.c:116`);
  `where` lists all of them, so what runs is its last line (`RunsWhatIsNamed`).
- `cd` notes its argument as it is (`ush.c:227`), and `nice cd` without one notes
  nothing, so `pwd` can be wrong (`PwdIsCwd` says how far).
- `setenv VAR` means to set "the null string" (`ush.c:375`), and passes NULL to
  `setenv`, which crashes. So do `where` without a name and any name to be
  searched when `PATH` is unset (`CrashesAreKnown`). `nice`, a number and a
  built-in do nothing.
- An empty line ends `.ushrc`, but what stdio has read ahead of it is then
  executed as if typed. Where stdio remembers the end of a file, ush ends after
  `.ushrc`. A child that cannot `execv` calls `exit`, which moves the offset of
  a script back, and lines come again: `LinesInOrder` says once more at most for
  each time. Two such lines in a row make a script run for ever.
- `parseCmd` flushes after stdout is put back (`ush.c:656`, after `:587`). Where
  stdio keeps what is printed, in a script, or at a terminal after a `.ushrc` that
  printed into a file first, the text of a redirected built-in goes to the shell's
  output, and a fork writes again what was not flushed. `OutputLandsRight` and
  `AllArrives` claim nothing for what `ush` prints itself once stdio has kept
  something (`direct`).
- The index of a player whose first connection died is whatever was on the stack
  (`player.c:319`): it may be another's. `RingIsSound` says what is left.
- `r_truncate` pays a file back before it has the memory to go on
  (`ramdisk.c:1825`, `:1842`): `QuotaIsTheSum` names the file as `lost`.
- `r_rename` takes an existing name without a look, a directory with files in it
  included (`ramdisk.c:2027`): the ghost `shadowed`.
- A program whose input file does not open runs all the same (`ush.c:570`, `ush.c:659`), and in
  a script reads the script; `AllArrives` leaves such lines out (`InputIsKnown`).

### Fairness
`MyThread`: `WF_vars(Switch)` says that the running thread sooner or later makes
a call that may switch. Nothing in the library enforces it: it is the contract of
cooperative threads, and without it no property of progress holds. The safety
properties do not use it.
`HotPotato`: weak fairness for the master and for each player, because each is a
process that the operating system schedules; a retry is followed by another
attempt, a connection in a queue is accepted. No failure has to happen.
`Shell`: weak fairness for each process, which the operating system schedules.
`LinesEnd` is claimed for lines whose stages write no more than a pipe holds,
because `parsePipe` waits for a stage before it starts its reader, and for a shell
whose stdio writes at each newline, because else a stage also writes its copy of
what the shell has kept.
The ramdisk has no liveness property: its handlers run when they are called.

## 4. What is proved

Every theorem holds for every value of the constants that the assumptions of its
module allow: for any set of threads, players, files or names, however large.

| Module | Theorem | Property |
| --- | --- | --- |
| `MyThread_proofs` | `Invariance` | `IInv`, the inductive invariant |
| | `TypeCorrect` | `TypeOK` |
| | `ThreadsArePlaced` | `Placement`: each live thread is in exactly one place |
| | `SemaphoresCount` | `SemaphoreCount`: below zero, a value counts the waiters |
| | `NoLostWakeup` | `JoinersWillWake` |
| | `ExitWakesOnlyJoiners` | `WakesOnlyJoiners` |
| | `JoinsNeverDeadlock` | `CrashNeedsSemaphore` |
| | `RootExitNeverCrashes` | `RootExitIsClean` |
| | `ImplementsService` | `KeepsPromise`: the refinement of `ThreadService` |
| `HotPotato_proofs` | `Invariance` | `IInv`, the inductive invariant |
| | `RingSound` | `RingIsSound`, the types included |
| | `TracksAreWalks` | `TrackIsTheWalk` |
| | `ReportComplete` | `ReportIsComplete` |
| | `AtMostOnePotato` | `OnePotato` |
| `RamdiskTree_proofs` | `Invariance` | `IInv`, the inductive invariant |
| | `TypeCorrect` | `TypeOK` |
| | `QuotaRight` | `QuotaIsTheSum` |
| | `TreeSound` | `TreeIsSound` |
| | `AnswersRight` | `AnswersAgree` |
| | `ImplementsNamespace` | `KeepsNamespace`: the refinement of `FileNamespace` |
| `RamdiskQuota_proofs` | `InductiveInvariant` | `IInv` |
| | `TypeCorrect` | `TypeOK`: sizes stay natural numbers |
| | `AccountRight` | `AccountIsUsed`: until two updates overlap, the account at rest is what was used |
| | `AccountExact` | `AccountIsExact` |
| | `OverrunBounded` | `OverrunIsBounded` |
| `LinkedList_proofs` | `Invariance` | `IInv`, the inductive invariant |
| | `ListSound` | `ListIsSound` |
| | `WalksRight` | `WalksAnswer` |
| | `ImplementsSequence` | `KeepsSequence`: the refinement of `ListService` |
| `Parser_proofs` | `Invariance` | `IInv`, the inductive invariant |
| | `CommandsSound` | `CommandsAreSound` |
| | `LineRead` | `ReadsItsLine` |
| `Shell_proofs` | `Invariance` | `IInv`, the inductive invariant |
| | `TablesSound` | `TablesAreSound`, the types included |
| | `DescriptorsRestored` | `DescriptorsBack` |
| | `InputRight` | `ReadsItsInput` |
| | `OutputRight` | `OutputLandsRight` |
| | `LinesInvariance` | `LinesInv`, inductive together with `IInv` |
| | `LinesRight` | `LinesInOrder` |
| | `ArrivesInvariance` | `ArrivesInv`, inductive together with `IInv` |
| | `EverythingArrives` | `AllArrives` |

### Threads (`MyThread_proofs`)
The assumptions are those of the module: the root is an address, NULL is not,
the bound on the values is a natural number.

None of the properties is inductive alone. That a joiner will be
woken needs that its kid carries the flag (`FlagsMatchBlocking`) and is still on
its list (`KidsAreLive`). That an exit wakes nobody else needs that a flag is
set only while its parent blocks, and that a dead or reused address has none;
this is why `MyThreadCreate` has to clear the flags. That joins alone cannot
deadlock needs a fact about all generations: creation orders the threads, so
every set of live threads has a member without a kid in it
(`KidsWellFounded`). If everybody were blocked in a join, that member, which
waits for a kid that is alive and therefore blocked too, would be missing. `IInv`
is the conjunction of these; the proof has one lemma for each action, and one
step in it for each conjunct. `Switch` and `Dispatch` have lemmas of their own,
because every blocking call ends in them.

### The service of the threads (`MyThread_proofs`)
Under `IInv` each call of the library is a step of `ThreadService`, or leaves
what a caller can see unchanged. Most of the work is in the waiters of a
semaphore: the abstract state has a set where the code has a queue and a value,
and `SemaphoreCount` is what makes a signal wake a waiter exactly if there is
one. An exit that wakes its parent needs `JoinersWillWake` in its strong form:
the parent awaits this thread, or all its kids of which this is the last.

### The ring (`HotPotato_proofs`)
Assumed are at least two players, any number of hops, retries and faults, and a
block of at least one entry; `AddrlenOutcomes` may be any set of outcomes, and the
processes may run on any hosts.

`OnePotato` counts, and counting is not inductive: `OnePotatoAtMost` says
instead which queue may hold the potato, and `PhasesInv` when there may be one,
by what the master is doing. The track needs the neighbours: a potato in
somebody's queue came from a neighbour of his (`TracksInv`), so passing it on
extends a walk. Neighbours need an order of messages: whoever was notified has
its addresses, or finds them *in front* of its queue (`NeighborsInv`), because
the master notifies all before it throws the potato. That an index is given once
needs that a process says hello once and then waits (`HellosInv`).

A process that took an index it was not given (`Guessed`) makes one thing false:
that the player of this index finds its neighbours in front. `NeighborsInv` claims
it for indexes nobody else took (`Alone`). What stays true of whoever listens on
the port is that it never has the address of anyone but the neighbours of its
index, because the master sends nothing else there (`NeighborsKnown`); so the
potato still walks, and there is still one, because a port has one listener on a
host (`IndexesInv`).

### The name space (`RamdiskTree_proofs`)
Assumed are finitely many addresses, at least one name, a directory that costs
something, and that NULL, garbage and the root are no addresses. Nothing is
assumed about what a directory's `parent` was left with.

What holds always is that lists have live files only, that the account is
the sum over them but for what memory that ran out has left (`phantoms` and
`lost`), and that only regular files lose their blocks. What holds until a rename is misled is `ListsAreSound`; then
each file is on one list, which is what lets an `unlink` free it. `NamesDiffer`
holds until a rename also takes a name in use. `IsRooted` says that every set of
files has a member in a directory outside the set: it is how "no cycle, nothing
cut off" is said without recursion. A rename could break it by moving a
directory below itself, and does not, because the kernel compares the *paths*:
so the proof needs that two paths never lead to one file (`OnePath`), that a
walk into a set enters it from outside (`WalkEnters`), and that a path which goes
through the moved file therefore begins with the old path. From `IsRooted`
every file has a path (`AreReached`), and none is longer than there are
files (`ShortPath`), since a walk never comes to one file twice.

The walk is a recursive function of the path. Its defining equation is proved
for every path by the least counterexample (`WalkExists`, `WalkSteps`), and all
else uses that equation.

### The service of the name space (`RamdiskTree_proofs`)
`FileNamespace` has a map from paths to files and no tree: what a user of the
disk believes in. As long as no rename was misled, took a name in use or crashed, and no rename,
`mkdir` or `truncate` met a `malloc` that failed, each handler is a step of this
map. What has to be
shown is that a change of one list changes the walks of the paths it should
and of no others. A function on paths that starts at the root and takes the steps
of a walk *is* the walk (`WalkIs`); so it is enough to write down the walks after
a step and to see that they step rightly. A file that is added is found at one new path and
at none beyond it (`WalksAdd`); one that is deleted is missed at its path only,
because it was a file or an empty directory (`WalksDrop`); and after a rename a
path is what it was with the old beginning put in place of the new one
(`WalksMove`), which is a path of its own because the kernel lets no directory
be moved below itself and the new name was free. What the map takes of the disk is what
`current_size` counts, since every file has a path (`AreReached`) and only one
(`OnePath`): the two sums are over sets that a bijection relates (`UsedIs`, from
`SumMapped`). Last, a disk that is broken stays so (`StaysBroken`).

### The account (`RamdiskQuota_proofs`)
Assumed are at least one thread and finitely many, finitely many objects, a
directory that costs something and no more than the largest request.

`used` is a ghost that changes when an update begins. Until two
overlap there is one updating thread at most, the account is short of `used` by
this thread's `delta`, and what it has loaded is still the account (`OneUpdates`,
`AccountLags`). With one overlap there are two updating threads at most
(`TwoUpdate`), and what the later store hides is in `overlapped`
(`AccountLosesOne`); that `used` is the sum over the tree is `UsedIsCounted`.
For the limit it is not enough to bound `used`: a thread past the
check holds a promise of room that others may have used up meanwhile. `RoomLeft`
says that of the threads past the check one has its own request still fit, with
one largest request for each of the others, under the bound. A thread that
passes the check becomes this one: the account it was told is short of `used` by
the one update under way at most, and the thread that makes it is not among
those past the check, which leaves a request to spare. One that begins its
update turns its own request into `used`; if it was the one, another of those
left takes its place. The step from the sum of requests to their number is
`TimesMonotone` and the cardinality of `Passed` with one thread more or less.

### The lists (`LinkedList_proofs`)
Assumed are that NULL is neither a cell nor an element, and a bound of at least
one on the length; cells, elements and walkers are any sets.

The list is the path along `next` from `l_head` for as many steps as cells are
linked. It is a recursive function; that there is one such path, and only one, is
proved with the least index at which it could fail (`PathAgrees`, `PathExists`),
and each call then only has to name the new path and show that it follows the
new pointers (`ChainAfter`). `ChainIsSound` says that the path has distinct cells
with distinct elements, `ChainEnds` that `l_tail` is its end, `Pending` where the
one cell is that has been linked and not counted, or cut and not discounted. A new
cell is on no path because it lies in a set that nothing points into
(`UnusedIsApart`).

For the walks without a lock `WalkIsSound` says, of a walk at any of its
instructions, that if what it looks for has been on the list ever since the walk
began, then the walk still gets to it in time (`OnItsWay`): its cell is on the
list at or before the element, with turns enough left; or it is the cell just cut
out, whose `next` still leads there; or a deletion has left it beside the list and
its next turn dereferences NULL, so that it gives no answer. Two facts carry
this. A deletion moves everything behind it one place forward, so a walk that
has read an older, larger size only has turns to spare (`DeleteMeetsWalk`). And in P4 no
pointer leads from the list or from a cut cell to a cut cell (`NoStrays`), which
is why `ramdisk_list.c` has to clear the pointer to a deleted last cell.

`ListService` sees an element when it is counted, and loses it when its cell is
cut out; every other step leaves the sequence as it is.

### The parser (`Parser_proofs`)
Nothing is assumed: tokens are arbitrary, and so is the bound on the length of a line.

Each place of `parse.c` that reads a token has one lemma, about any state and any
token. `IInv` says between two tokens what is already complete (`Made`: the pipes
behind it and the commands of the pipe it is making) and what the command it is
reading has been promised (`Reading`: a file name if it is at `<` or `>`, the
output of the command before it if there is one). A command is closed only where
`Reading` gives it all that `PipesConnect` asks. `ReadsItsLine` needs in addition
which token was read last at each place (`AtToken`), because only a redirection
looks past the end of a line.

### The shell (`Shell_proofs`)
Assumed are that the lines are ones `mkPipe` and `mkCmd` build, that a pipe holds
something and that stdio reads at least one line at a time; lines, the number of commands
on a line (`MaxCommands`), files, sizes and the length of a session are arbitrary.

*Tables.* A table is described by what it will be once everything is put back,
its *base* (`IsBase`): standard input where it belongs, no ends of pipes, nothing
else open unless a redirection failed. `ShellIs`, `StageIs` and `CommandIs` say at
each place of a process how far its table is from one: during a command the locals
of `parseCmd` still lead back (`Restored` of the table is a base), between two
commands the two ends of one pipe are on top of it (`HasEnds`), a stage has what
its command needs and no other end (`UsesPipes`). The work is in what the system
calls do to any table: which numbers `open`, `dup` and `pipe` take is found by
counting (`FreeIs`), and that what `parseCmd` saves first and closes last leaves
the table it found, for every combination of redirections and files that do not
open, is one lemma (`Redirecting`; `Failing` for an output file
that does not open). A pipe's
ends come in pairs in the shell (`IsPaired`), which is why a writer always has a
reader.

*Output.* A buffer of stdio holds only what `ush` itself printed, and nothing
while `direct` holds (`IsBuffer`); so whatever a program writes comes from its own
table, which `CommandIs` describes, and what `ush` prints then is written at once,
from a table that is redirected as its line says. `StdioInv` says what `mode` does
to the buffers, and that a session at a terminal without a `.ushrc` is in line mode
from its first prompt on. For a line read while text is still kept nothing is
claimed of what `ush` prints, because it goes where the next flush finds stdout.

*Input.* `IInv` leaves open which of the inputs a line allows a table has; which it
is, is a second invariant, inductive with `IInv` (`InputInv`): if the input file was
opened, descriptor 0 is that file until the table is restored, and the command has
what its parent has.

*Lines of files.* `LinesAre` relates four things: what was executed, what stdio
has read ahead, the offset, and how often the offset was moved back. Nothing
below an offset is missing from the first two or from what commands ate
(`NonePassed`). For each line, how often it was executed, and once more if it is
read ahead, is at most how often the offset of its file was moved back, and once
more if the line is below the offset (`Counted`). Reading raises one side as it
raises the other; giving back lowers an offset and counts a move.
`Once` is the sharper count after a single move: what was executed before is
still below the offset, because stdio gives back only what it had read ahead and
not executed.

*Units of a line.* `Accounts` keeps the books of one line of which stdio has kept
nothing: a command
behind the one at hand has put out what its line promises, one ahead of it nothing,
and a program that is running what it promises less what it has left (`Phase` says
which of the three the command at hand is, from where the processes are). A filter
is the exception: what it has left is not a number but what is in its pipe. So the
last conjunct balances each pipe: what went in is still in it or was put out again.
When the filter ends its pipe is empty, and its account is closed with that of the
stage before. That no copy of a process writes a unit again is `IsBuffer`: while
`direct` holds there is nothing unflushed to copy.

### Only model-checked
Liveness (`NoStarvation`, `RingTerminates`, `LinesEnd`), since fairness and
`ENABLED` are beyond the prover. `LegalIsParsed` and `KeepsABeginning`: they
compare what a fold computes from a whole line, and would need an induction over
data, which the prover cannot do. `RamdiskFile` compares whole files in the same
way (`BytesAreStored`, `ReadsBack`), and `ArrayFits` needs to know that the fold that
fills the blocks leaves the array as long as it was. In `Builtins` folds resolve the
paths and search `PATH` (`PwdIsCwd`, `RunsWhatIsNamed`). No proofs were begun for these
two modules, so `AppendsKeepSize`, `CrashesAreKnown` and `NiceIsForTheCommand`, which
need no fold, rest on their runs too.

## 5. Not modelled

- *P1:* a thread that returns from its start function without calling
  `MyThreadExit` (the manual forbids it); what other memory that
  is carved from a freed thread puts there. A dead address keeps its fields until
  it is a thread again; in the code the application's own `malloc` may take it in
  between, and so may the library's later ones, for a stack, which it
  clears, or for lists and their cells (`mythread.c:124`, `:132`, `:135`, `:138`), and an orphan's reads at `:229` and
  `:240` see those bytes. `decompose_list` is empty.
- *P2:* the characters of `nextToken` (a word that is too long and a quote that
  does not close are tokens; a character above 127 would end the input);
  `freePipe`; names longer than `MAX_DIR_LEN`; the difference between `>` and
  `>>`; `fork` and `pipe` that fail. `&` is parsed and never looked at. SIGPIPE
  is left out because `TablesAreSound` shows it is never sent.
- *P3:* a `recv` of the 4-byte index or of the 20-byte `_msg` that returns less, or of a long track
  that returns 0 or -1, which would loop for ever; a second torn call in one
  transfer.
- *P4:* an allocation of a list or a list cell that fails (the process exits);
  disks of 2048 megabytes and more, whose size overflows an `int`
  (`ramdisk.c:2154`); reads of one file's blocks while it is written or
  truncated, and a `readdir` whose list changes, because what the kernel lets
  overlap there is not in the repository; use of a freed file beyond the walk
  that found it; the log, which is compiled in only for debugging.
- *Build files:* compiler calls.

## 6. Plan

1. Proofs: `AppendsKeepSize` of `RamdiskFile`, which is arithmetic, and of
   `Builtins` `CrashesAreKnown` and `NiceIsForTheCommand`, which are cases.
2. `RamdiskFile` with two threads, once it is settled which operations the
   kernel lets overlap.
