# A TLA+ development of OS-Coursework

This directory specifies, model-checks and proves properties of the programs in this
repository: the homework programs under `assignments/` and the exercises under
`exercises/`. They are small C programs about processes, threads, monitors, semaphores,
message queues, sockets and memory, and what is hard about them is concurrency: who may
run between two lines, who is woken, who waits for whom.

## 1. Inventory: the system's parts

| part | state it keeps | operations | how it interacts | what is hard |
|---|---|---|---|---|
| hw5 match maker (`matchmaker.c`, drivers 1-6) | waiting list of `Player` structs, the pair that plays, `done_count`, the stop flag | `findMatch`, `donePlaying`, `stopMatchmaking`, `destroyMonitor` | player threads share one mutex; one condition variable per player and one for the game | signals against stops, one `playing_pair` for many games, the list under spurious wakeups |
| hw5 kitchens (`kitchen.c`, `ordered.c`, `global.c`, `takeAll.c`), ex09 `deadlock.c` | one lock per appliance or item; `running`; `applianceInUse` | each chef's lock, cook, unlock, rest | ten threads share the locks | who waits on whom: lock order, one global lock, all-or-nothing |
| hw4 `triangles-sem.c` | `vList`, `vCount`, `nextWorkIndex`, `global_count`, three semaphores | `readList`, `getWork`, `workerRoutine` | reader produces, workers consume | the unlocked test of the work index, the number of tokens |
| hw2/hw3/hw6 triangles (`triangles.c`, `triangles-thread.c`, `triangles.cu`) | a strided partition of the indices | fork/pipe/lockf, threads, CUDA threads | children write to one pipe | every pair counted once |
| hw4 shared editor (`edit.c`, `reset.c`) | the string in shared memory, its length, three undo steps, a named semaphore | insert, delete, undo, report, test, reset | any number of processes, killed at any point | reads and a reset outside the semaphore, `len` against the string |
| hw3 editors (`edit.c`, `edit2.c`, `reset*.c`) | the same without a lock; `edit2` keeps a ring of the last three edits instead of strings | insert, delete, undo, report, reset | one user, one command after the other | undo against a history that is full or does not fit |
| hw2 edit server (`server.c`, `client.c`) | the string, three undo steps; two POSIX queues | the receive loop, five commands, SIGINT | clients share one response queue | interrupted receive, responses taken by another client |
| hw6 parking server (`parkingServer.c`) | the table of parked cars | park, leave, show | one thread per connection, one lock | capacity, duplicates, fees, a consistent listing |
| ex11 allocator (`myMalloc.c`) | the free list of blocks | malloc, free, calloc, realloc | callers | splitting and coalescing |
| ex08 spin lock (`critical.c`) | a linked list, one spin lock | dequeue, enqueue, cycle | threads | nodes are neither lost nor shared |
| ex06/ex07 ping-pong | a turn variable; two semaphores | two threads | busy waiting, semaphores | strict alternation |
| ex05, ex2, ex03, ex04 | threads, children, a pipe, redirected files | process creation and waiting | fork, wait, pipe | output order |
| hw1 `stash.c` | the last background child, what stdio has read ahead | cd, exit, run | fork, exec, wait; shells share the input | a failed exec leaves a second shell, failed forks, several background jobs |
| hw1 `exclude.c` | an array of lines, the place in it | copying all lines but one | reads and writes | lines cut by the reads or longer than a row |
| ex17 message of the day (RPC) | the list of messages | count, get, add | RPC over UDP | repeated requests, a list that changes between two calls |
| ex16 HTTP client, TestServer | a buffer; a counter | read the response; count requests | sockets | the header split over two reads |
| ex18 floppy readers | an image file, one file position | FAT entries, directories | recursive calls share the position | 12-bit entries, chains of sectors |
| ex14, ex15 | a mapped file, arrays and lists | sorting, distances | none | exchanges in the file itself, links, tails |
| hw7 `top.c` | the table of processes | scan `/proc`, sort, print | processes start and end meanwhile | stale names, a full table |
| ex1, samples | none | printing | none | input and output only |

What makes each of the hard parts correct, in a sentence:

- match maker: pairs are mutual and compatible, no signal is missed, whoever is paired
  plays, and the stop ends every thread;
- kitchens, errands: nobody shares an appliance, no set of threads waits in a circle,
  nobody sleeps for an appliance that is free, all quit;
- triangles: every triangle is counted by exactly one worker, every count reaches main
  once, main's reads, waits and joins return;
- editors, edit server: the text is what the edits make of it, undo goes back to exactly
  the text before the last edit, the semaphore is given back, clients get answers;
- parking server: every answer is one a lot serving one command at a time could give;
- spin list: the nodes are a queue that loses none and gives none to two threads;
- allocator: blocks and holes tile the mapped memory, neighbouring holes are merged;
- shell: one shell at a time reads the input; message of the day: a listing has no gaps;
- ping-pong: strict turns in every build; the other small programs: what they list, sort,
  copy or print is complete and in order, however reads are cut and processes interleave.

The hazards these properties are aimed at are listed in `PROJECT.json`, each at its line.

## 2. Modules and how they follow the code

Modules that make a promise (abstract specifications) come first in each group, the
detailed ones that keep it next, then the instance for TLC and the proofs.

### Match maker (hw5)

`Pairing` is the interface of `matchmaker.h` with no threads or lists: requests wait, are
joined two at a time, or are refused once the match maker is closed.

`Matchmaker` is `matchmaker.c` as the drivers use it. The mutex is held from the entry of a
call to its `pthread_cond_wait` or return, so that stretch is one action: `FindMatch` /
`FindMatchRefused` (entry of `findMatch`), `WakeInFindMatch` (return of its wait),
`DonePlaying`, `WakeInDonePlaying`, `StopMatchmaking`, `DestroyMonitor`. The Player structs
are the pairs `<<thread, number of the call>>`, with their fields `next`, `matched`,
`opponent`, `done` as functions, and the waiting list is followed through `next` (`Visit`).
A scan of a list that has become cyclic never ends: it sets `spinning`, and nobody gets the
mutex again. `Spurious` says whether `pthread_cond_wait` may return unasked.
The skills of the instances are at its end; `MatchmakerProofs` has the proofs.

### Kitchens and errands (hw5, ex09)

`SharedAppliances` promises that two chefs that need a common appliance never use it at
once. `HoldAndWait` is the loop all the programs with one mutex or one-token semaphore per
thing have in common: `NextDish` (the test of `running`), `Acquire` (one lock call),
`Release` (one unlock call), `AskToStop` (main after its sleep). What differs is data, the
order of each thread's lock calls, in `MCHoldAndWait`, for all ten threads of each of the four
programs; the proofs are behind it in the same module. `OrderedOrder` is computed as in
`ordered.c`, by sorting with the positions in the enumeration. `TakeAll` is the monitor of
`takeAll.c` (`TryAll` one lap of the waiting loop, `ReleaseAll` with its broadcast,
`SpuriousWakeup`) with its ten lists and its proofs.

### Triangles (hw2, hw3, hw4, hw6)

`TriangleCount`: values are read, then the number of triples that form a triangle is
reported once. `GrowingList` is `readList` with its doubling array. `TrianglesPipe` is
hw2's parent with forked children and a pipe; `TrianglesSlots` is hw3's threads and hw6's
CUDA kernel, each storing into a slot of its own; `TrianglesSem` is hw4's work index under
two semaphores, with the unlocked test, the read and the write of the index, and each
increment of the count as separate actions. `MCExercises` puts the four side by side;
`CourseProofs` has the proofs.

### Editors (hw2, hw4)

`Editing` is a text and the texts before its last three edits. `CString` has C strings
in arrays, with what `strlen`, `strcpy` and `strncpy` do to the bytes behind the
terminator, which is what these programs depend on.

`EditServer` is hw2's receive loop with its bounded queues: `Receive` is `mq_receive` and
the switch, `Send` is `mq_send`; SIGINT (`Interrupt`, `InterruptReceive`, `InterruptSend`)
also lets a blocked call fail, after which the switch runs again on the last request. When
an insertion into a full string overwrites the last terminator, or a report is longer than
its array, C defines nothing: the server is then `"undefined"` and does nothing more.
Nothing reads a message while it is queued, so a queue is a number, and a request's
contents are chosen when it is received. What a client does without a server is left out.

`SharedEditor` is hw4's `edit.c`: one process is one run of the program, with an action for
`sem_wait`, the history, the string with its `len` and count, and `sem_post`. A process may
be killed at every point; `Reset` may run when none is working. The history is a separate
step from the string because the order of the two differs between edits and undo, and a
killed process leaves one without the other. Between `sem_wait` and `sem_post` the model
does not split the copying of a string byte by byte: under the semaphore nobody looks.

### Parking server (hw6)

`ParkingLot` serves one command at a time. `ParkingServer` has a thread per connection
(`Connect`, `ReadCommand`, `Lock`, the commands, `Unlock`); park's two searches, for the
plate and for a free slot, are two actions. `show` copies and sorts with the code's own
exchange sort. Commands refused before the table is looked at are one command `"invalid"`;
fees are in units of the hourly rate.

### Spin list (ex08) and allocator (ex11)

`CyclingQueue` is a queue from which a thread may hold one node. `SpinList` is
`critical.c`, with one action per assignment to `head`, `tail` and the links, so that what
the spin lock prevents can be seen when it does not. `MyMalloc` is the allocator: `Malloc`
(first fit, split, or `mmap`), `Free` with its merging, `Realloc`; sizes are in units of
four bytes, the multiple `malloc` rounds to, and what callers store is left out. The
code asks `mmap` for addresses that follow on from the last ones, and the model assumes it
gets them.

### Single-user editors (hw3)

`PlainEditor` is `edit.c` with `reset.c`: the hw4 editor without its semaphore, a command a
step, the history before the string as in the code. Its `Insert` and `Delete` move characters by `len`,
which `Undo` leaves as it is, so it implements only the undo half of `Editing` (`UndoSpec`).

`RingEditor` is `edit2.c` with `reset2.c`: a record of each edit in a ring of three indexed by
`undo_count`, and `Undo` does the opposite of the newest record. `undo_count` stops at three,
so the fourth edit without an undo goes to the first slot (`Place`), and undo then takes the
record of the third for the newest. `UndoGoesBack` therefore speaks only of histories that
have never been full when an edit came; behind that the model goes on, and where a wrong
record makes `memmove` leave the array it stops (`defined`).

### Shell and file filter (hw1)

`Shell` is `stash.c`. A step is one line, from `fgets` to the wait or the next prompt. `fork`
copies what stdio has read ahead of a file (a terminal hands out a line at a time), and a child
whose `execvp` fails goes back into main's loop, as another shell whose `exit` ends only
itself; `exit()` gives back what was read ahead. `waitpid` is called with -1 after a failed
fork. Only the last background child is ever asked for. `OneReader` excludes failed commands
in the background: two shells then read from the same input.

`Exclude` stores the characters of `exclude.c` one by one at `wholeFile[j][h]`, across the
rows if a line is longer than one; it stops (`defined`) where the array ends. What must come
out is said by ranks: a byte of a line that is kept is at the place given by how many such
bytes there are up to it.

### Ping-pong (ex06, ex07)

`Alternation` promises strict turns. `PingPongSpin` spins on an ordinary `int`: a build may
read it at every lap or once (`rereads`). `PingPongSem` has a semaphore for each thread;
whose turn it is, is where the one token is (`turn`).

### Message of the day (ex17)

`Motd` is the server's three procedures and two runs of the client, over calls that are
repeated until an answer comes or the client gives up. A request in `sent` may arrive any
number of times; a request of an earlier call only matters if it is an `add`. Answers are
matched to the last call, as `clnt_call` does by its transaction id.

### Floppy readers (ex18)

`FloppyDir` is `reportDirectory` of both programs as a stack of calls over one file position,
with the two versions of `getFat12` on the packed bytes of the table. The image is a tree of
directories whose chains end: `.`, volume labels and deleted entries are one kind that is
skipped. The report is compared with the listing of the tree: a route is a way of entries from
the root into its directories, and a file's line is where its route comes in the order of the
routes (`Routes`, `Earlier`). That needs no recursion, so it can be proved about.

### Process viewer, HTTP client, sorts (hw7, ex16, ex14, ex15)

`ProcessTop` scans `/proc` while processes start and end; names are handed out some at a
time, so one may be stale when it is opened. `HTTPClient` splits a response that arrives in
pieces of any size, a byte a step, by the last four bytes. `ListSort` and `ArraySort` are the quicksorts of ex15, the first with
its links and tails, one node a step, the second a lap of its loop a step; their recursive
calls are a stack of frames. `MappedSort` is ex14's exchange sort in a mapped file,
which may be interrupted between the two assignments to the file, and in which a distance may be
NaN.

### Process exercises (ex2, ex03, ex05)

`ThreeChildren`, `Pipeline` and `Interleaving` have an action per call. The children of
`children.c` keep their pids in copies of the parent's variables, so the parent waits with -1.
In `Pipeline` a process holds a set of descriptors, and the end of the pipe is reached when no
process holds a writing one.

### The proofs

Each proof module says what it is about in variables of its own, so that one proof serves
every instance: `CourseProofs` the shell, the message of the day, the ping-pongs and the
triangles, `ToolProofs` the editors, the process exercises, the process viewer and the HTTP
client, `FilterSortProofs` the filter, the three sorts and the floppy readers. `ExercisesProofs`
turns them into theorems about `MCExercises`: for each program it shows that the module it runs is the one the
proofs are about (`RingIsDesks`, `FloppyIsSorters`, ...), and that the steps of the suite are
those of the program picked (`StepsAreTheirs`). `ProgramsProofs` is about `MCPrograms`.

### The two suites

`MCPrograms` joins the hw2 server, the parking server, the list and the allocator;
`MCExercises` the triangle counters, the editors of hw3 and hw4 and all of the programs above. Programs
that share nothing can be explored together: `Init` picks the one that runs, the others
stay as they begin, and every property speaks of its own program.

## 3. The runs

| run | what it asks | result |
|---|---|---|
| `match_games` | four threads, two games each: is the list exactly the blocked players, is a wakeup or a possible match ever missed, does the stop end everybody? | holds |
| `match_spurious` | three threads with spurious wakeups, two games: are pairs still mutual, is `Pairing` still implemented? | holds |
| `match_driver4` | does a player leave a game before its opponent is done? | violated: finding 1 |
| `match_spurious_exit` | does the stop end every thread if wakeups may be spurious? | violated: finding 2 |
| `lock_programs` | ordered, global and the errands: locks accounted for, nobody shares, no deadlocked set, all quit | holds |
| `kitchen_deadlock` | do the chefs of kitchen.c quit? | violated: finding 3 |
| `kitchen_takeall` | marks are exact, sleepers have a reason, nobody shares, all quit | holds |
| `triangles_index` | is the index `getWork` returns one of a value? | violated: finding 4 |
| `editor_insert` | do insert and delete change the text as asked? | violated: finding 5 |
| `programs` | hw2 server, parking server, spin list, allocator, see the properties of section 1 | holds |
| `exercises` | triangle counters: the counts add up, tokens and indices are conserved, the number reported is right; hw4 editor with kills and reset: the semaphore comes back, the history is exact; hw3 editors, shell, ping-pong, message of the day, floppy readers, top, HTTP client, filter, sorts, process exercises: what they list, copy, sort or print is right, turns alternate, one shell reads, and all of them end | holds |
| `floppy_new` | is floppyDirNew.c's report the expected one? | violated: finding 6 |

### Bounds, and why they are enough

- **Match maker.** `match_games`: skills 0, 2, 4, 5 with a gap of 2, so a player's match
  is often in the middle of the list and two possible matches may compete; two games show
  what one game leaves behind for the next (`done_count`, `playing_pair`, a struct per call).
  `MaxGames` cuts the endless loops of drivers 5 and 6. Spurious wakeups get three threads:
  a cycle in the list takes one waiting player, and two others see it. `match_driver4` has
  that driver's skills.
- **Locks.** Four chefs of ordered.c and global.c and five threads of deadlock.c, chosen
  because their locks overlap in chains; with ten chefs there are too many states, and
  section 5 proves deadlock freedom for all ten errands, and for any number of threads whose
  orders ascend. `kitchen_takeall` has six chefs, so that several sleep for different
  appliances when one gives some back.
- **Triangles.** Every list of at most four values from {1, 2}: (1,1,2) is no triangle,
  the other triples are, so lists of one length have different counts; four values give a
  worker more than one first place, and three workers do not divide them evenly. The device
  has one thread more than there can be values. The first capacity is 1, so the array grows
  twice; `MAX_VALUES` = 4.
- **Shared editor.** Arrays of three bytes (two characters and the terminator), two
  processes, a history of three as in the code. One character suffices for `HistoryIsExact`:
  its texts differ in length, and each edit changes the length. `editor_insert` has four bytes and
  two characters.
- **hw2 server.** Three bytes, two characters; queues of one message, full and empty within
  a few steps, instead of ten. The one client may be killed and started again any number of
  times, which leaves answers nobody waits for; it stands for several clients one after
  the other, not at the same time. A report adds two bytes, so it overflows at a full string.
- **Parking.** Two connections, three plates, two places (the lot is full with a car at
  the gate). `HOUR` = 2 and times 1 and 4: stays of 0 and 3, a departure before the
  arrival, and an hour only begun; `FeesAreFair` compares the fee for every stay up to two
  hours past the maximum of three.
- **Small programs.** Ping-pong three turns each (the code: many): the last, the first and
  one with both behind it. hw3's editors have three bytes and two characters; an edit that
  finds the history full is the fourth. Shell: inputs of up to three lines and three
  processes, so that a fork can fail, a second shell can fork and a background job be
  hidden by the next. Message of the day: five executions of `add` on a list of three, so
  that messages are dropped during a listing; two clients. Floppies: three clusters in all
  orders, sectors of two entries, up to four entries, so that a directory ends inside a
  sector, fills one, or has a chain, of odd or even clusters. Top: three processes, a table of two.
  HTTP: responses of up to six bytes in reads of up to three, which cut the empty line everywhere and leave a
  body of two. Filter: inputs of six characters, rows of three, so a line can be
  longer than a row, and an array of four. Sorts: five elements, four nodes, four records of three
  values. `SIZE_MAX` = 7: with less than one record in the file `numPOIs - 1` wraps, and
  the run ends only because the largest number is small. `Pipeline`: three lines, room for
  two. One row of `interleaving.c`: main starts each as the first.
- **Spin list.** Three threads, four nodes: at the fullest one node is left in the list, the
  smallest list the code can stand.
- **Allocator.** Two pages of twelve units; sizes 1 (rounded up to a link), 3, 4 and 11
  (more than a page with its size field). They include rests just large enough to split and just too
  small.

A deadlock is an error in all runs except three, `match_spurious`, `match_spurious_exit`
and `kitchen_deadlock`, in which the system may really stop: a scan without end, and chefs
in a circle. Where a program has ended, a `Joined`, `Terminated` or `Ended` step says so.

### Fairness

Each thread or process that can take a step eventually does (weak fairness of its steps),
and main's sleeps and the input end. That is all the schedulers promise, and mutexes,
condition variables, spin locks and semaphores get nothing more: a waiter may be overtaken
for ever. `ChefsQuit`, `AllThreadsExit`, `ProgramsEnd` and `ThreadsReturn` hold all the same,
because once main asks them to stop the competitors leave one by one. In the last case that
needs the request: before it a thread may spin for ever.
`SemaphoreGivenBack` assumes only that a process between `sem_wait` and `sem_post` runs on
if nobody kills it, and nothing about those that wait. In `exercises` the program that was picked goes
on while it can; top itself goes on while other processes start and end around it; users of editors need not go on. `ProgramsEnd` exempts the editors and the build of
`ex06` that spins on a register. `ClientsAnswered` needs strong
fairness of taking an answer: Linux hands a message to the reader that has waited longest.

## 4. Findings

1. `done_count` (`matchmaker.c:133`) counts the calls of `donePlaying` of all games and is
   never reset, so from the third call on nobody waits for the opponent; driver4.c says
   "we'll have to wait for the other player before we can exit". `match_driver4`.
2. After a spurious wakeup `findMatch` pushes its player again although it is still listed
   (`matchmaker.c:112`). The list becomes cyclic, what was behind is lost, and a scan or
   the stop runs in circles holding the mutex. Pairs stay mutual, also then.
   `match_spurious_exit`.
3. Merry and Merlin of kitchen.c take mixer and blender in opposite orders and block each
   other. `kitchen_deadlock`. (The repository has this program to show the problem that
   ordered.c, global.c and takeAll.c then avoid.)
4. `getWork` (`triangles-sem.c:77`) tests the index before it takes the semaphore and not
   after; with one index left a second worker gets `vCount`. The count is still right,
   because the global array holds zeros there and no triangle has a side of 0:
   `ImplementsTriangleCount` holds in `exercises`. With `MAX_VALUES` values the read is
   outside the array. `triangles_index`.
5. `undo` (`edit.c:111`) does not restore `len`, so the next insert or delete moves too few
   or too many characters. The history itself is exact, `HistoryIsExact` holds.
   `editor_insert`.
6. `getFat12` of floppyDirNew.c (`floppyDirNew.c:92`) begins at the first byte of an odd entry
   but takes the second and third byte for it, so chains end or go astray at an odd cluster.
   Of disk-2.img it prints 1469 of the 1985 lines of `expected-2.txt`; floppyDir.c prints
   them all. Without odd clusters both print the tree (`ReportIsTheTree`). `floppy_new`.

Flaws that no document of the repository denies are in the models and in the hazards, and the
properties state the condition under which they do not show: the ring of `edit2.c` after
three edits, the second shell of `stash.c`, and repeated `add`s of the message of the day.

## 5. What is proved

The proofs hold for every value of the constants that satisfies the named assumptions, which
TLC also evaluates on the instances. No liveness is proved. What is assumed:

- `ThreadAssumption` (Matchmaker): finitely many threads, integer skills and gap, at least one
  game; `NULL` is no player. `~Spurious` where a theorem says so.
- `PlanAssumption` (HoldAndWait): each thread takes at least one lock and none twice.
- `NeededAssumption` (TakeAll): each chef needs at least one appliance.
- `ProgramsAssumption`: sizes, times and limits are natural numbers, a page and a link are not
  empty, an hour is not, `None` is neither a client, a plate nor an answer, and `NUL` is no character.
- `NodesLeft` (SpinList): fewer threads than nodes. With as many, the list may run empty, which
  critical.c does not look for: it has 100 nodes and as many threads as its command line says.
- `ExercisesAssumption`: integers in the lists of the triangles, at least one worker (main
  refuses fewer), a turn, a terminator in a string, positive process ids; `None` is no process
  and no call, `NULL` no node.
- `FloppyConstants`, a part of it: every image is well-formed (`WellFormed`). No directory contains
  itself, chains are of different clusters, and a directory has no more entries than its chain
  has room for. TLC evaluates it on all the images of the runs.
- The theorems about a single program name its own constants as hypotheses (`HttpConstants`,
  `FilterConstants`, `LinkConstants`, ...): capacities are natural numbers, and the like.

**MatchmakerProofs.** `TypeCorrect`, `PairsAreMutual`, `OnlyMatchedPlay`, `PairedAreNotRefused`,
`MatchmakerImplementsPairing`: a pair is
mutual, compatible and for good, whoever plays has one, nobody is refused before the stop, after
being paired, or paired after the stop.
All hold for any number of threads and games, with and without spurious wakeups, which
is more than the runs show: the pairing survives the broken list of finding 2. The invariant
is `PairsMutual` and `PlayersAreMatched`, strengthened by two facts. `NothingAhead`: a Player
of a call that has not begun is neither allocated nor matched; without it the Player of a new
call might already have an opponent. `RefusedAfterStop`: a thread that exits unmatched has seen
the stop, which is why the mapping may call it refused. `MakePairEffect` picks from a scan
what the other steps need to know of it, so these proofs never follow the links of the list. Each
step of the monitor is then a `Wait`, a `Join`, a `Refuse`, a `Close` or a stutter of `Pairing`.

`ListHoldsWaiters`, `ListStaysAllocated`, `NoWakeupIsLost`, `NoMatchIsMissed`, `EveryScanEnds` are
about the list itself and need `~Spurious`: finding 2 is what happens without. `ListInv` says
that some sequence of distinct players leads from `waiting_list` through `next` to `NULL` and
consists of the blocked players (`ListIsProper`), that whoever is woken was matched or stopped
(`WokenForAReason`), and that no two waiters are compatible. The last needs the first, as only
a complete scan shows that nobody suits; the first needs the second, because a thread that
wakes up unmatched would push its player again. That `Visit`, the recursive function over the links, walks exactly
that sequence is an induction on its length, with `NatInduction`'s set form below.

**MCHoldAndWait.** `LocksAreAccountedFor` is inductive together with `TypeOK` and
`CountReset` (a chef that rests, cooks or has exited has no call counted), for every plan.
From it follow: `NobodySharesAnAppliance` (a cooking chef holds all it needs, and a lock has
one holder), `LocksImplementAppliances`, and `OrderedLockingIsDeadlockFree`: if the plans
ascend in some ranking of the locks, no finite set of chefs is deadlocked. In such a set,
take the chef that waits for the lock of the highest rank; the chef that holds it waits for
one that ranks higher still. `ErrandsNeverDeadlock` applies this to the ten threads of
deadlock.c, whose orders do agree with one ranking (`ErrandsRank`) though nothing in the
code says so. kitchen.c has no such ranking.

**TakeAll.** `MarksStayExact`, `NoWakeupIsLost` and `MonitorImplementsAppliances`.
`SleepersHaveReason` is inductive only together with `MarksAreExact`: a chef falls asleep
over a mark, and the invariant turns the mark into a chef that is cooking and will broadcast.

**ProgramsProofs.** All safety properties of the `programs` run.

- Allocator (`HeapAlwaysTiles`, `HeapAlwaysMerged`, `HeapAlwaysLinked`): in `HeapInv` the
  allocated and the free blocks are disjoint and cover the memory mapped so far, the free ones
  ascend with a gap between neighbours, and each has room for a link. The order and the gaps are what
  makes `returnBlock` find both neighbours of a block in one walk. `HeapOK` has a parameter for the block that has just been
  taken out of both, so that `Realloc` is a free and a malloc in sequence.
- Parking server (`ParkingAlwaysSafe`, `CarsSeeOneLot`): `ParkingInv` is the lock. `LotInv` adds
  that the table has no plate twice, and what each thread has found out by where it stands: between the
  two searches of `park`, the plate is not in the table. `Answer` of the lot is mapped to the
  step under the lock that settles the answer. That `show`'s exchange sort gives an ascending
  permutation is proved over the loops' turns, as `Sorted` is a function on them.
- String server (`ZerosAlwaysBehindText`, `StringsAreEdited`): `Sound` says of the text and every
  string `undo` may reach that it is padded with zeros, and each is at most one longer than the
  text an edit later. That is why `strcpy` of a shorter string over a longer one leaves
  only zeros behind: at most one character is to be erased, and the terminator does it.
- Spin list (`ListIsAQueue`): `ListInv` holds a path of distinct nodes from `head` to a node
  without a successor, and every node is on it or in one hand (`Listed`). A thread that takes the node
  at the head must not be the one that takes the last: as fewer threads than nodes hold one
  each, a count (`NodesLeft`) leaves one. The lock makes the steps of one `dequeue` or `enqueue` follow on each other.
- `ProgramTypesCorrect`: the type invariants of all four.

**CourseProofs and ExercisesProofs.**

- `PlayersAlternate`: both ping-pongs implement `Alternation`, for any number of turns (the
  run has three; the code has 500). For the spinning one the invariant is that a thread that
  has left its loop still has the turn, and it does not matter how the build reads `nextTurn`:
  the race can keep the threads waiting and cannot let them overtake. For the semaphores it is
  `OneToken`: one token, in one semaphore or in the hand of one thread, so that `turn` is
  well-defined.
- `OneShellReads`: a shell that waits for another shell leaves the reading to it. In `ShellInv`
  shells that do not wait so are called tips; whoever is awaited is a child of the waiter, and
  there is at most one tip, unless a failed command was in the background. A step that ends a
  shell, or starts one, moves the tip along the chain.
- `ListingsHaveNoGaps`: `MotdInv` has the server's list as a window on the executed `add`s, and
  for each client how far its last call and what it has printed may lag behind. A late or
  doubled `add` only moves the window on, and a listing asks for indices in ascending order, so
  it may see a message twice and never skips one.
- `TrianglesAreCounted`, `CountsAlwaysAddUp`: for every list, number of workers and capacity.
  Each triangle belongs to one worker, by its first (or last) place, and each invariant
  splits the set of all triangles into those already in the total and those still
  in the pipe (`PipeInv`), in slots (`SlotsInv`) or left at an index given out
  (`IndicesInv`). For hw4 the invariant also says where the tokens are, that whoever holds the mutex is at
  the next index, and that the others count at different, earlier ones; an index past the list
  has no triangles, which is why the unlocked test of finding 4 does not matter for the count.
- `UndoIsExact`: for hw3's editor every step is an edit of the history, an undo or a reset.
  For hw4's, `SharedInv` says that one process is between `sem_wait` and `sem_post`, that it has a
  command which is not refused, and that a string just restored is the copy of `prev[1]`. The
  mapping (`Text`, `History` of `SharedEditor`) takes an edit to happen when the history is
  shifted, and an undo when the string is restored; a process killed in between stays there,
  with the semaphore, until a reset.

**ToolProofs.** Each theorem is about one program with variables and constants of its own, and
states the type invariant and what the run checks as its part of `AllTypesOK` and `OutputsAreRight`.

- `RingGoesBack`: each record in the ring, applied to the text of its turn, gives the text
  before it (`RingInv`), as long as no edit was made with the ring full.
- `PipeIsDrained`: `PipelineInv` relates who holds a writing end to who may still write, so that grep's end of
  file means that ps has printed all.
- `ChildrenPrintFirst`: the parent has reaped as many children as its `waitpid` calls returned,
  and there are as many lines as children that have ended (`FamilyInv`), each printed before the
  parent can be gone.
- `RowsAreComplete`: in `RowInv` a row holds what each thread has written, in its order, and is no
  longer; main goes on to the next row only after joining all three.
- `ListIsAlwaysComplete`: names are handed out in the order of the pids (`ListInv`), so a process
  behind the cursor is in the table, among the names in hand, or has not been there all the time.
- `ResponseIsSplit`: `last4` is the window of the last four bytes (`HttpInv`), whatever the reads cut.

**FilterSortProofs.** Likewise; for the floppy readers, with clusters, entries and chains of any number.

- `LinesAreKept`: the line in memory is the one just read (`FilterInv`), and what is written are the bytes
  with the ranks so far.
- `ArrayIsAlwaysSorted`: two values that are out of order are in the part of one call on the
  stack (`ArrayInv`); with the stack empty there are none.
- `ListIsAlwaysSorted`: each frame of the recursion owns a set of nodes, the sets are nested or disjoint, and
  each list is a path through its set to a tail (`LinkInv`). The pivot leaves the
  set at every level, so the cardinality bounds the depth.
- `FileAlwaysKeepsRecords`: with `tmp` put back where it is missing, the file is a permutation of the records, and
  the places before the outer index are final (`MappedInv`).
- `ReportAlwaysTheTree`: `WalkInv` says which entry of which directory the file position is at, and of
  each call that waits where its position is to be put back; this does not depend on the
  tree's listing. `RouteInv` adds that a route leads through the calls on the stack to that entry, and that
  the report is the listing before it. A directory's entries come between the entry that names it
  and the next one in the order of the routes, so entering and leaving it keep the report a
  prefix of the listing. The model has two directories below the root, so three calls at most.

**Together.** `OutputsAreAlwaysRight` and `AllTypesCorrect` are `OutputsAreRight` and `AllTypesOK` of
`MCExercises`: whichever program is picked keeps being the one that runs
(`ProgramStays`), its steps are those of its module, so the theorem of the module applies. For the types of the
triangle counters `CounterTypes` adds to their invariants that main does not read, join or post more
often than there are workers.

Where a value is defined along a list or a loop, the induction is `NatSetInduction` over the
set of indices at which the claim holds.

## 6. Only model-checked

- All liveness (`AllThreadsExit`, `ChefsQuit`, `ProgramsEnd`, `ThreadsReturn`, `ClientsAnswered`,
  `SemaphoreGivenBack`): the proof system does not reason about fairness and ENABLED.
- That ordered.c's sort yields ascending plans (`SortSeq` is a recursive operator).

## 7. What is not modelled

- Wording, command-line parsing, dish counts, durations, timing measurements.
- `report` of the hw4 editor, which takes no lock and changes nothing; `reset` while an editor runs.
- Blocking writes to a socket and SIGPIPE in the parking server; which client gets which
  response in hw2. These are listed as hazards with no property.
- How stash splits a line into words, and the directory `cd` changes to; names, sizes and dates
  of floppy entries, and images that are not well-formed; encoding and errors of RPC; the
  HTTP client's connection and request, and TestServer.java, a fixture that prints what it gets.
- top.c's other output lines (one file of `/proc` each); `top 2.c`, `topO.c` and
  `floppyDirO.c`, which are copies or templates of the programs modelled; `redirect.c` (ex04),
  two calls of `open` and an `exec`; ex1 and the samples: input and output only.

## 8. What is left

All parts with state of their own that more than one step can disturb are modelled: first the
monitors and lock programs with their proofs, because the most concurrency is there, then
triangles, editors, servers, list and allocator, then the small programs. Every invariant and
safety property that holds in a run is proved, in the same form in which the run checks it.
What is left is what sections 6 and 7 name, and floppies with more directories than two.
