# The translator backend in TLA+

The program under `src/` is a small HTTP server for editing the localisation
of a game. It keeps every translated line in two files: `menus.locpack`, a
comma separated text file that translators and tools also edit by hand, and
`menus.locpackbin`, the binary file the game reads. It is built on two vendored
libraries, Crow for HTTP and Asio for sockets, timers and threads. This
directory holds TLA+ modules of both stores, of the server over them, of the
parts of Crow and Asio that have state and concurrency and that the server
runs on, TLC runs on small instances, and TLAPS proofs for every value of the
constants.

To repeat a check, in this directory:

    tlc -workers 2 -config bin_store.cfg MCLocPackBinFile
    tlapm LocPackFileProofs.tla

## 1. The system

| Component | State | Operations | Talks to |
|---|---|---|---|
| `LocPackBinFile` | `fileContents`, the whole binary file as one vector; the file | constructor (load), `updateEntry`, `getTextByHash`, `convertHash` | the file, through an `ofstream` nobody checks |
| `LocPackFile` | `doc`, the document rapidcsv holds; `lastLoadTime`; the file | constructor, `refreshDocument`, `parseLocPackRange`, `parseLocPackWhole`, `findHashIndex`, `updateEntry` | the file and its modification time; other programs write the same file |
| rapidcsv (vendored) | rows of cells | parse, write, `SetRow`, `GetRow`, `Save` | called by `LocPackFile` |
| `LocPackServer` | the two stores as members | `POST /api/update`, `GET /api/range`, `GET /api/search` | calls the stores from the handlers |
| `main` | none | constructs the server, runs it | a throwing constructor ends the program |
| `LocaleLine` | a record | getters, setters | result type of the parsers |
| Crow `Server` (vendored) | the acceptor, one `io_context`, one `task_timer` and one queue length per worker | `run`, `do_accept`, `pick_io_context_idx`, `stop` | hands connections to workers, a signal stops it |
| Crow `Connection` | its socket, `task_id_`, the request parser | `start`, `do_read`, `handle`, destructor | its worker's `task_timer` and queue length |
| Crow `task_timer` | the map of deadlines, the highest id | `schedule`, `cancel`, `process_tasks`, a tick | calls the connection's closing function |
| Asio `scheduler`, `posix_event` | the queue of operations, the count of outstanding work, a condition variable | `run`, post, defer, `stop` | one mutex for all threads of an `io_context` |
| Asio `epoll_reactor` | per socket the read that waits and whether to try at once; the interrupter; a timerfd | `run`, `start_op`, register, deregister, arm the timerfd | is one operation of the scheduler's queue; the kernel |
| Asio `timer_queue`, `deadline_timer_service` | a heap and a list of timers, the waits on each | `async_wait`, `cancel`, `expires_after` | under the reactor's mutex |

A request comes in through Crow, which runs the route's handler from start to
end on one of its worker threads. `main` asks for `multithreaded()`, and Crow
then has at least two threads, of which at least one runs handlers and one
accepts. Each worker runs an `io_context` of its own; the acceptor reads the
queue lengths one after the other, posts an accepted connection to a worker
that it found to have a short one, and from then on everything that happens to the connection is a handler of that worker. An update
calls `LocPackBinFile::updateEntry`, then `LocPackFile::updateEntry`; there is
no lock anywhere, no transaction over the two files, and nothing undoes the
first half when the second throws. Range and search read the text store only.

What is hard here, and what makes each component right:

* **Binary store.** There is no index: an entry is found by its hash bytes, its
  extent is computed from a two-byte length, and a splice moves everything
  behind it. Right means: the splice ends exactly where the next entry begins,
  nothing else moves or changes, the text reads back, and memory and disk agree
  when no call is under way. Threats are boundary arithmetic, a wrapped length,
  a second thread between search and erase, a save that fails or is cut off by
  a crash, and what the next start makes of it.
* **Text store.** It is a cache whose validity is decided by comparing
  modification times, with reads of time and content in separate steps. Right
  means: the document is never taken for current when it is not, and no call
  answers with, or writes back, rows older than the call. Threats are equal
  time stamps, an edit between two steps, failing saves that leave memory ahead
  of the file, and text that changes the number of cells.
* **Crow.** Right means: a connection that waits for its client has a deadline
  that belongs to it, a silent client is dropped, connections are dealt out by
  true lengths and only to workers that are ready, a signal ends the program.
  Threats are ids of deadlines that are used again, a deadline that fires
  while the read it guards completes, counts that drift over failed accepts
  and exceptions, and a stop in the middle of anything.
* **Asio.** Right means: no wake-up, no readiness event, no operation and no
  timer is lost, whatever the order of threads, and the loop stops when it is
  told to and not before. Threats are a signal sent after the unlock, edges
  that are reported once, an operation linked into the queue twice, a
  miscounted piece of work, a heap entry left in the wrong place, and a timerfd
  armed for a timer that is no longer the first.
* **Server.** Right means: 200 only when both files hold the update; the files
  differ only where an update is known to have got half way; every request is
  answered. Threats are errors and crashes between the two stores, the
  different spelling of hashes in the two files, and exceptions a route does
  not catch.

`PROJECT.json` lists each hazard at its line with the properties that cover it.

`Server.h` as committed lacks the brace that closes the loop of the search
route; the model takes it to be before the `return`.

## 2. Modules

| Module | What it is |
|---|---|
| `LocBinFormat` | the byte format and the pure functions of `LocPackBinFile.cpp`: `convertHash`, the search, the old size, the new entry, erase and insert, `getTextByHash`; the reading of a file as a table (`Decode`) |
| `LocPackBinFile` | `updateEntry` by any number of threads, saves, crash, restart |
| `LocStore` | the abstract store: a table in memory and a saved copy; both stores implement it |
| `LocCsv` | rapidcsv as used: `Parse`, `Written`, `SetRow`; the row filters of the two parsers |
| `LocPackFile` | the cache and its operations, and the other programs that write the file |
| `LocPackServer` | the routes; instantiates `LocPackBinFile` as `Bin` and `LocPackFile` as `Csv` |
| `CrowTimer` | `task_timer` as operators on a record |
| `CrowServer` | the acceptor, the workers, their handlers and connections, over `CrowTimer` |
| `AsioScheduler` | `scheduler`, `posix_event` and the sockets of `epoll_reactor`, for any number of threads in `run()` |
| `AsioTimerQueue` | the heap and the list of `timer_queue` as operators on a record |
| `AsioTimers` | `deadline_timer_service` and the timerfd of `epoll_reactor`, over `AsioTimerQueue` |
| `AsioWaits` | the abstract timers: what `basic_waitable_timer` promises its user |
| `MC...` | values for the constants, for TLC |
| `LocPackBinFileProofs`, `LocPackFileProofs`, `LocPackServerProofs`, `CrowServerProofs`, `AsioSchedulerProofs`, `AsioSchedulerWorkProofs`, `AsioTimersProofs` | theorems |
| `LoopTheorems` | lemmas about loops: what is kept by every round of a recursive function of the number of rounds |

The layers meet as follows. `LocPackServer` has workers that run one handler
from start to end. `CrowServer` is where the workers come from: it has one
queue of completed events per worker and leaves open what a handler does beside
its connection and its deadline. `AsioScheduler` and `AsioTimers` show what
such a queue rests on: what is posted is run, data that arrives is reported,
timers expire. Crow gives each `io_context` to one thread; `AsioScheduler`
allows several, as Asio does.

### How the modules follow the code

*One action is one thing the program does to what others can see or change*: a
statement, or one part of a statement that does several such things. A call
has a program counter and the locals it keeps. In `LocPackBinFile`, `Call` is
the entry, `BadHash`, `NotFound` and `Found` are lines 231 to 268 (which only
read the vector), `EraseOld` is 272, `InsertNew` 273, `ErasePastEnd` and
`InsertPastEnd` are the same lines when they reach behind the vector,
`OpenOutput` is the constructor of the stream at 276, which truncates. Line 277
is two steps: `FetchOutput` evaluates `data()` and `size()`, `WriteOutput`
writes what is there by then. In `LocPackFile`, `refreshDocument` is
`StatMissing` or `StatExists` (44), `TimeFails`, `StatCurrent` or `StatNewer`
(49), `ReadFile` or `RereadFails` (53), `ReplaceDoc` (59) and `NoteTime` (60).
`Find` and `SetDoc` are lines 213 to 227, one step each. `doc->Save()` is two:
`OpenSave` binds the document, opens the file and so empties it, `WriteSave`
writes the rows of the document that was bound. The scans are the two parsers.
`held[t]` is the document that only thread `t` still knows: `newDoc` before line
59, or, when another thread has replaced `doc` under its save, the document
that the save goes on through and that is `freed`. `updateEntry` refreshes twice, once itself and once in `findHashIndex`, and
ignores the result of the first; `pass` counts them. In `LocPackServer` a
worker's `task` is the request it handles; `BinStep` and `CsvStep` carry it
through the steps of the stores, and the `...Done`, `BinThrew` and `BinReturned`
actions are the rest of the handler.

In `CrowServer` a step is a handler of a worker, since its thread does nothing
else meanwhile and shares only the queue lengths and the posted connections
with the acceptor. One that answers a request is two steps: `Answer` up to the
synchronous write, in which the thread is "writing" until the client has taken
the answer, and `ReadMore` or `ReadLast` after it. A read that completes before
its deadline closes the socket is delivered all the same: its event stays in
the queue and is handled by `Aborted`, as a closed connection (`closed`), the
answer it may still produce going nowhere; `ReadStale` is an event of a socket
that had data when its deadline closed it before the read could take them. The
acceptor's steps are the single loads of queue lengths (`ScanLoop`, `ScanLoad`,
`ScanCompare`), `Construct`, which counts the connection, and `LetGo`, the end of
the accept handler, which holds a reference to the connection until then
(`holding`), so that the worker or the acceptor may be the one that counts it off.
In `AsioScheduler` a step is a critical section,
an access to the atomic counter, or a system call; `pc[t]` says between which
two of them thread `t` is, `then[t]` where it goes on after `pthread_cond_signal`
or `stop_all_threads`, which several places call. The thread that signals does
so after it has unlocked, so that others can come in between. In `AsioTimers`
what a call does to the queue is one step, because it holds the reactor's mutex
throughout. But the mutex does not stop the clock, and `update_timeout` reads
it (`GetTimeout`) before it arms the timerfd for a delay from now on
(`SetTime`): time goes by between the two, and `updating` says that somebody
holds the mutex there. `epoll_reactor::run` reads the clock once in
`get_ready_timers` (`CheckTimers`) and again in `get_timeout`; that `epoll_wait`
has returned with the timerfd and that the timers are looked at are two steps.
`expires_after` uses a reading of the clock that may be up to `MaxSlip` old.

*Data.* Bytes are numbers below `Base`, and the sizes of hash, values and bytes
are constants, so that TLC works with entries of a few bytes while the theorems
hold for the 256, 8 and 4 of the source. Text of the `.locpack` file is lines
of atoms between commas, since commas and line breaks are all that rapidcsv
sees in it with the settings used. An update reaches the two stores in two
spellings, and the server's requests carry both.

*Faults.* An open that fails, a write that leaves a prefix, a crash at any
point, a deleted file and other programs' edits are actions, switched by
constants (`Fault`, `FineClock`, `QuietStart`, `Version`, `MaxOutage`).

*Undefined behaviour.* A read past the vector yields any value. An erase past
its end kills the process or, as in libstdc++, shortens the vector. The
insertion that follows, at a place that is now behind the end, kills the process
or returns: the vector is then as much longer as the entry is, with bytes of
`Stray` between its old end and the place of the entry and as much of the entry
as fits. `spoilt` says that bytes that are no entry have been inserted. A write
of the binary file under which another thread has changed the vector writes the
old bytes, the new ones or stray ones. A save of the text file that goes through a
freed document writes what that document said or a text of `StrayText`, throws,
or kills the process. The fourth cell of a shorter row kills the process, makes
the call throw, or is taken for a string of `StrayText`; the answer is `tainted`.

*Abstractions to know of.* A hash has an even number of bytes, so that both
halves are equally long. The statements that use the vector or the document
are atomic but for those named above: what two threads inside one `erase`, or one
in a loop over the rows while another replaces `doc`, do to memory is left out.
The runs of the server leave out a write of the text store that fails
(`CsvFault`), which `csv_cache` has; the theorems on the server exclude it.
Other programs do not write the text file between the truncation and the write
of a save, nor the binary file at all. Quoted fields are atoms; unbalanced
quotes are left out. A new modification time is never older than the last.

A deadline in `CrowServer` is the number of ticks it has left, and all workers
tick together. The event queue of a worker is in the order of completion.
Reads in `CrowServer` are bounded by `MaxReads` altogether; a read that ends
the connection is always possible. In `AsioScheduler` the increment of
`outstanding_work_` and the push that follows it are one step: with the
operations that stay outstanding (`Guards`, Crow's tick) nothing can come of
the moment between. Sockets only read, since Crow writes synchronously. Nothing
is begun on an `io_context` after it was stopped, because nothing pushed there is
taken any more. `one_thread_`, `task_usec_` and `wait_usec_` have the values
that Crow's `io_context` gives them. A buffer full of data is the unit of data:
`Perform` either takes all there is or one unit.

## 3. Runs

| Run | Instance | Checks | Result |
|---|---|---|---|
| `bin_store` | 1 thread, 2 entries, 15 requests, no faults | `TypeOK`, `InSync`, `ImplementsStore` | hold |
| `bin_faults` | 1 thread, 3 requests, one of them with a text of more than `LenMod` bytes, failing opens and writes | `VariableLength`, `KeepsFraming` | hold |
| `bin_two_threads` | 2 threads, 2 updates | `KeepsFraming` | violated |
| `csv_cache` | 1 thread, 4 foreign versions of the file, all faults | `TypeOK`, `UpToDate`, `UsesVersionOfCall`, `ChangesSaved` | hold |
| `csv_two_threads` | 2 threads, 2 updates, no foreign edits | `ChangesSaved` | violated |
| `csv_stale` | `FineClock = FALSE`, `QuietStart = FALSE` | `UpToDate` | violated |
| `server` | 1 worker, 2 entries, one of them twice in the text file, 4 updates, failing opens of the text file, 2 crashes or deletions | `TypeOK`, `OkMeansBoth`, `StoresAgree`, `StoresImplemented`, `Answered` | hold |
| `server_silent_save` | failing opens of the binary file | `OkMeansBoth` | violated |
| `crow_server` | 2 workers, 3 connections, 2 of them with clients that send, deadlines of 1 tick | `TypeOK`, `OwnDeadline`, `QueueLengths`, `DealtOut`, `IdleDropped`, `StopEnds` | hold |
| `crow_deadline` | 1 worker, 3 connections | `EveryReadTimed` | violated |
| `asio_scheduler` | 2 threads in `run()`, 1 outside, 2 handlers, 1 socket | `TypeOK`, `OneReactor`, `EnqueuedOnce`, `WorkExact`, `StopsWhenTold`, `WorkConserving`, `NoLostData`, `Progress` | hold |
| `asio_timers` | 6 timers in the heap, 3 calls, 7 waits, 1 unit of time between a reading of the clock and its use | `TypeOK`, `QueueSound`, `ArmedInTime`, `ImplementsWaits`, `EveryWaitEnds` | hold |

The violated runs are disagreements between the code and what its comments or
answers say; `findings` in `PROJECT.json` quotes both sides. `csv_stale` drops
both assumptions of `CacheIsCurrent`; its shortest trace is the edit during the
constructor, and with `QuietStart = TRUE` the same run finds the second write
within one tick.

Some disagreements are plain from the code and have no run. A text of `LenMod`
bytes or more (65536) is stored under its length modulo `LenMod`
(`LocPackBinFile.cpp:265`, "handles variable length", `main.cpp:13`), which
`VariableLength` takes as it is: so much of the text reads back, and the rest of
it stands in the file as bytes of no entry. A text
with a comma or a line break is written without quotes and reads back as more
cells or rows (`LocPackFile.cpp:31` and 219, "Format: Hash, Value1, Value2,
String"). A page holds all lines whatever its limit and offset (`Server.h:71`,
"Pagination"; `LocPackFile.cpp:81-117`). A search of a file with a header is
answered 500, since `parseLocPackWhole` calls `stoi` on the header
(`LocPackFile.cpp:147`) and the route has no catch (`Server.h:109`, "Initialize
as a list to prevent 500 errors").

With two workers the promises of the stores do not hold, since nothing locks
them. `bin_two_threads` shows it for the binary file: both threads have found
the same entry, and the erase of the second one finds it gone and reaches past
the end of the vector. `csv_two_threads` shows it for the text file: a finished
update has made the file newer, the next call of its thread reads the file
again, and puts what it has read in the place of the document after the
other thread has changed a row of that and before it saves: the row is lost,
and the call returns. With one thread `ChangesSaved` holds (`csv_cache`, and
`RowsAreSaved` for every file of full rows).

**What the properties say.** `ImplementsStore` is the strongest of the binary
store: read as a table, the bytes change exactly as `LocStore` allows, so an
update replaces the first entry with the hash, leaves all others alone and never
shifts the boundaries. `Settled` is the refinement mapping of the one visible
intermediate state: between erase and insert the new entry counts as present.
`KeepsFraming` is what is left of it when a bad save and a restart have produced
a cut file: an update of the torn entry may do anything to the vector, but a
vector that divides into entries stays one, as long as only entries have been
inserted (`spoilt` is FALSE; an insertion past the end, or of a text longer than
its length can say, is none). `ImplementsStore` of `LocPackFile` says the same of the rows of the
text file while nobody else writes it, with the document as the table in memory
and the file's rows as the saved copy: a refresh may bring back the file at any
moment, and never anything else. `StoresImplemented` of `LocPackServer` checks
both where the routes drive the two stores, so that `InSync` and `OkMeansBoth`
do not hide a third entry that an update, a failure of the other store or a
restart has moved. `UpToDate` is about the cache alone; `UsesVersionOfCall`
about calls: `since[t]` collects the versions the file had during the call of
`t`, and an answer, or the text a save sets out to write, must come from one of
them. `StoresAgree` relates the two files through everything that can happen;
`suspect` holds the hashes whose last update is known to have stopped half way
(all of them when a crash hit a save, which loses the whole file), and a
successful update takes its hash out again.

`OwnDeadline` is what keeps the reuse of ids from being worse than it is: no two
pending deadlines share an id, and a pending deadline can always be cancelled
by its connection. `EveryReadTimed` is what fails: a connection may be left with
none (`robbed` collects those), and `IdleDropped` says that this is the only
way a silent client keeps its connection while the server runs, besides a worker
that waits for ever for the client of some connection to take its answer.
`StopEnds` has the latter exception too: a thread in a synchronous write does not
leave its loop, and `run()` waits for it. `DealtOut` is what is left of "the
shortest queue" when several threads change the lengths while the acceptor reads
them: the worker it picks need not have the fewest connections when it is picked,
but it has no more then than any worker had when the walk began (`began`).
That holds because only the acceptor adds connections, and would fail if a
worker could, or if a length were missed or counted wrongly.

`WorkConserving` and `NoLostData` are the two ways in which an event loop hangs:
an operation waits in the queue while everybody sleeps, or data waits in a
socket for which no event will come. `EnqueuedOnce` is the assumption a comment
in `epoll_reactor::run` makes and does not check. `WorkExact` gives
`outstanding_work_` its meaning, operation by operation. `Progress` is one
liveness property for both phases: what is posted is run, and after a stop
every thread leaves. `ImplementsWaits` is the refinement of `AsioWaits`: the heap, the list and
the timerfd, with all their intermediate states, end waits exactly as a timer's
user is told; `EveryWaitEnds` adds that they end at all. `ArmedInTime` says how
late that can be: a thread that is held up between its reading of the clock and
`timerfd_settime` arms the timerfd late by as long as it was held up (`slip`),
but only that of the last arming counts.

**Bounds.** In the binary store `MaxBytes` bounds the vector on which an update
begins; it is reached only with a text of more than `LenMod` bytes, which makes
the file longer at every update. Two entries are enough for a splice to
have a neighbour on either side, and the texts are shorter than, equal to and
longer than the old ones; `LenMod` is 9, and `bin_faults` has a text of 12 bytes.
`Stray` has one byte: what matters of stray bytes is that they are no entry. In the text store `MaxTime` bounds the
writes of the file after which no edit and no update begins, and `MaxOutage`
crashes and deletions together. Three writes cover an edit, a save and an edit
in any order around the calls; a fourth adds no new relation between the two
time stamps and the three versions of the text (the file's, the document's, the
one a call started from). In `server`, six writes are three updates, enough for
a failing update, a crash and an update that mends the entry.

`crow_server` has three connection objects: two on one worker are what it takes
for an id to be used again, and a third is dealt out while the lengths of the two
workers differ in either direction, and change during the walk. Two of them
(`Talkers`) have clients that send something or hang up, the third is silent. One read that
finds data is enough to renew a deadline, and a deadline of one tick can fire
before, during and after every other event, since a tick may come between any
two handlers. `asio_scheduler` has two threads for one to sleep in `epoll_wait`
and one on the condition variable while the third, outside, posts and stops;
two handlers, so that one can be deferred or posted by the other's thread; two
arrivals, so that data can come before, during and after a read; one
registration of one socket, since sockets share nothing but the queue
(every invariant of the run is proved for any number of all of these).
`asio_timers` starts with a heap of six, `SixEarly`: three levels, in which
removing an entry moves the last one into a place from where it has to rise,
which no smaller heap has. Three calls are enough to cancel or reset the first
timer, begin a wait in its place, and change that one again, with the clock
(`MaxTime`) and the thread in `epoll_wait` at any point between. The clock has
`Usec = 2` units per microsecond, so that times fall between those a timerfd
can tell, and `MaxUsec = 1` makes the cap of five minutes shorter than every
delay. `MaxSlip = 1` lets the clock go on between a reading of it and its use, in
any of the armings; how far does not matter, as no property names the bound.
The invariants and the refinement are proved for any number of timers, waits
and calls, and any delays.

**Deadlock.** `CHECK_DEADLOCK FALSE` stands in `server` and in the runs of the text
store with deletions (`csv_cache`, `csv_stale`), where
the file may be deleted for good while the process is down; nothing then
happens. It stands in the runs of Crow and of Asio's scheduler because these
programs end: `run()` returns, the threads leave (`StopEnds` and `Progress` are
what says that they do so). In `asio_timers` the clock and the calls are
bounded, and nothing happens when both have come to their end and no timer is
left. The runs of the binary store check for deadlock.

**Fairness.** `Answered` assumes weak fairness of `Work(w)` for each worker:
Crow runs a handler from start to end on the thread that took the request, and
the operating system runs the thread. No fairness is assumed of the
environment, of clients or of a restart: a crash frees the worker, and a
server that stays down holds no request.

`CrowServer` assumes weak fairness of each worker's thread, which is always able
to take its next handler, except while it is "writing"; of the acceptor's steps
inside its handler; of the clock, and of the end of `run()`, which waits for
futures. Clients and signals are free, and so is a client that never takes its
answer: nothing in the code ends that wait. `AsioScheduler` assumes weak fairness of each thread as a
whole: nothing is asked of the mutex or of the condition variable, no thread is
promised the mutex while others want it, and `Progress` holds nonetheless.
Data, posts, closes and the stop itself are free. `AsioTimers` assumes that the
clock goes on, that some thread runs the reactor, which is `Progress` of
`AsioScheduler`, and that whoever holds the mutex in `update_timeout` goes on,
which is two system calls.

## 4. Proofs

| Theorem | Statement | Assumes |
|---|---|---|
| `LocPackFileProofs!TypeCorrect` | `Spec => []TypeOK` | nothing beyond the constants' ASSUMEs |
| `LocPackFileProofs!CacheIsCurrent` | `Spec => []UpToDate` | `FineClock`, `QuietStart`, one thread |
| `LocPackFileProofs!AnswersAreCurrent` | `Spec => []UsesVersionOfCall` | the same |
| `LocPackFileProofs!RowsAreSaved` | `Spec => []ChangesSaved` | one thread; all files, its own and those of other programs, have rows of one length, 4 or more; updates hold no comma and no line break |
| `LocPackFileProofs!SavedAsLoaded` | a file that is parsed and written back is as it was | its lines hold at least one atom each, as lines do |
| `LocPackFileProofs!TextStoreIsImplemented` | `Spec => ImplementsStore` | one thread, no "write" in `Fault`, `Version = {}`, a file of four columns, updates without commas and line breaks; any clock |
| `LocPackBinFileProofs!TypeCorrect` | `Spec => []TypeOK` | nothing beyond the constants' ASSUMEs |
| `LocPackBinFileProofs!MemoryOnDisk` | `Spec => []InSync` | one thread, `Fault = {}`; any file, any requests |
| `LocPackBinFileProofs!TextsReadBack` | `Spec => []VariableLength` | one thread; any file, any requests, any `Fault` |
| `LocPackBinFileProofs!RestUntouched` | erase then insert changes the n bytes at p and nothing else | the erased bytes lie in the file |
| `LocPackBinFileProofs!EntryReadsBack` | the first match of the hash in the new file is the same place, and all four fields read from there are the new ones, the text as far as its length tells (`StoredEntry`) | the same |
| `LocPackBinFileProofs!StoreIsImplemented` | `Spec => ImplementsStore` | one thread, no "write" in `Fault`, `ProperFile`, `ShortTexts` |
| `LocPackBinFileProofs!FramingIsKept` | `Spec => KeepsFraming` | one thread, `ProperFile`; any `Fault` |
| `LocPackServerProofs!TypeCorrect` | `Spec => []TypeOK` | what the stores assume (`ServerAssumption`), any number of workers |
| `LocPackServerProofs!UpdatesReachBoth` | `Spec => []OkMeansBoth` | `Intact`: one worker, `BinFault = {}`, no "write" in `CsvFault`, `Version = {}`, `ProperFile`, `ShortTexts` (texts below `LenMod` bytes), the .locpack file has four columns and cells without commas and line breaks |
| `LocPackServerProofs!FilesAgree` | `Spec => []StoresAgree` | `Agreeing`: `Intact` and `SameEntries` (below) |
| `LocPackServerProofs!StoresAreImplemented` | `Spec => StoresImplemented` | `Intact` |
| `CrowServerProofs!TypeCorrect` | `Spec => []TypeOK` | nothing beyond the constants' ASSUMEs |
| `CrowServerProofs!DeadlinesAreOwn` | `Spec => []OwnDeadline` | the same |
| `CrowServerProofs!LengthsAreExact` | `Spec => []QueueLengths` | the same |
| `CrowServerProofs!ConnectionsAreDealtOut` | `Spec => DealtOut` | the same |
| `AsioSchedulerProofs!ReactorIsUnique` | `Spec => []OneReactor` | the same |
| `AsioSchedulerProofs!DataIsNotLost` | `Spec => []NoLostData` | the same (finitely many sockets) |
| `AsioSchedulerWorkProofs!OperationsAreQueuedOnce` | `Spec => []EnqueuedOnce` | the same (finitely many sockets and threads, one guard of work at least, as Crow's tick is) |
| `AsioSchedulerWorkProofs!WorkIsCounted` | `Spec => []WorkExact` | the same |
| `AsioSchedulerWorkProofs!RunsUntilTold` | `Spec => []StopsWhenTold` | the same |
| `AsioSchedulerWorkProofs!NoWakeIsMissed` | `Spec => []WorkConserving` | the same |
| `AsioSchedulerWorkProofs!SchedulerTypes` | `Spec => []TypeOK` | the same |
| `AsioTimersProofs!QueueIsSound` | `Spec => []QueueSound` | finitely many timers |
| `AsioTimersProofs!NeverLate` | `Spec => []ArmedInTime` | the same |
| `AsioTimersProofs!TimerTypes` | `Spec => []TypeOK` | the same |
| `AsioTimersProofs!WaitsAreImplemented` | `Spec => ImplementsWaits` | the same |

The arguments:

* **CacheIsCurrent.** `UpToDate` is not inductive: it says nothing of a call
  between its look at the time and the end of its refresh. `CacheInv` adds that
  `lastLoadTime` is not ahead of the file's time (`StampBehind`), that the document
  read by the constructor is the file's until it has noted the time (`FreshStart`),
  and what a call in a refresh knows (`Fetched`): the time it has noted
  lies between the document's and the file's, and while it is still the file's
  time, what was read is what the file says, in `newDoc` at "assign" and in `doc`
  at "note". A document that is put under an old time stamp is then harmless: the
  next refresh sees a newer file and reads again. `csv_stale` shows that neither
  assumption on the environment can go; nor can that of one thread, because of
  two refreshes the later assignment may be of the older text and the later time
  stamp the newer one.
* **AnswersAreCurrent.** `VersionInv` follows one call on top of `CacheInv`. The
  ghost `since[t]` holds the versions the file has had since the call began.
  While the call works (`CallDoc`), the document is what one of them parses to,
  or holds rows of a save that failed; where no newer time is seen this is
  `UpToDate`, after a read it is what the file was at the read, and with one thread
  nobody reads between. From there it goes into the answer (`CallAnswer`) or, changed by one row, into the
  save (`ChangedDoc`).
* **RowsAreSaved.** `PlainInv` keeps the file and the document tables of K
  columns (`PlainFile`): rows are cut and padded nowhere, `SetRow` replaces the
  cells of one row (`RowReplaced`), and a failing save that stops between two
  lines leaves a shorter table (`PartOfText`). `SaveInv` follows the one call:
  at "set" the index is that of the first row with the hash, and from "open" on
  the document holds the new row there. What is written is parsed
  to the same document again (`SavedAsLoaded`), so the row is in the
  text. `RowText` joins the cells of a row again (`RowTextOfCells`).
  `csv_cache` checks the same with rows of different lengths.
* **TextStoreIsImplemented.** `Moves` sorts the steps of one worker by what they
  do to text and document: nothing, the end of the process, a load, one row
  set, the file emptied, the file filled. Each is a step of `LocStore`: a row set
  is a `Put` because `SetRow` replaces all four cells (`RowIsSet`) of the first
  row of the hash (`RowIsFirst`), the filled file is a `Save` because what is
  written parses to the document again (`SavedTable`). While the process is
  down the file stands for the document as well, so that a crash inside a save
  shows as what it is, the loss of both (`ComesAndGoes`).
* **MemoryOnDisk.** `InSync` speaks of the moments when the thread is outside the
  window from the erase to the end of the save; `SyncInv` says what the window
  leaves: from the truncation on the file is empty, and what has been fetched at
  "write" is the vector. So the write finds nothing to leave standing behind its
  own bytes, and writes what is there. Without the truncation the end of a longer
  old file would stay (the mutant of `InSync`); with a second thread the bytes
  fetched may be those of before its erase.
* **TextsReadBack.** `TextInv` follows the one call through its statements: at
  "erase" the noted position is the first match of the hash, at "insert" the
  insertion will make the text read back, and from "open" on it does, if the
  entry stands in the vector in full. The heart is `FirstMatchStays`: the replaced
  entry is still the first place with its hash, because an earlier match in the
  new file would consist of bytes that did not change and would have matched
  before. `LengthWraps` and `StoredRead` say what the length field tells of a
  text of any length. An erase past the end moves the insertion behind the end or
  leaves it where it was (`CutReady`), and an insertion behind the end never
  leaves the entry in full (`StrayReady`).
* The byte lemmas (`EraseProperties`, `InsertProperties`, `NewEntryProperties`,
  `StartsWith`) say what each splice leaves at each position and carry both.
* **StoreIsImplemented.** `updateEntry` searches all bytes of the file and
  follows the length field of what it finds, so a table stays a table only if
  it finds entries. `ProperFile` says what it takes for granted: lengths fit
  into their two bytes, and in two entries, one behind the other, the bytes of
  a hash that may be asked for are found only where an entry begins
  (`Unambiguous`, of all entries the table can come to hold, `Known`). It is an
  `ASSUME` of `MCLocPackBinFile`, so that TLC shows that the runs' instances
  satisfy it. `LaidOut` relates the bytes to the table with the list of the
  places where its entries begin. `Aligned` then shows that every match in a
  file of any length is the beginning of an entry: a match overlaps two
  neighbours at most, since an entry is longer than a hash. `ReplaceEntry` and
  `RemoveEntry` give the table and the places after the insertion and between
  the erase and the insertion. `DecodeLaidOut` shows that the recursive reader
  of the properties reads that table: `DecodeWalks` that its function exists
  and follows the equation, and then entry by entry from the end. The invariant
  is `TableInv`: the vector, the vector as it will be after a pending
  insertion, and the file are tables, and a call at "erase" holds the place and
  the size of an entry (`Aimed`), so that none of the accesses past the end
  happen. A write that fails has no counterpart in `LocStore`, which is why it
  is excluded here and not in `FramingIsKept`; and a text longer than its length
  can say leaves bytes of no entry (`ShortTexts`).
* **FramingIsKept.** With failing writes the file, and after a restart the
  vector, may end within an entry. `FrameInv` says that both are, as long as
  no bytes but entries have been inserted, tables or `Broken`, the first bytes of a table that end within its last entry. Any part
  of such a file is such a file again (`SoundCut`); it does not divide into
  entries (`BrokenNotFramed`); an update of one of its whole entries leaves its
  end as it was (`BrokenErase`); and for the last one, whatever is read for its
  length, the erase reaches past the end (`BrokenLast`), so that the vector is cut to
  less than the entry's place and the insertion after it lies behind the end. From
  then on `spoilt` holds, or the process has ended. That is all that can be said:
  what libstdc++ leaves there may divide into entries or not.

* **UpdatesReachBoth** (`LocPackServerProofs`). The server's steps are steps of
  its two stores, so the stores' invariants are kept: `BinMove` and `CsvMove`
  say which (the one exception is the call of an update, which the text store
  bounds by `MaxTime` and the server does not), and the proof
  modules of the stores are instantiated as `BinP` and `CsvP`; the lemmas
  `Same...` show that an operator of an instance of the proofs is that of the
  instance the server uses. `Linked` says that the store a request is in works
  on that request's update, `Backed` what has been done for it: from the call of the
  text store on the vector and the .locpackbin file hold the entry, and with a 200
  the text holds the row. `Linked` also keeps a restart of one store from
  meeting a request: one that is not served is not there. Each of the
  conditions of `Intact` is needed: `server_silent_save` shows what a silent
  failure does, `bin_two_threads` and `csv_two_threads` what two workers do,
  and an edit between the save and the answer takes the row out again.
* **FilesAgree.** `StoresAgree` speaks of moments when no update is under way;
  `AgreeInv` accounts for each entry of the start at every moment
  (`Accounted`): it is suspect, or the update under way has begun to change it
  (`Changed`: from the erase in the vector to the end of the text store's
  call), or both stores keep it as some update or the start wrote it
  (`KeptAs`). Being kept is more than being in the files: it must be in the
  vector as it will be after a pending insertion (`Settled`), in the file unless
  that is being written (`Kept` of `LocPackBinFileProofs`), and in the document
  whenever the document may be saved before it is read again (`RowKept` of
  `LocPackFileProofs`; `DocCounts` says when that is: a failed save leaves a row
  in the document, and only the time stamps decide whether it is used). `OtherKept`
  and `OtherRowKept` show that an update of another hash keeps an entry in
  either store; `TableInv` and `PlainInv` are carried along for them. An entry
  goes from kept to changed when its update finds it, from changed to kept when
  the text store returns (`DoneKept`), and to suspect when it throws, or when
  the process dies under it. The death of a process is the only way into
  suspicion for the others, and only when it hits a save. `Resting` says that
  a store without a request is idle, so that nothing is pending in it.
  The theorem's own hypothesis is `SameEntries`: at the start each of `InitEntry`
  is in both files and may be updated, and no other update is taken for one of
  it: two requests with the same string have the same bytes, the .locpack
  file knows one string for them (otherwise an update in another spelling
  would change the binary file under the old row), and other bytes never convert
  to the same hash (`NoOtherRow` is what becomes of the second). `MCLocPackServer`
  has `SameEntries` and `ProperFile` as an `ASSUME`, so that TLC shows that the
  runs' instances, with a hash in upper case and an unknown one among the
  updates, satisfy them.
* **StoresAreImplemented** combines the step lemmas of the two refinements with
  `BinMove` and `CsvMove`. The server starts with the binary file not yet
  loaded, so for the binary store the steps are stated and not the start.
* **DeadlinesAreOwn** and **LengthsAreExact.** Neither is inductive. A
  connection is given a new deadline when it is started, so it matters that it
  is started once and has none: `Once` says that a worker's queue holds one
  "start", one "read" and one "aborted" per connection at most, `Events` that an
  event finds its connection in the state it was made for (a "start" one that is
  posted, an "aborted" one that is aborted, and so not counted off yet),
  `Writing` that a thread in a synchronous write still has the event and the
  connection it answers, and `Order` that connection objects are constructed one after the other, only
  when all threads are ready, so that no thread sets a queue length to 0 that
  already counts something. With these, `OwnDeadline` survives the reset of the
  ids because it happens when no deadline is pending, and each handler that
  frees a connection takes exactly one off a length that counts it, which also
  gives `queueLength \in Nat` of `TypeOK`. The lengths themselves are handled by
  `FS_AddElement` and `FS_RemoveElement` on the set of live connections.
* **ConnectionsAreDealtOut.** A property of steps, over a walk of many steps
  during which the workers go on. `Walk` is its invariant: only the acceptor
  constructs connections, so while it walks the lengths only shrink, and none is
  above its value when the walk began (`began`). Hence the length of the least
  worker so far, and the value loaded last (`seen`), are at most what each worker
  already passed had at the beginning; the loop's early end at an empty queue is
  right because nothing is below 0. That the lengths are the numbers of
  connections is `QueueLengths`. That the worker's thread runs, or is in a write,
  is `Order` (no thread is new once the first connection exists) and `Threads`
  (a thread ends only on an `io_context` that has been stopped, and none is
  before the accepting ends).
* **ReactorIsUnique.** `Reactor` says the same as `OneReactor` without
  cardinalities. The steps fall into three kinds: those that leave the reactor
  where it is (`ReactorStays`: what they append or take is something else),
  `TakeTask`, and `TaskCleanup`. That needs to know where a thread that signals
  goes on (`Returns`), since between unlocking and `epoll_wait` it is at
  "signal" and has the reactor.
* **DataIsNotLost.** `NoLostData` speaks of reads that wait. What is inductive
  is `Ready`, about sockets with data, whether a read waits or not: unless the
  next read is going to be tried at once (`try`), an event is on its way: an
  edge that epoll has not reported, or a descriptor in the shared queue, in a
  thread's own queue (`OwnQueues`), or in the hands of a thread about to
  perform it (`Holds`). The critical step is `PerformIo` without a read: it uses
  the event up and sets `try` in the same step.
* **OperationsAreQueuedOnce** and **WorkIsCounted** need each other, because a
  runner that found the count at zero would stop the scheduler, empty the queues
  of their meaning, and so on. `Placed` says where operations are: no queue
  repeats an item and no two queues share one (`Once`), what is queued has been
  posted or is a read that is complete (`Known`), a descriptor in the shared queue
  stands before the reactor that found it (`InFront`, which is why the
  reactor cannot find it a second time while it is queued), two threads do not
  run one handler (`Unshared`), and the private count of a thread is the length
  of its private queue, or 1 while it cleans up after a descriptor without a
  read (`ThreadOK`). `Balance` is the count:
  `work + unadded = Guards + posts + reads started + reads run`. The threads'
  additions that are outstanding form a set of pairs, `Unadded`, whose
  cardinality is their sum; an injection from it into the posts and reads
  (`UnaddedBound`) shows that `work` itself, without them, is at least
  `Guards`: so `work_finished` never brings it to zero, `NoStops` and `Told`
  hold, and with them **RunsUntilTold**.
* **NoWakeIsMissed.** `SeenTo`: when something is queued, a thread is on its way
  to look (`Awake`), or the event's bit is set and a thread woken by it or a
  signal to it under way, or the reactor is about to return because it does not
  block or has been interrupted, or nobody sleeps at all. `Alert` is what makes
  the saved interrupt sound: `task_interrupted_` is set while a thread
  is in `epoll_wait` only when that thread will return. `FullInv` is the
  conjunction of all of these, and gives `TypeOK`.
* **QueueIsSound.** The operations of `AsioTimerQueue` are loops: `UpHeap`,
  `DownHeap` and `ReadyTimers` are recursive functions of the number of rounds.
  `Iterate` (of `LoopTheorems`) shows that such a function exists and is what
  its equation says, and a property of all rounds is the set of numbers of rounds after which it
  holds, which is `Nat` by `Induction` (a set with no least counterexample; the
  library's induction theorems cannot be used, as they take an operator).
  Between two rounds of `up_heap` the heap is in order but for one entry that
  may be too low (`LowAt`), of `down_heap` for one that may be too high
  (`HighAt`); the place of that entry moves by each round or the heap is in
  order, so that as many rounds as entries are enough. The exchange of
  two entries keeps what the queue holds (`Reordered`) and the indices
  (`SwapFacts`), so `RemoveTimerFacts`, `EnqueueTimerFacts` and
  `ReadyTimersFacts` can say which entries each operation leaves.
  In the list, that neighbours point at each other is not enough: a ring beside
  the list would satisfy it, and a timer in a ring is not reached from
  `timers_`. `WellLinked` excludes it by a condition on sets: of every set of
  timers in the list, one follows a timer outside it or none.
* **NeverLate.** `TimersInv` is the soundness of the queue, `ArmedInTime`
  itself, `Timed`: an entry of the heap has its timer's expiry, though the code
  copies the time when it makes the entry (`expires_after` cancels first),
  `Reading`: a delay that has been computed and not yet used is too long by no
  more than the time that has gone by since the clock was read (`slip`), and
  there is none while the mutex is free, and `Quiet`: `might_have_pending_waits` is false only when there are no waits, so
  that a cancellation that is skipped had nothing to do. The steps that
  do not arm the timerfd take entries away or add one that is not the first, so
  the earliest time is the same or later (`StillArmed`); `TimeoutFacts` is the
  relative delay as `get_timeout` computes it, with its rounding to microseconds
  and its cap.
* **WaitsAreImplemented** follows step by step (`WaitsNext`): each operation's
  lemma says what it does to the waits alone, `Timed` makes the entries that
  `get_ready_timers` takes those of the timers that are due, and a timer set to
  a new time has no waits left, whether its cancellation was skipped or not.

Every invariant, every action property and every refinement that a passing run
checks is proved, under the conditions of the table. Only model-checked is
liveness (`Answered`, `IdleDropped`, `StopEnds`, `Progress`, `EveryWaitEnds`),
of which TLAPS proves none.

## 5. Not modelled

*Of the program itself:* CORS headers and JSON text, `setPath`, `getPath`,
`findHashComplete` and `performFullUpdate`, which nothing calls, the setters of
`LocaleLine`, the build. The stores and the server are checked with one worker
where their promises hold, and with two where they do not. Of the data
races inside one statement, those of a save with the replacement of `doc` and of
a write with a change of the vector are modelled by their outcomes; the others
(the replacement of `doc` under a loop over its rows) are not, nor are texts that contain another entry's hash
bytes, unbalanced quotes, and a file replaced by one with an older time.

*Of rapidcsv:* columns, labels, byte order marks, UTF-16.

*Of Crow:* routing, the HTTP parser, middleware, JSON, multipart, cookies,
compression, mustache and WebSockets: pure functions of a request or parts the
server does not use. Responses completed after their handler and streamed files
are not used either. Responses are written synchronously: that is modelled (a
thread is "writing" until the client takes the answer), and nothing bounds the
wait.

*Of Asio:* other platforms' reactors, io_uring, SSL, files, serial ports,
resolvers, coroutines, executors, strands, buffers and the composed
operations: header-only code that this program does not instantiate, or that
holds no state between two operations. Of the modelled classes: dispatch, poll,
run_one, restart, fork, shutdown of a running service, cancellation of single
operations, timers that are moved. Destruction of an `io_context` with operations
left in it is not modelled.

Vendored headers are 99 of 100 lines under `src/`, most of them never
instantiated here, so that the lines a model stands for are a small part of
all: the program's own files are modelled nearly in full, and of the libraries
the parts with state.

Worth doing next: a refinement from `CrowServer` to an abstract server whose
connections have timeouts of their own, stated so that it fails exactly by
`robbed`; the composition of `CrowServer` with `AsioTimers` in place of `Pass`.
