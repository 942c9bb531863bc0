# A TLA+ model of PerVERT

PerVERT traces the heap of a program with a Pin tool, analyses the trace in a
small multi-threaded web server, and shows it in web pages that poll the server.
This directory holds TLA+ modules of it, the TLC configurations that check them
on small instances, and proofs, which TLAPS checks for every instance, of the
safety of the server, its thread pool, the tracer and its call stack, the
constructor of Trace, and the pages. Paths are relative to the repository; `backend/…` stands for
`src/backend/src/pervert/app/…` where the file name says so.

## 1. The system

| Component | Source | State it keeps | Operations |
|---|---|---|---|
| Driver scripts | `pervert`, `pervert_debug`, `debug_all` | none | kill and start the server, run objdump and Pin, send `/pp/update` |
| Pin tool | `pintool/source/tools/Pervert/pervert.cpp` | `request`, `records`, the trace file | RecordMalloc, RecordMallocResult, RecordFree, RecordMemRead/Write, Fini |
| CallStack | `CallStack.cpp` | a shadow call stack | ProcessCall, ProcessReturn, ProcessMainEntry, DumpStack |
| Web server | mongoose, `utils_server_*.cpp` | 5 worker threads, a queue of sockets, the list of layers | accept, dispatch a request through the layers |
| Layers | `utils_server_layers_*.cpp` | metadata of a request | log, parse the query, serve the API, serve files |
| PervertLayer | `pervert_app_pervertlayer.cpp` | `_dms` (executable to DataManager), `_lastChangeID` | `/pp/update`, `/pp/list`, `/f/status`, `/f/counts`, `/f/mem_status`, `/f/context_*`, `/ping` |
| DataManager | `pervert_app_datamanager.cpp` | `the_lock`, `_trace` | update, status, getTrace |
| Trace | `pervert_app_trace.cpp` | events, indices, remapped addresses | the constructor: parse, index, remap; read-only afterwards |
| Page | `index.html` | `lastChangeID`, `currentStatus` | doPoll, handlePollResult |
| DB, ViewState | `js/pervert.js` | caches per frame, requests under way, current frame | f_counts and the others, abort; init, clean; play |
| Log | `utils_log.cpp` | map of logs | getLog, log |
| jsoncpp, Pin kit, jQuery, d3 | vendored | | |

How they interact. The driver script runs the tool, which writes a trace file,
and then sends `/pp/update`. A worker thread of the server looks up or creates
the executable's DataManager and, under `the_lock`, deletes the old Trace and
constructs a new one from the file; then it increments `_lastChangeID`. Pages
ask `/f/status` every two seconds and get the counter and GOOD, BUSY or an error
text. A page acts when the counter differs from the one it saw last: on GOOD
`pv.init()` throws the cache away and fetches, otherwise `pv.clean()` aborts
what is under way. The queries read the Trace through a bare pointer.

What makes it hard:

* Five workers share `_dms`, a `std::map` without a lock, and read `_trace`
  while an update deletes it; `the_lock` orders updates and nothing else.
* Several steps look atomic and are not: count and insert of `_dms`; unlock and
  `_trace->okay()`; status text and change counter.
* The server may abort inside a parse (assertions, memory), is killed by the
  next driver, and comes back with its counter at 0; pages live on.
* Polls time out after 3 s and are repeated, answers are aborted or late.
* The constructor of Trace relies on the tool for files without duplicate
  mallocs, with every access in an allocated region, with a final record, and
  with a known location in every context.
* The remapping of addresses is arithmetic on cache lines with many boundaries.
* The tool's shadow call stack sees calls and returns, but no longjmp.
* mongoose's master and workers hand sockets over through a ring, two condition
  variables and a flag that is written without the mutex.
* A page has answers in any order, failures, aborts, a play timer and a user.

What makes each component correct:

* DataManager: one updater at a time; no Trace deleted twice or lost; the lock
  always released.
* PervertLayer: no update lost from the counter; no manager lost; every request
  answered; a query reads a Trace that is there (it does not always: see 6).
* Page: sees the last change; shows data at least as new as the change it
  reacted to; never goes back; loads whenever it says GOOD (it does not always).
* Pin tool: its table is the allocator's; the file is one the back end can read.
* CallStack: no active call is lost; abandoned ones go as early as can be told.
* mongoose: every connection is served once, by one worker; a stop ends (it does
  not always).
* DB, ViewState: the cache is of the newest trace; one timer; the view shows the
  current frame (it does not always).
* Trace: regions are merged exactly where memory is connected; lines are neither
  merged nor split, nor wasted; every access stays in its blocks.

## 2. Modules

| Module | Models |
|---|---|
| `PervertServer` | PervertLayer and DataManager, run by the worker threads |
| `TraceStore` | abstract: a store of analysed traces with announced changes |
| `ServerStore` | PervertServer as an implementation of TraceStore |
| `PollSystem` | the server together with pages that poll it and fetch |
| `Frontend` | one page in detail: DB, ViewState, controls, views |
| `WorkerPool` | mongoose's master, workers, socket queue and stop |
| `SocketQueue` | abstract: a bounded queue, which the ring of WorkerPool implements |
| `TraceFormat` | records of the trace file, shared by the next four |
| `Tracer` | the Pin tool under the threads of a program and its allocator |
| `TraceIndex` | the constructor of Trace: parse, index, merge, lay out, remap |
| `TraceQueries` | what `f_mem_status` computes from a finished Trace |
| `TraceSystem` | tracer, driver scripts, constructor and query composed |
| `CallStack` | the tool's shadow call stack beside the real one |
| `Contexts` | the line the tool writes and the context the back end makes of it |
| `TraceInvariants` | what TraceSystem's promises rest on: the inductive invariants |
| `BasicLemmas` | least elements, quotients and remainders, sizes of images |
| `PervertServerProofs` | theorems about PervertServer, and that it implements TraceStore |
| `PollProofs` | theorems about PollSystem |
| `FrontProofs` | theorems about Frontend |
| `PoolProofs` | theorems about WorkerPool, and that it implements SocketQueue |
| `TraceProofs`, `TracerProofs` | theorems about TraceSystem: the constructor, and the tracer before it |
| `CallStackProofs` | theorems about CallStack and Contexts |
| `MC...` | instances for TLC |

Operators named *Mutant* in a comment are plausible bugs put beside the
definition they would change; each property of each passing run is violated by
one of them. No specification uses them.

### PervertServer, TraceStore, ServerStore

A worker has a program counter `pc[w]` and the locals of its request `job[w]`. A
step is the code between two accesses to shared state, so every interleaving
that matters is there. Managers and traces are numbered as they are allocated, 0
is null, and `heap` says whether a Trace exists. Correspondence:

* `/pp/update` is UpdateFind (count), UpdateInsert or UpdateFound, UpdateLock,
  UpdateDelete, UpdateBuild, UpdateUnlock, UpdateOkay (`_trace->okay()` after the
  unlock), UpdateLog, UpdateAnswer. A parse may fail (`okay` false) or kill the
  process (UpdateAbort: an assertion, or a file without "E", which is parsed for
  ever until memory is used up; Trace allocates all the while).
* `/f/status` is StatusFind, StatusManager, StatusTry (trylock), StatusRelease,
  StatusPoll (the counter is read here, after the text was decided).
* the queries are QueryFind, QueryManager, QueryTrace (getTrace, no lock), then
  QueryAnswer, QueryRefuse or QueryCrash. `f_counts` adds missing keys to
  `byType_` (`gaps`); `f_context_stack` reads an event before it checks the frame.
* `/pp/list` is ListIterate, ListSize; `/ping` and malformed requests are Trivial.
* Kill and Restart are the environment.

Undefined behaviour is a choice among what the build can do. A lookup in a
`std::map` that somebody is inserting into may miss a key that is there or bring
the process down; of two insertions one may be lost; a read of a deleted Trace
gives any answer or a crash. What is not modelled of the races: memory that is
silently corrupted and noticed elsewhere.

TraceStore has no threads, locks or pointers: a cell is rebuilt by one builder at
a time, gets a generation that is new, is vouched for (GOOD) only outside a
rebuild, and every finished build is announced once. ServerStore maps a manager
to a cell, "delete" to "build" to the rebuild, the pointer to the generation
(dangling or not) and `lastChangeID` to the announcements.

### PollSystem

`page[c]` is what the scripts of a page know, `conn[w]` the page and request a
worker answers. `poll` alternates between timer and request. Of the requests
`init` causes, `/f/counts` stands for all, since the others wait for it.

### Frontend

The page of PollSystem with what its data goes through. The server is reduced to
two counters, the trace it has (`cell`) and the number it tells (`counted`), as
in TraceStore. `flying` is the bag of requests under way, each with the trace the
server had when it was sent: the answer is of that one or a later one. A callback
runs to its end, with every event it fires and every listener (FMemStatus within
ShowFrame within RangeKnown within Continued, which runs those who wait for the
counts in the order in which they asked). `timers` counts the intervals
that run, `handle` says whether `__playingTimer` still names one. The scatter,
derivative and histogram views repeat the context view with other data.

### WorkerPool, SocketQueue

One label per wait and per place where a thread may be overtaken: test of the
queue, start of the wait, asleep, woken. A signal moves a waiting thread to where
it takes the mutex again; spurious wakeups do the same at any time. The mutex is
not taken by the broadcast of `master_thread` and by `mg_stop`, and so not here.
The code has 20 slots and 5 workers.

### Tracer, TraceIndex, TraceQueries, TraceSystem

Tracer has `request`, `records` and the file as in the tool; threads, allocator,
calloc and realloc are external. The allocator places blocks anywhere they do not
overlap. TraceIndex has one step per iteration of the loops that carry state (index,
sweep over begins and ends, layout) and one step for loops whose turns are
independent (counting, remapping). With no region at all `begin()` of an empty map
is read: any value. A context without a known location is popped past its end: the
process dies of that (ParseCrashes) or goes on. Inside main there is no such context
(DefinedInMain), so TraceSystem lets the constructor die only of files that are not
the program's, or of a program with records "outside" main. It lets the driver hand
over the file however the tool ended, as the script does not look at Pin's exit
status; or, as `pervert_debug`, a file that is there.

### CallStack, Contexts

`real` is the program's stack: of each active call its site, stack pointer, the
pointer at which the called function rests, and whether a longjmp has landed in
it. Call, Stub (each hop of a lazily bound PLT call), ProcessMainEntry and Return
are the callbacks; Enter and Longjmp happen behind the tool's back. `_activations`
is what the tool has. `_start`'s call is the outermost; the code before main, main
and the code after main are told apart by `phase`. Contexts adds functions of that
state only: the line (DumpStack), the lookup in the table of rows, the address
that is lost at the end of the line, and the UNKNOWN that is popped.

## 3. Runs

| Run | Question | Result |
|---|---|---|
| `Server_safety` | two executables, racing updates, a kill and a restart: traces, counter, inductive invariant, refinement of TraceStore; a manager is lost only by two insertions that overlap, an update's status is wrong only once its trace is gone | holds, 1.0 M states |
| `Poll_safety` | one page, three workers, two updates at once, but not both between count and insertion: data as new as the change, never backwards; the inductive invariant | holds, 3.2 M |
| `Poll_restart_converges` | a page sees the last counter, across timeouts, crashes and a restart; every accepted request is answered | holds, 0.1 M |
| `Poll_good_pages_load` | does a page that says GOOD load? | violated (F1) |
| `Poll_live_reads` | does a query read a live Trace? | violated (F3) |
| `Pipe` | short runs of the tracer, and three blocks in every position over three lines, ill-formed and truncated files: table, merge, layout, index, memory view; what is recorded within main, up to its end, of a program whose blocks are seen is analysed whole; the inductive invariant | holds, 1.0 M |
| `Pipe_realloc` | does the back end survive a program with realloc? | violated (F4) |
| `Pool` | sockets through a ring of two slots, spurious wakeups, a stop; the inductive invariant | holds, 0.1 M |
| `Pool_stop` | does mg_stop return? | violated (F5) |
| `Frontend` | two traces of 3 events and 1, answers in any order, failures, a user: fresh data, one request for the counts, one timer; the inductive invariant | holds, 0.3 M |
| `Frontend_order` | does a quiet page show its current frame? | violated (F6) |
| `Contexts` | calls four deep, with arguments, locals, a stub, longjmp: no call lost, contexts true and defined; the inductive invariant | holds, 1.0 M |

Bounds. Two workers are enough for each race of two steps in `Server_safety`; the
third in `Poll_safety` serves an update while a stale and a fresh request of the
page are open. Two updates give a first build and a rebuild; the proofs remove
these bounds. `MaxBoots = 1` gives one life before and one after a crash. In
`Pipe` addresses 1..7 over lines of 3 bytes let blocks share a line, be a line
apart, be further apart than a line at greater and at smaller offsets, touch,
nest, coincide and be empty. Three records are the shortest trace in which an
address is freed and reused; `MaxAddr = 3` leaves no room for more blocks than
that. In `Pool` three sockets overfill two slots, so the pointers wrap, the master
waits, and two workers compete for a wakeup. In `Frontend` the second trace is
shorter than the first, so that a frame of the old range is past the new one; the
user and the timer pause while more than one request is under way, which bounds
the bag. In `Contexts` four calls are `_start`'s, main, and two more: the longjmp
lands in main under a call, with an abandoned call that had more, as many or
fewer words on the stack than the next one. Its table has two compilation units
out of order and an empty row.

Deadlock is not checked where the system really stops: a process that died with
no restart left, a finished constructor, freed threads, a page nobody uses. That
live threads do not block each other is `EveryRequestAnswered` and
`EveryConnectionServed`. `Contexts` checks it.

Overlapping updates. Nothing in the server keeps updates apart but `the_lock`. Two
first updates that are both between the count and the insertion of `_dms` lose a
manager, with its trace; the one that lost fills a manager nobody can reach and still
counts, so that a page may show data older than the change it was told of. And
`okay()`, after the unlock, may be asked of another update's trace. Both do happen in
`Server_safety`. What is claimed is that nothing else goes wrong there: as long as no
two updates are in that window at once (`InsertsAlone`), every manager stays reachable
(`OrphansNeedOverlap`, checked over behaviours with the race and without); and a status
is wrong about its update's own parse only when the trace it built has been deleted
(`HonestWhileLive`). `Poll_safety` has two updates that overlap in every other way: its
specification, `AloneSpec`, leaves out the steps into the window that is taken.
`RecordsAreActive` is false with two threads in malloc, `pervert.cpp:328` gives
one's region the other's size; `Pipe` has one thread.

Fairness. Threads are scheduled, so a worker that can move does (WF). A thread that
waits for a mutex gets it if it is free again and again (SF): nobody holds
`the_lock` for a status request, or mongoose's mutex at all, for more than a few
instructions. A page's timers and events fire (WF). A poll that keeps finding all
workers busy is accepted in the end, as mongoose queues sockets in order, and an
answer that keeps arriving is not for ever late (SF). A client that has opened a
connection asks or hangs up (WF of the worker that reads). No fairness is assumed of
drivers, kills, restarts, aborts, timeouts, stops, users or spurious wakeups:
`PagesCatchUp` excuses a server that stays down and polls that time out without end,
`EveryConnectionServed` a server that is being stopped, `PlaybackEnds` a user who
interferes without end. A user's step to the very frame the timer would show next is
not counted as interference, so that the timer cannot be its own excuse. The
constructor runs when it is called (WF).

## 4. Proofs

All theorems are about any values of the constants that meet the assumptions the
modules state: bounds are natural numbers, workers and executables are finite sets
that do not contain `None`, a queue has a slot, a cache line a byte, files of
others are sequences of records of the format. Where a theorem needs more it says
so (ASSUME, or a conjunct beside the specification); the table repeats it.

| Module | Theorem | States |
|---|---|---|
| `PervertServerProofs` | `Inductive` | `IInv` |
| | `TypeCorrect` | `TypeOK` |
| | `MutualExclusion` | `LockMatchesHolder` |
| | `NoDoubleDelete` | `DanglingOnlyWhileBuilding` |
| | `NoTraceLost` | `EveryTraceOwnedOnce` |
| | `GoodIsNotDangling` | `GoodMeansNotDangling` |
| | `NoChangeLost` | `ChangesAccounted` |
| | `PointerSafety` | `PointerMovesUnderLock` (an action property) |
| | `ReachInductive` | `ReachInv`, while no two updates are between count and insertion |
| | `ManagersStayReachable` | `OrphansNeedOverlap` |
| | `UpdatesAreHonest` | `HonestWhileLive` |
| | `Refinement` | `ImplementsStore` |
| `PollProofs` | `ServerUnderPages` | `PollSystem` implements `PervertServer` |
| | `PollInductive` | `PollInv`, for one executable and one life, while no two updates are between count and insertion |
| | `DataIsNew` | `ViewNotOlderThanChange`, for the same |
| | `DataAdvances` | `ViewOnlyAdvances` (an action property), for the same |
| `FrontProofs` | `FrontInvariant` | `FrontInv`, and with it `FrontTypeOK` |
| | `CountsAreAskedOnce` | `CountsAskedOnce` |
| | `TimerIsOne` | `OneTimer` |
| | `CacheStaysFresh` | `CacheIsFresh` |
| | `DrawingsAreFresh` | `DrawsAreFresh` (an action property) |
| `PoolProofs` | `PoolInvariant` | `PoolInv` |
| | `NoLostWakeup` | `NobodySleepsOnWork` |
| | `NoNeedlessWait` | `MasterWaitsForRoom` |
| | `StoppedIsQuiet` | `FreedUnused` |
| | `RingIsFifo` | `ImplementsFifo` |
| | `AtOnePlace` | `OnePlace` |
| `TracerProofs` | `PipeInvariant` | `PipeInv`, and with it `PipeTypeOK` |
| | `PiecesAreFound` | `RegionsArePieces` |
| | `LinesAreKept`, `LinesAreUsed` | `LinesKept`, `NoLineWasted` |
| | `MaxAddressIsFound` | `MaxAddressIsEnd` |
| | `StatusIsTrue` | `MemStatusIsTrue` |
| | `AbortsAreDeserved` | `AbortsOnlyIllFormed` |
| | `AccessesAreTraced` | `AccessesAreInside` |
| | `FinalRegionsDoAgree` | `FinalRegionsAgree` |
| | `RecordsStayActive` | `RecordsAreActive`, while no two threads are in malloc |
| | `SeenIsAnalysed` | `SeenNeverAborts`, while no two threads are in malloc |
| | `OneThreadSuffices` | both, for a program of one thread |
| `CallStackProofs` | `CallInvariant` | `CallInv`, and with it `CallTypeOK` |
| | `CallsAreKept` | `NoCallLost` |
| | `StaleIsConfined` | `StaleOnlyWhereLanded` |
| | `DefinedWhileInMain` | `DefinedInMain` |
| | `ContextsAreTrue` | `ContextIsTrue` |

TLC checks each inductive invariant in the run of its module, before the proofs
remove the bounds.

**The server.** `IInv` conjoins what no single property gives. A deleted trace is
only pointed to while its manager's update is at "build" (DanglingOnlyWhileBuilding)
because that worker alone holds the lock (LockMatchesHolder), because it deletes the
very trace the pointer has (OldTraceGone), and because no other manager has that
trace (PointersValid). That nothing leaks needs the converse, LiveTracesHeld. That a
new trace has a number nobody has needs `built <= started` to be tight, which
TracesAccounted gives by counting the updates that have yet to build; it is also
why `built` stays within its type. LocalsSet says that a handler's second lookup
in `_dms` finds what its first one saw: keys are never removed. The counting
parts rest on `CountMove`: when one worker changes its label, the number of
workers in a set of labels changes by the obvious amount. Steps that touch only
one worker's locals share the lemma `LocalStep`. `Refinement` takes each action to
a step of TraceStore or to a stutter, with `IInv` for what the guards need.

How updates overlap is not bounded by the theorems. `ReachInv` says that who is about
to insert finds no manager to replace; it is kept as long as `InsertsAlone` is, a
hypothesis on the behaviour and not on the number of drivers, and `Next` preserves it
given that hypothesis before and after the step. `HonestInv` needs none: after the build
the pointer still has the update's trace or that trace is deleted, because the pointer
moves only in a build, and a build finds what it replaces deleted (OldTraceGone of
`IInv`). The status is thus that of the trace built, or of one that replaced it.

**The pages.** A step of PollSystem is one of PervertServer or leaves it alone
(`ServerUnderPages`), so `IInv` and, while inserts do not
overlap, `ReachInv` are there to use. `PollInv` adds that
there is one manager and it has the newest trace (NewestInv), that an answer on its
way to a page is at least as new as what that page displays and has reacted to
(ConnInv), and that no page is ahead of the server (PageInv). The step that matters
is the query: it reads the pointer after the page learnt of a change, and the change
is announced after the trace is in place. Updates overlap as they like but
for the insertion, which is what makes the manager a page is answered from the one
updates fill. The theorem is for one executable and one
life because `lastChangeID` counts the updates of all executables while a page looks
at one of them, and starts again at 0: the number of a change is then not the number
of a trace, and F2 is the counterexample.

`FrontInv` says of a page that what is under way will bring data at least as new as
the change it has seen, that a good page's cache and the drawings that wait for the
counts are so too, and that the handle of the timer is there while it plays. A
callback is one step that calls functions that fire events; each function has a
lemma that carries the page's promises through it (`Goes`), down to one more request
(`AskAdds`, with two lemmas on bags). From the arrival of the counts until the last
continuation CountsAskedOnce is broken: no request is under way, yet some wait. The
lemmas carry another fact through (`SameCounts`): with the counts there, nobody asks
for them. The continuations are a recursive function over those who wait; that it
exists (`AfterExists`) and keeps the promises (`ContinuedGoes`) is shown by taking
the least index where it does not.

**The pool.** `PoolInv` adds to NobodySleepsOnWork why it is kept: between the test
and the wait the worker has the mutex (MutexMatches), so nothing is put
(SleepFindsNothing); a worker that was signalled is at "consume", hence awake, until
it has looked; and nobody leaves before a stop (NobodyLeavesEarly), so that a worker
is left to take what is put. ThreadsCounted ties `num_threads` to the workers that
remain, which gives FreedUnused. `RingIsFifo` rests on arithmetic about the wrap:
slots of different indices differ while no more than `QueueSize` are in use.
`AtOnePlace` counts a connection's places in the queue's content rather than in the
ring: a put appends one place and a take drops the first (`HitsAppend`, `HitsTail`
in the module), and that a take overwrites no connection is ServersHold.

**Tracer and constructor.** `TraceInv` has a part for each loop: what is parsed
(ParseInv); the regions listed at an event are those allocated after it (IndexInv);
merged regions lie apart and have no gap (MergedInv); `nOpen` is the number of
blocks begun and not ended, and everything begun is in a region, or in the open one
(SweepInv); offsets are given in order (LayoutInv); and the end of what is placed is
congruent to its original modulo the line, with lines neither merged, nor split, nor
left out (PlacedInv). The last is the arithmetic of `remapAddresses`: a region on
the line where the one before ended goes on in it, another begins on the next line,
at its old place (`SameMultiple`, `NextMultiple`, `ShiftAlike` of BasicLemmas). The
part of the tracer (WrittenInv) says that what the file allocates is just what the
table has, which gives AccessesAreInside and FinalRegionsAgree. Files are those of
the tool or any others of the format: the invariant holds for all.

For the records to be the program's blocks no two threads may be inside malloc at
once (`OneInside`): `pervert.cpp:328` has one `request` for all. That is a hypothesis
on the behaviour, and not on the constants, so that it says what is needed of a
program of many threads; `OneThreadSuffices` shows where it is met. SeenInv adds
that the file is well-formed up to each point, so no assertion fails on it.

**Call stack.** `CallInv` gives each active call its activation (NoCallLost), says
where those that belong to no active call can lie (StaleOnlyWhereLanded), and that
main is the outermost call's callee (MainIsSecond). The lemmas on ProcessCall and
ProcessReturn say which activations are left as a set; with both stacks descending
(CallTypeOK) that is all the comparison of stack pointers needs. DefinedInMain
follows: the activation of main's caller is followed by a known location.
ContextIsTrue says that a context and the real chain of calls have the same known
locations in the same order, by an increasing map of the places of one onto those of
the other: there is no recursion over the two sequences. The map takes a call to the
place of its activation (`CallsArePlaced`); both stacks descend, so it is increasing,
and with no function landed in, what it leaves out is a stub or main, and the
outermost call alone is at the place that parseContext does not read.

Model-checked only:

* `EndedIsAnalysed`, `EveryRequestAnswered`, `PagesCatchUp`, `PlaybackEnds`,
  `EveryConnectionServed`: liveness under fairness.
* the disagreements of section 6, which are counterexamples.


## 5. Hazards

`PROJECT.json` lists them at their lines with the properties that watch them. Those
without a property are choices of a model whose outcome breaks no promise of the
code: `/f/context_stack` may read past the events; `/f/counts` adds keys to
`byType_` although `trace.h:53-54` declares it read-only after construction; a
trace with no malloc has an undefined `max_addr`. Or they lie outside: the map of
logs, the scripts' exit status, a ping answered by a dying server, a call stack
shared by
threads, two threads in malloc. A few are in the models as they bite, and no property
is broken by them: a counter that starts again at 0, a request for counts that is not
repeated, a file without an end, two mallocs that fail, a page that is not good and is
moved by its slider, and the outcomes of the races on `_dms`.

## 6. Disagreements found

* F1 `Poll_good_pages_load`: `f_status` decides the text before `writePollResponse`
  reads the counter. A page can receive an old BUSY or "unknown" with the new
  number; it cleans itself, and the GOOD that follows has a number it has seen.
  It says "Debugging ..." and never loads, until the next update.
* F2 (no run kept): the counter restarts at 0 with the process, so a page whose
  last number comes round again takes the new server for the old one.
* F3 `Poll_live_reads`: `getTrace()` hands out `_trace` without the lock. One page
  and one driver suffice for a query on a deleted Trace.
* F4 `Pipe_realloc`: realloc is not instrumented, so an address can be in two M
  records with no F between; `trace.cpp:280` asserts the contrary and the server,
  with all other executables' traces, is gone.
* F5 `Pool_stop`: `master_thread` broadcasts without the mutex. A worker that has
  read `stop_flag` as 0 and has yet to wait misses it and sleeps on; the master
  waits for it, and `mg_stop` for the master, for ever.
* F6 `Frontend_order`: the memory view draws every answer when it comes. Two
  answers in the wrong order leave it at a frame that is not the current one.
* The comment at `CallStack.cpp:59` doubts ">=" in AdjustStack. It is right: with
  ">" the activation of a PLT stub outlives its call (mutant AdjustOnlyAbove).

## 7. Plan

An abstract specification of what a page is promised, which PollSystem and Frontend
both implement, to replace the two counters by which Frontend knows the server.

Not modelled: the layer chain, the HTTP, JSON, query, logger and static layers
and the start-up of the daemon (sequential; no state outlives a request, or
anything depends on it); f_context_events, f_context_deriv and f_context_histo
(arithmetic for a drawing); the order inside a driver script; jsoncpp, Pin, jQuery
and d3 and, but for its threads, mongoose (vendored); formatting, logging and
drawing; objdump's output. Most of the repository's lines are the Pin kit.
