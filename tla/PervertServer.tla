--------------------------- MODULE PervertServer ---------------------------
(***************************************************************************)
(* The backend of PerVERT: PervertLayer (the request handlers, the map     *)
(* _dms from executables to data managers, the change counter) and         *)
(* DataManager (one mutex and one pointer to the analysed Trace), run by   *)
(* the worker threads of the embedded web server.                          *)
(*                                                                         *)
(* A worker serves one request at a time; its program counter pc and its   *)
(* C++ locals (job) are the only state of its own.  Everything else is     *)
(* shared, and only the_lock orders any of it.  A step of a worker is the  *)
(* code between two accesses to shared state.                              *)
(*                                                                         *)
(* Managers and traces are numbered in the order they are allocated;       *)
(* Null is the null pointer.  An access the C++ memory model leaves        *)
(* undefined is a choice between the outcomes the build can produce: the   *)
(* intended one, a wrong answer, the death of the process.                 *)
(***************************************************************************)
EXTENDS Integers, FiniteSets

CONSTANTS
  Execs,        \* names of the programs under analysis
  Workers,      \* worker threads of the web server
  None,         \* no worker, no executable
  MaxUpdates,   \* bound: updates requested during one life of the process
  MaxUpdaters,  \* how many updates the drivers may have in flight at once
  MaxBoots      \* bound: how often the process is started again

ASSUME NoneAssumption == None \notin Workers \union Execs
ASSUME BoundsAssumption ==
  /\ MaxUpdates \in Nat \ {0}
  /\ MaxUpdaters \in Nat \ {0}
  /\ MaxBoots \in Nat
ASSUME FiniteAssumption == IsFiniteSet(Workers) /\ IsFiniteSet(Execs)

Null     == 0
Managers == 1 .. MaxUpdates
Traces   == 1 .. MaxUpdates

VARIABLES
  alive,         \* the server process runs
  boots,         \* how often it was started again
  dms,           \* PervertLayer::_dms: the manager of an executable, or Null
  theLock,       \* DataManager::the_lock: the worker that holds it, or None
  trace,         \* DataManager::_trace
  heap,          \* of each Trace object: not yet there, there, deleted
  okay,          \* traces whose okay_ is true
  gaps,          \* traces whose byType_ still lacks one of the four keys
  lastChangeID,  \* PervertLayer::_lastChangeID
  started,       \* updates accepted in this life of the process
  made,          \* managers allocated in it
  built,         \* traces allocated in it
  pc,            \* where each worker is
  job            \* the locals of the request it serves, then its answer

data == <<dms, theLock, trace, heap, okay, gaps, lastChangeID, started, made, built>>
vars == <<alive, boots, data, pc, job>>

(* The pc values.  An update is between "insert" or "found" and "answer";  *)
(* the answers are "ok" (HTTP 200) and "fail" (HTTP 500).                  *)
Critical  == {"delete", "build", "unlock"}          \* update() under the_lock
Holding   == Critical \union {"release"}            \* ... or status() under it
Pending   == {"insert", "found", "lock", "okay", "log"} \union Critical
Unbuilt   == {"insert", "found", "lock", "delete", "build"}
Updating  == Pending \union {"answer"}               \* inside /pp/update
Answered  == {"ok", "fail"}
MapUsers  == {"insert", "found", "status", "query", "size"}  \* inside _dms
Reading   == {"read"}                               \* holds a bare Trace*
PCs == {"idle", "answer", "status", "try", "poll", "query", "gettrace", "size"}
         \union Holding \union Pending \union Answered \union Reading

Queries == {"counts", "frame", "stack"}
Texts   == {"none", "okay", "failed", "GOOD", "BUSY", "unknown", "list"}
             \union Queries

NoJob == [exec |-> None, mgr |-> Null, tr |-> Null, text |-> "none",
          num |-> 0, listed |-> {}]

Jobs == [exec : Execs \union {None}, mgr : 0 .. MaxUpdates,
         tr : 0 .. MaxUpdates, text : Texts, num : Nat, listed : SUBSET Execs]

\* How many workers are at one of these labels.
At(labels) == Cardinality({w \in Workers : pc[w] \in labels})

Listed == {e \in Execs : dms[e] # Null}

TypeOK ==
  /\ alive \in BOOLEAN
  /\ boots \in 0 .. MaxBoots
  /\ dms \in [Execs -> 0 .. MaxUpdates]
  /\ theLock \in [Managers -> Workers \union {None}]
  /\ trace \in [Managers -> 0 .. MaxUpdates]
  /\ heap \in [Traces -> {"unborn", "live", "freed"}]
  /\ okay \in SUBSET Traces
  /\ gaps \in SUBSET Traces
  /\ lastChangeID \in 0 .. MaxUpdates
  /\ started \in 0 .. MaxUpdates
  /\ made \in 0 .. started
  /\ built \in 0 .. started
  /\ pc \in [Workers -> PCs]
  /\ job \in [Workers -> Jobs]

Init ==
  /\ alive = TRUE
  /\ boots = 0
  /\ dms = [e \in Execs |-> Null]
  /\ theLock = [d \in Managers |-> None]
  /\ trace = [d \in Managers |-> Null]
  /\ heap = [t \in Traces |-> "unborn"]
  /\ okay = {}
  /\ gaps = {}
  /\ lastChangeID = 0
  /\ started = 0
  /\ made = 0
  /\ built = 0
  /\ pc = [w \in Workers |-> "idle"]
  /\ job = [w \in Workers |-> NoJob]

-----------------------------------------------------------------------------
(* Helpers                                                                 *)

Goto(w, label) == pc' = [pc EXCEPT ![w] = label]

\* The process dies: every thread, the memory and the counters with it.
Crash ==
  /\ alive' = FALSE
  /\ dms' = [e \in Execs |-> Null]
  /\ theLock' = [d \in Managers |-> None]
  /\ trace' = [d \in Managers |-> Null]
  /\ heap' = [t \in Traces |-> "unborn"]
  /\ okay' = {}
  /\ gaps' = {}
  /\ lastChangeID' = 0
  /\ started' = 0
  /\ made' = 0
  /\ built' = 0
  /\ pc' = [w \in Workers |-> "idle"]
  /\ job' = [w \in Workers |-> NoJob]
  /\ UNCHANGED boots

\* The locals of w: only what is named is still in use.
Locals(w, j) == job' = [job EXCEPT ![w] = j]

\* The answer is written; it is all that is left of the request.
Reply(w, code, text, num) ==
  /\ Goto(w, code)
  /\ Locals(w, [NoJob EXCEPT !.text = text, !.num = num])

\* std::map has no synchronisation: somebody else is rebalancing the tree.
Inserting(w) == \E v \in Workers \ {w} : pc[v] = "insert"

\* The two answers of _dms.count(e).  A lookup that meets an insertion may
\* miss a key that is there.
Missing(w, e) == dms[e] = Null \/ Inserting(w)
Present(w, e) == dms[e] # Null

\* dm = _dms[exec], the second lookup every handler makes.
Manager(w, from, to) ==
  /\ pc[w] = from
  /\ job' = [job EXCEPT ![w].mgr = dms[job[w].exec], ![w].exec = None]
  /\ Goto(w, to)
  /\ UNCHANGED <<alive, boots, data>>

\* A bare Trace* whose object was deleted under it.
Dangling(t) == t # Null /\ heap[t] = "freed"

-----------------------------------------------------------------------------
(* /pp/update                                                              *)

\* Mutant: every update inserts a manager of its own, counted or not.
UpdateFindReplaces(w, e) ==
  /\ pc[w] = "idle"
  /\ started < MaxUpdates
  /\ At(Updating) < MaxUpdaters
  /\ started' = started + 1
  /\ made' = made + 1
  /\ job' = [job EXCEPT ![w].exec = e, ![w].mgr = made']
  /\ Goto(w, "insert")
  /\ UNCHANGED <<alive, boots, dms, theLock, trace, heap, okay, gaps,
                 lastChangeID, built>>

UpdateFind(w, e) ==
  /\ pc[w] = "idle"
  /\ started < MaxUpdates
  /\ At(Updating) < MaxUpdaters
  /\ started' = started + 1
  /\ \/ /\ Missing(w, e)
        /\ made' = made + 1
        /\ job' = [job EXCEPT ![w].exec = e, ![w].mgr = made']
        /\ Goto(w, "insert")
     \/ /\ Present(w, e)
        /\ job' = [job EXCEPT ![w].exec = e]
        /\ Goto(w, "found")
        /\ UNCHANGED made
  /\ UNCHANGED <<alive, boots, dms, theLock, trace, heap, okay, gaps,
                 lastChangeID, built>>

\* _dms[exec] = dm; of two insertions at once one may be lost.
UpdateInsert(w) ==
  /\ pc[w] = "insert"
  /\ \/ dms' = [dms EXCEPT ![job[w].exec] = job[w].mgr]
     \/ Inserting(w) /\ UNCHANGED dms
  /\ Goto(w, "lock")
  /\ UNCHANGED <<alive, boots, theLock, trace, heap, okay, gaps, lastChangeID,
                 started, made, built, job>>

UpdateFound(w) == Manager(w, "found", "lock")

\* Mutant: pthread_mutex_trylock whose result is ignored.
UpdateLockIgnored(w) ==
  /\ pc[w] = "lock"
  /\ theLock' = [theLock EXCEPT ![job[w].mgr] = w]
  /\ Goto(w, "delete")
  /\ UNCHANGED <<alive, boots, dms, trace, heap, okay, gaps, lastChangeID,
                 started, made, built, job>>

UpdateLock(w) ==
  LET d == job[w].mgr IN
  /\ pc[w] = "lock"
  /\ theLock[d] = None
  /\ theLock' = [theLock EXCEPT ![d] = w]
  /\ Goto(w, "delete")
  /\ UNCHANGED <<alive, boots, dms, trace, heap, okay, gaps, lastChangeID,
                 started, made, built, job>>

\* Mutant: the old trace is not deleted.
UpdateDeleteLeaks(w) ==
  /\ pc[w] = "delete"
  /\ Goto(w, "build")
  /\ UNCHANGED <<alive, boots, data, job>>

\* delete _trace: the pointer keeps its value until the new Trace is built.
UpdateDelete(w) ==
  LET t == trace[job[w].mgr] IN
  /\ pc[w] = "delete"
  /\ heap' = IF t = Null THEN heap ELSE [heap EXCEPT ![t] = "freed"]
  /\ Goto(w, "build")
  /\ UNCHANGED <<alive, boots, dms, theLock, trace, okay, gaps, lastChangeID,
                 started, made, built, job>>

\* Mutant: a trace that is not okay is thrown away, and _trace is left alone.
UpdateBuildKeepsOld(w) ==
  LET t == built + 1 IN
  /\ pc[w] = "build"
  /\ built' = t
  /\ \/ /\ okay' = okay \union {t}
        /\ heap' = [heap EXCEPT ![t] = "live"]
        /\ trace' = [trace EXCEPT ![job[w].mgr] = t]
     \/ /\ trace[job[w].mgr] # Null
        /\ heap' = [heap EXCEPT ![t] = "freed"]
        /\ UNCHANGED <<trace, okay>>
  /\ Goto(w, "unlock")
  /\ UNCHANGED <<alive, boots, dms, theLock, lastChangeID, gaps, started, made, job>>

\* _trace = new Trace(...): okay_ is false when a file cannot be opened, and
\* byType_ has only the types that occur (plus MALLOC, see remapAddresses).
UpdateBuild(w) ==
  LET t == built + 1 IN
  /\ pc[w] = "build"
  /\ built' = t
  /\ heap' = [heap EXCEPT ![t] = "live"]
  /\ trace' = [trace EXCEPT ![job[w].mgr] = t]
  /\ \/ /\ okay' = okay \union {t}
        /\ gaps' \in {gaps, gaps \union {t}}
     \/ /\ gaps' = gaps \union {t}
        /\ UNCHANGED okay
  /\ job' = [job EXCEPT ![w].tr = t]
  /\ Goto(w, "unlock")
  /\ UNCHANGED <<alive, boots, dms, theLock, lastChangeID, started, made>>

\* An assertion of the parser or the indexer fails, a context has no location
\* that is known, or the memory is used up by a trace without its final "E"
\* record: the process dies.
UpdateAbort(w) ==
  /\ pc[w] = "build"
  /\ Crash

UpdateUnlock(w) ==
  /\ pc[w] = "unlock"
  /\ theLock' = [theLock EXCEPT ![job[w].mgr] = None]
  /\ Goto(w, "okay")
  /\ UNCHANGED <<alive, boots, dms, trace, heap, okay, gaps, lastChangeID,
                 started, made, built, job>>

\* Mutant: update() returns true whatever the parse did.
UpdateOkayAlways(w) ==
  /\ pc[w] = "okay"
  /\ job' = [job EXCEPT ![w].text = "okay"]
  /\ Goto(w, "log")
  /\ UNCHANGED <<alive, boots, data>>

\* return _trace->okay(), read after the unlock: _trace may by now be
\* somebody else's, or deleted.
UpdateOkay(w) ==
  LET t == trace[job[w].mgr] IN
  /\ pc[w] = "okay"
  /\ \E text \in {"okay", "failed"} :
       /\ heap[t] = "live" => (text = "okay" <=> t \in okay)
       /\ job' = [job EXCEPT ![w].text = text]
  /\ Goto(w, "log")
  /\ UNCHANGED <<alive, boots, data>>

\* Mutants: the change is logged by data manager and layer both, or only if
\* the parse went well.
LogBy(w, n) ==
  /\ pc[w] = "log"
  /\ lastChangeID' = lastChangeID + n
  /\ Goto(w, "answer")
  /\ UNCHANGED <<alive, boots, dms, theLock, trace, heap, okay, gaps, started,
                 made, built, job>>
UpdateLogTwice(w) == LogBy(w, 2)
UpdateLogIfOkay(w) == LogBy(w, IF job[w].text = "okay" THEN 1 ELSE 0)

\* logChange(): atomic increment.
UpdateLog(w) ==
  /\ pc[w] = "log"
  /\ lastChangeID' = lastChangeID + 1
  /\ Goto(w, "answer")
  /\ UNCHANGED <<alive, boots, dms, theLock, trace, heap, okay, gaps, started,
                 made, built, job>>

UpdateAnswer(w) ==
  /\ pc[w] = "answer"
  /\ Reply(w, IF job[w].text = "okay" THEN "ok" ELSE "fail", "none", 0)
  /\ UNCHANGED <<alive, boots, data>>

-----------------------------------------------------------------------------
(* /f/status                                                               *)

StatusFind(w, e) ==
  /\ pc[w] = "idle"
  /\ \/ /\ Missing(w, e)
        /\ Locals(w, [NoJob EXCEPT !.text = "unknown"])
        /\ Goto(w, "poll")
     \/ /\ Present(w, e)
        /\ job' = [job EXCEPT ![w].exec = e]
        /\ Goto(w, "status")
  /\ UNCHANGED <<alive, boots, data>>

StatusManager(w) == Manager(w, "status", "try")

\* Mutant: the lock is not even tried.
StatusTryNot(w) ==
  /\ pc[w] = "try"
  /\ Goto(w, "release")
  /\ UNCHANGED <<alive, boots, data, job>>

\* pthread_mutex_trylock: busy, or the lock is ours for a moment.
StatusTry(w) ==
  LET d == job[w].mgr IN
  /\ pc[w] = "try"
  /\ \/ /\ theLock[d] # None
        /\ Locals(w, [NoJob EXCEPT !.text = "BUSY"])
        /\ Goto(w, "poll")
        /\ UNCHANGED theLock
     \/ /\ theLock[d] = None
        /\ theLock' = [theLock EXCEPT ![d] = w]
        /\ Goto(w, "release")
        /\ UNCHANGED job
  /\ UNCHANGED <<alive, boots, dms, trace, heap, okay, gaps, lastChangeID,
                 started, made, built>>

\* Mutant: the lock that was free is kept.
StatusReleaseMissing(w) ==
  /\ pc[w] = "release"
  /\ Locals(w, [NoJob EXCEPT !.text = "GOOD"])
  /\ Goto(w, "poll")
  /\ UNCHANGED <<alive, boots, dms, theLock, trace, heap, okay, gaps, lastChangeID,
                 started, made, built>>

StatusRelease(w) ==
  /\ pc[w] = "release"
  /\ theLock' = [theLock EXCEPT ![job[w].mgr] = None]
  /\ Locals(w, [NoJob EXCEPT !.text = "GOOD"])
  /\ Goto(w, "poll")
  /\ UNCHANGED <<alive, boots, dms, trace, heap, okay, gaps, lastChangeID,
                 started, made, built>>

\* writePollResponse reads the counter only now.
StatusPoll(w) ==
  /\ pc[w] = "poll"
  /\ Reply(w, "ok", job[w].text, lastChangeID)
  /\ UNCHANGED <<alive, boots, data>>

-----------------------------------------------------------------------------
(* /f/counts ("counts"), /f/context_stack ("stack") and the four handlers  *)
(* that check the frame before they touch an event ("frame").              *)

QueryFind(w, e, k) ==
  /\ pc[w] = "idle"
  /\ \/ Missing(w, e) /\ Reply(w, "fail", "none", 0)
     \/ /\ Present(w, e)
        /\ Locals(w, [NoJob EXCEPT !.exec = e, !.text = k])
        /\ Goto(w, "query")
  /\ UNCHANGED <<alive, boots, data>>

QueryManager(w) == Manager(w, "query", "gettrace")

\* getTrace() hands out the bare pointer, without the lock.
QueryTrace(w) ==
  /\ pc[w] = "gettrace"
  /\ Locals(w, [NoJob EXCEPT !.text = job[w].text, !.tr = trace[job[w].mgr]])
  /\ Goto(w, "read")
  /\ UNCHANGED <<alive, boots, data>>

\* A second f_counts on a trace that both of them are adding keys to.
CountsRace(w) ==
  /\ job[w].tr \in gaps
  /\ \E v \in Workers \ {w} : pc[v] = "read" /\ job[v].text = "counts"
                              /\ job[v].tr = job[w].tr

\* A null or dangling pointer, a racing map, or the event that
\* f_context_stack reads before it checks the frame.
QueryCrash(w) ==
  /\ pc[w] = "read"
  /\ \/ job[w].tr = Null
     \/ Dangling(job[w].tr)
     \/ job[w].text = "stack"
     \/ job[w].text = "counts" /\ CountsRace(w)
  /\ Crash

\* 500: the frame is out of range (of events_, which is empty if ~okay).
QueryRefuse(w) ==
  /\ pc[w] = "read"
  /\ job[w].tr # Null
  /\ job[w].text # "counts"
  /\ Reply(w, "fail", "none", 0)
  /\ UNCHANGED <<alive, boots, data>>

\* 200, with data of trace t.  f_counts indexes byType_ with operator[]: it
\* adds the missing keys.
QueryAnswer(w) ==
  LET t == job[w].tr IN
  /\ pc[w] = "read"
  /\ t # Null
  /\ \/ Dangling(t) /\ UNCHANGED gaps
     \/ /\ heap[t] = "live"
        /\ job[w].text = "counts" /\ gaps' = gaps \ {t}
     \/ /\ heap[t] = "live"
        /\ job[w].text # "counts" /\ t \in okay /\ UNCHANGED gaps
  /\ Reply(w, "ok", job[w].text, t)
  /\ UNCHANGED <<alive, boots, dms, theLock, trace, heap, okay, lastChangeID,
                 started, made, built>>

-----------------------------------------------------------------------------
(* /pp/list, /ping, requests without their parameters, and the connection  *)

ListIterate(w) ==
  /\ pc[w] = "idle"
  /\ \E seen \in SUBSET Listed :
       /\ seen = Listed \/ Inserting(w)
       /\ job' = [job EXCEPT ![w].text = "list", ![w].listed = seen]
  /\ Goto(w, "size")
  /\ UNCHANGED <<alive, boots, data>>

ListSize(w) ==
  /\ pc[w] = "size"
  /\ job' = [job EXCEPT ![w].num = Cardinality(Listed)]
  /\ Goto(w, "ok")
  /\ UNCHANGED <<alive, boots, data>>

\* /ping, or a request without its parameters.
Trivial(w) ==
  /\ pc[w] = "idle"
  /\ \E label \in Answered : Goto(w, label)
  /\ UNCHANGED <<alive, boots, data, job>>

\* Somebody inserts into _dms while another thread is inside it.
MapRace(w) ==
  /\ pc[w] \in MapUsers
  /\ Inserting(w)
  /\ Crash

\* The answer leaves, the connection is closed (keep-alive is off).
Close(w) ==
  /\ pc[w] \in Answered
  /\ job' = [job EXCEPT ![w] = NoJob]
  /\ Goto(w, "idle")
  /\ UNCHANGED <<alive, boots, data>>

-----------------------------------------------------------------------------
(* The process                                                             *)

\* The driver script runs "killall server" ...
Kill ==
  /\ alive
  /\ boots < MaxBoots
  /\ Crash

\* ... and a driver that gets no "pong" starts "./server --daemon".
Restart ==
  /\ ~alive
  /\ boots < MaxBoots
  /\ alive' = TRUE
  /\ boots' = boots + 1
  /\ UNCHANGED <<data, pc, job>>

\* A request arrives at an idle worker.
Accept(w) ==
  \/ \E e \in Execs : UpdateFind(w, e) \/ StatusFind(w, e)
  \/ \E e \in Execs, k \in Queries : QueryFind(w, e, k)
  \/ ListIterate(w)
  \/ Trivial(w)

UpdateStep(w) ==
  \/ UpdateInsert(w) \/ UpdateFound(w) \/ UpdateLock(w) \/ UpdateDelete(w)
  \/ UpdateBuild(w) \/ UpdateAbort(w) \/ UpdateUnlock(w) \/ UpdateOkay(w)
  \/ UpdateLog(w) \/ UpdateAnswer(w)

StatusStep(w) ==
  StatusManager(w) \/ StatusTry(w) \/ StatusRelease(w) \/ StatusPoll(w)

QueryStep(w) ==
  \/ QueryManager(w) \/ QueryTrace(w)
  \/ QueryCrash(w) \/ QueryRefuse(w) \/ QueryAnswer(w)

\* The code of a request that was accepted.
Serve(w) ==
  UpdateStep(w) \/ StatusStep(w) \/ QueryStep(w) \/ ListSize(w) \/ MapRace(w)

Next ==
  \/ alive /\ \E w \in Workers : Accept(w) \/ Serve(w) \/ Close(w)
  \/ Kill
  \/ Restart

Spec == Init /\ [][Next]_vars

(* Threads are scheduled, so a worker that can move does (WF).  A thread   *)
(* that blocks on the_lock gets it if it is released again and again (SF): *)
(* the mutex wakes its waiters, and a status request holds it for two      *)
(* instructions.                                                           *)
Fairness ==
  \A w \in Workers :
    /\ WF_vars(alive /\ (Serve(w) \/ Close(w)))
    /\ SF_vars(alive /\ UpdateLock(w))

FairSpec == Spec /\ Fairness

-----------------------------------------------------------------------------
(* What the handlers rely on                                               *)

\* the_lock of a manager is held exactly by the worker that is inside
\* update() or status() of that manager, so no two of them are.
LockMatchesHolder ==
  \A d \in Managers, w \in Workers :
    theLock[d] = w <=> pc[w] \in Holding /\ job[w].mgr = d

\* _trace points to a deleted Trace only while update() is between the
\* delete and the assignment of the new one: nobody deletes a trace twice.
DanglingOnlyWhileBuilding ==
  \A d \in Managers :
    Dangling(trace[d]) => \E w \in Workers : pc[w] = "build" /\ job[w].mgr = d

\* Every Trace that exists belongs to exactly one manager, so the delete in
\* update() is enough to free it.
EveryTraceOwnedOnce ==
  \A t \in Traces :
    heap[t] = "live" => \E d \in Managers :
                          \A c \in Managers : trace[c] = t <=> c = d

\* Every update that was accepted is on its way or in the change counter:
\* the number a client polls misses no finished update, and counts none twice.
ChangesAccounted ==
  started = lastChangeID + At(Pending)

\* While status() holds the lock to say GOOD, the manager has no trace or a
\* live one, never the deleted one.
GoodMeansNotDangling ==
  \A w \in Workers : pc[w] = "release" => ~Dangling(trace[job[w].mgr])

\* A manager stays reachable: it is the one of some executable, or the update
\* that allocated it has yet to insert it.
NoOrphanManager ==
  \A d \in 1 .. made :
    \/ \E e \in Execs : dms[e] = d
    \/ \E w \in Workers : pc[w] = "insert" /\ job[w].mgr = d

\* No two updates are between the count and the insertion at the same time.
InsertsAlone ==
  \A v, w \in Workers : pc[v] = "insert" /\ pc[w] = "insert" => v = w

\* The race of pervertlayer.cpp:61-64 is the only way to lose a manager: unless
\* two updates, of whatever executables, are once between count and insertion
\* together, all stay reachable, however else updates overlap.
OrphansNeedOverlap == []InsertsAlone => []NoOrphanManager

\* The HTTP status of an update is asked of _trace after the unlock, when it may
\* be the trace of another update.  But it is wrong about its own parse only if
\* the trace it has built is gone, replaced by that of the other.
HonestWhileLive ==
  \A w \in Workers :
    job[w].text \in {"okay", "failed"} /\ heap[job[w].tr] = "live" =>
      (job[w].text = "okay" <=> job[w].tr \in okay)

\* The pointer of a manager moves only under its lock, from null or a deleted
\* trace to a trace that no manager had before: no trace is lost undeleted.
PointerMovesUnderLock ==
  [][alive /\ alive' => \A d \in Managers :
       trace'[d] # trace[d] =>
         /\ theLock[d] # None
         /\ trace[d] = Null \/ heap[trace[d]] = "freed"
         /\ \A c \in Managers : trace[c] # trace'[d]]_vars

\* A query reads a trace that is there.
ReadsAreLive ==
  \A w \in Workers : pc[w] = "read" => job[w].tr # Null /\ heap[job[w].tr] = "live"

\* Every accepted request is answered, unless the process dies first.
EveryRequestAnswered ==
  \A w \in Workers : pc[w] # "idle" ~> pc[w] = "idle" \/ ~alive

-----------------------------------------------------------------------------
(* The inductive invariant: what has to hold beside the properties above   *)
(* for every step to preserve them.                                        *)

\* The locals a worker is about to use have been set, to something that is
\* there: the second lookup of _dms finds what the first one saw.
LocalsSet ==
  \A w \in Workers :
    /\ pc[w] \in {"insert", "found", "status", "query"} => job[w].exec \in Execs
    /\ pc[w] \in {"found", "status", "query"} => dms[job[w].exec] # Null
    /\ pc[w] \in {"insert", "lock", "okay", "try", "gettrace"} \union Holding
         => job[w].mgr \in 1 .. made

\* _dms and the managers point to what was allocated; no two managers share
\* a trace.
PointersValid ==
  /\ \A e \in Execs : dms[e] <= made
  /\ \A t \in Traces : heap[t] = "unborn" <=> t > built
  /\ \A d \in Managers : trace[d] <= built
  /\ \A c, d \in Managers : trace[c] = trace[d] /\ trace[c] # Null => c = d

\* When the new trace is about to be stored, the old one is gone.
OldTraceGone ==
  \A w \in Workers :
    pc[w] = "build" => \/ trace[job[w].mgr] = Null
                       \/ heap[trace[job[w].mgr]] = "freed"

LiveTracesHeld ==
  \A t \in Traces : heap[t] = "live" => \E d \in Managers : trace[d] = t

\* Every update builds one trace.
TracesAccounted == started = built + At(Unbuilt)

\* Who inserts a manager replaces none, unless inserts overlap.
ReachInv ==
  /\ \A w \in Workers : pc[w] = "insert" => dms[job[w].exec] = Null
  /\ NoOrphanManager

\* The trace an update has built, until it answers, is its manager's or gone.
HonestInv ==
  /\ \A w \in Workers :
       /\ pc[w] \in {"unlock", "okay"} =>
            /\ job[w].tr \in 1 .. built
            /\ trace[job[w].mgr] = job[w].tr \/ heap[job[w].tr] = "freed"
       /\ job[w].text \in {"okay", "failed"} =>
            pc[w] \in {"log", "answer"} /\ job[w].tr \in 1 .. built
  /\ HonestWhileLive

IInv ==
  /\ TypeOK
  /\ LocalsSet
  /\ PointersValid
  /\ LockMatchesHolder
  /\ OldTraceGone
  /\ DanglingOnlyWhileBuilding
  /\ LiveTracesHeld
  /\ TracesAccounted
  /\ ChangesAccounted
=============================================================================
