----------------------------- MODULE WorkerPool -----------------------------
(***************************************************************************)
(* The threads of the embedded web server (mongoose): a master accepts     *)
(* connections and puts them into a ring buffer, workers take them out,    *)
(* serve one request each and close them, and whoever destroys the Server  *)
(* object calls mg_stop.                                                   *)
(*                                                                         *)
(* One mutex guards the ring and num_threads; stop_flag is read and        *)
(* written without it.  A critical section that reads nothing else is one  *)
(* step.  A thread blocked in pthread_cond_wait is at the label "asleep",  *)
(* "full" or "joining"; a signal moves it to where it takes the mutex      *)
(* again, and so may a spurious wakeup.                                    *)
(***************************************************************************)
EXTENDS Integers, FiniteSets, Sequences

CONSTANTS
  Workers,     \* the worker threads
  Sockets,     \* connections the clients may open
  QueueSize,   \* ARRAY_SIZE(ctx->queue)
  None         \* no thread, no socket

ASSUME PoolAssumption ==
  /\ IsFiniteSet(Workers) /\ Workers # {}
  /\ None \notin Workers \union Sockets
  /\ QueueSize \in Nat \ {0}

VARIABLES
  open,        \* sockets that are connected
  backlog,     \* connections the kernel holds for accept()
  mutex,       \* ctx->mutex: the worker that holds it between steps, or None
  queue,       \* ctx->queue
  sqHead,      \* ctx->sq_head
  sqTail,      \* ctx->sq_tail
  stopFlag,    \* ctx->stop_flag
  numThreads,  \* ctx->num_threads
  master,      \* where the master thread is
  accepted,    \* ... and the socket it has accepted
  pc,          \* where each worker is
  conn,        \* ... and the socket it serves
  stopper      \* where the thread is that calls mg_stop

ring == <<queue, sqHead, sqTail>>
clients == <<open, backlog>>
masterVars == <<master, accepted>>
workerVars == <<pc, conn>>
poolVars == <<clients, mutex, ring, stopFlag, numThreads, masterVars, workerVars, stopper>>

Slots == 0 .. QueueSize - 1
Queued == {queue[i % QueueSize] : i \in sqTail .. sqHead - 1}

PoolTypeOK ==
  /\ open \subseteq Sockets
  /\ backlog \in Seq(Sockets)
  /\ mutex \in Workers \union {None}
  /\ queue \in [Slots -> Sockets \union {None}]
  /\ sqTail \in 0 .. QueueSize
  /\ sqHead \in sqTail .. sqTail + QueueSize
  /\ stopFlag \in 0 .. 2
  /\ numThreads \in Nat
  /\ master \in {"loop", "select", "produce", "full", "close", "broadcast",
                 "join", "joining", "finish", "gone"}
  /\ accepted \in Sockets \union {None}
  /\ pc \in [Workers -> {"loop", "consume", "test", "sleep", "asleep", "serve",
                         "exit", "gone"}]
  /\ conn \in [Workers -> Sockets \union {None}]
  /\ stopper \in {"run", "spin", "freed"}

PoolInit ==
  /\ open = {}
  /\ backlog = <<>>
  /\ mutex = None
  /\ queue = [i \in Slots |-> None]
  /\ sqHead = 0 /\ sqTail = 0
  /\ stopFlag = 0
  /\ numThreads = Cardinality(Workers)
  /\ master = "loop" /\ accepted = None
  /\ pc = [w \in Workers |-> "loop"]
  /\ conn = [w \in Workers |-> None]
  /\ stopper = "run"

Goto(w, label) == pc' = [pc EXCEPT ![w] = label]

-----------------------------------------------------------------------------
Listening == master \notin {"broadcast", "join", "joining", "finish", "gone"}

\* A client opens a connection.
Connect(s) ==
  /\ s \notin open /\ Listening
  /\ open' = open \union {s}
  /\ backlog' = Append(backlog, s)
  /\ UNCHANGED <<mutex, ring, stopFlag, numThreads, masterVars, workerVars, stopper>>

-----------------------------------------------------------------------------
(* consume_socket, worker_thread                                           *)

WorkerLoop(w) ==
  /\ pc[w] = "loop"
  /\ Goto(w, IF stopFlag = 0 THEN "consume" ELSE "exit")
  /\ UNCHANGED <<clients, mutex, ring, stopFlag, numThreads, masterVars, conn, stopper>>

ConsumeLock(w) ==
  /\ pc[w] = "consume"
  /\ mutex = None
  /\ mutex' = w
  /\ Goto(w, "test")
  /\ UNCHANGED <<clients, ring, stopFlag, numThreads, masterVars, conn, stopper>>

\* The queue is empty: the worker will wait.
ConsumeEmpty(w) ==
  /\ pc[w] = "test"
  /\ sqHead = sqTail /\ stopFlag = 0
  /\ Goto(w, "sleep")
  /\ UNCHANGED <<clients, mutex, ring, stopFlag, numThreads, masterVars, conn, stopper>>

\* Mutant: the mutex is given up before the thread is on the waiting list.
ConsumeSleepLate(w) ==
  /\ pc[w] = "sleep"
  /\ mutex' = IF mutex = w THEN None ELSE mutex
  /\ Goto(w, IF mutex = w THEN "sleep" ELSE "asleep")
  /\ UNCHANGED <<clients, ring, stopFlag, numThreads, masterVars, conn, stopper>>

\* pthread_cond_wait(&ctx->sq_full, &ctx->mutex)
ConsumeSleep(w) ==
  /\ pc[w] = "sleep"
  /\ mutex' = None
  /\ Goto(w, "asleep")
  /\ UNCHANGED <<clients, ring, stopFlag, numThreads, masterVars, conn, stopper>>

ConsumeStop(w) ==
  /\ pc[w] = "test"
  /\ stopFlag # 0
  /\ mutex' = None
  /\ Goto(w, "exit")
  /\ UNCHANGED <<clients, ring, stopFlag, numThreads, masterVars, conn, stopper>>

Wrap(n) == IF sqTail + 1 > QueueSize THEN n - QueueSize ELSE n

\* Mutant: no signal to the master.
ConsumeTakeSilent(w) ==
  /\ pc[w] = "test"
  /\ sqHead # sqTail /\ stopFlag = 0
  /\ conn' = [conn EXCEPT ![w] = queue[sqTail % QueueSize]]
  /\ sqTail' = Wrap(sqTail + 1)
  /\ sqHead' = Wrap(sqHead)
  /\ mutex' = None
  /\ Goto(w, "serve")
  /\ UNCHANGED <<clients, queue, stopFlag, numThreads, masterVars, stopper>>

\* Copies the socket, increments the tail, wraps both pointers, and signals
\* sq_empty, for which only the master waits.
ConsumeTake(w) ==
  /\ pc[w] = "test"
  /\ sqHead # sqTail /\ stopFlag = 0
  /\ conn' = [conn EXCEPT ![w] = queue[sqTail % QueueSize]]
  /\ sqTail' = Wrap(sqTail + 1)
  /\ sqHead' = Wrap(sqHead)
  /\ master' = IF master = "full" THEN "produce" ELSE master
  /\ mutex' = None
  /\ Goto(w, "serve")
  /\ UNCHANGED <<clients, queue, stopFlag, numThreads, accepted, stopper>>

\* process_new_connection and close_connection: when the client has asked (or
\* hung up: recv() waits for that), the callback answers; keep-alive is off.
ServeConnection(w) ==
  /\ pc[w] = "serve"
  /\ open' = open \ {conn[w]}
  /\ conn' = [conn EXCEPT ![w] = None]
  /\ Goto(w, "loop")
  /\ UNCHANGED <<backlog, mutex, ring, stopFlag, numThreads, masterVars, stopper>>

WorkerExit(w) ==
  /\ pc[w] = "exit"
  /\ mutex = None
  /\ numThreads' = numThreads - 1
  /\ master' = IF master = "joining" THEN "join" ELSE master
  /\ Goto(w, "gone")
  /\ UNCHANGED <<clients, mutex, ring, stopFlag, accepted, conn, stopper>>

-----------------------------------------------------------------------------
(* produce_socket, master_thread                                           *)

MasterLoop ==
  /\ master = "loop"
  /\ master' = IF stopFlag = 0 THEN "select" ELSE "close"
  /\ UNCHANGED <<clients, mutex, ring, stopFlag, numThreads, accepted, workerVars, stopper>>

\* select() finds nothing for 200 ms.
SelectTimeout ==
  /\ master = "select" /\ backlog = <<>>
  /\ master' = "loop"
  /\ UNCHANGED <<clients, mutex, ring, stopFlag, numThreads, accepted, workerVars, stopper>>

Accept ==
  /\ master = "select" /\ backlog # <<>>
  /\ accepted' = Head(backlog)
  /\ backlog' = Tail(backlog)
  /\ master' = "produce"
  /\ UNCHANGED <<open, mutex, ring, stopFlag, numThreads, workerVars, stopper>>

ProduceFull ==
  /\ master = "produce" /\ mutex = None
  /\ sqHead - sqTail >= QueueSize
  /\ master' = "full"
  /\ UNCHANGED <<clients, mutex, ring, stopFlag, numThreads, accepted, workerVars, stopper>>

\* pthread_cond_signal(&ctx->sq_full): one of those that wait, if any.
SignalWorker ==
  \/ \E w \in Workers : pc[w] = "asleep" /\ Goto(w, "consume")
  \/ (\A w \in Workers : pc[w] # "asleep") /\ UNCHANGED pc

\* Mutants: the wait for room is off by one, the signal is missing.
ProduceBy(room, Signal) ==
  /\ master = "produce" /\ mutex = None
  /\ sqHead - sqTail < room
  /\ queue' = [queue EXCEPT ![sqHead % QueueSize] = accepted]
  /\ sqHead' = sqHead + 1
  /\ accepted' = None
  /\ Signal
  /\ master' = "loop"
  /\ UNCHANGED <<clients, mutex, sqTail, stopFlag, numThreads, conn, stopper>>
ProduceOverfull == ProduceBy(QueueSize + 1, SignalWorker)
ProduceSilent == ProduceBy(QueueSize, UNCHANGED pc)

Produce ==
  /\ master = "produce" /\ mutex = None
  /\ sqHead - sqTail < QueueSize
  /\ queue' = [queue EXCEPT ![sqHead % QueueSize] = accepted]
  /\ sqHead' = sqHead + 1
  /\ accepted' = None
  /\ SignalWorker
  /\ master' = "loop"
  /\ UNCHANGED <<clients, mutex, sqTail, stopFlag, numThreads, conn, stopper>>

\* close_all_listening_sockets: the kernel resets what was not accepted.
MasterClose ==
  /\ master = "close"
  /\ open' = {s \in open : \A i \in DOMAIN backlog : backlog[i] # s}
  /\ backlog' = <<>>
  /\ master' = "broadcast"
  /\ UNCHANGED <<mutex, ring, stopFlag, numThreads, accepted, workerVars, stopper>>

\* pthread_cond_broadcast(&ctx->sq_full), without the mutex.
MasterBroadcast ==
  /\ master = "broadcast"
  /\ pc' = [w \in Workers |-> IF pc[w] = "asleep" THEN "consume" ELSE pc[w]]
  /\ master' = "join"
  /\ UNCHANGED <<clients, mutex, ring, stopFlag, numThreads, accepted, conn, stopper>>

\* Mutant: if instead of while, a spurious wakeup is believed.
MasterJoinOnce ==
  /\ master = "join" /\ mutex = None
  /\ master' = IF numThreads = Cardinality(Workers) THEN "joining" ELSE "finish"
  /\ UNCHANGED <<clients, mutex, ring, stopFlag, numThreads, accepted, workerVars, stopper>>

\* Wait until all threads finish.
MasterJoin ==
  /\ master = "join" /\ mutex = None
  /\ master' = IF numThreads > 0 THEN "joining" ELSE "finish"
  /\ UNCHANGED <<clients, mutex, ring, stopFlag, numThreads, accepted, workerVars, stopper>>

MasterFinish ==
  /\ master = "finish"
  /\ stopFlag' = 2
  /\ master' = "gone"
  /\ UNCHANGED <<clients, mutex, ring, numThreads, accepted, workerVars, stopper>>

-----------------------------------------------------------------------------
(* mg_stop, and what pthreads may do on its own                            *)

Stop ==
  /\ stopper = "run"
  /\ stopFlag' = 1
  /\ stopper' = "spin"
  /\ UNCHANGED <<clients, mutex, ring, numThreads, masterVars, workerVars>>

\* stop_flag is 2: free_context.
StopFree ==
  /\ stopper = "spin" /\ stopFlag = 2
  /\ stopper' = "freed"
  /\ UNCHANGED <<clients, mutex, ring, stopFlag, numThreads, masterVars, workerVars>>

SpuriousWakeup ==
  /\ \/ /\ \E w \in Workers : pc[w] = "asleep" /\ Goto(w, "consume")
        /\ UNCHANGED master
     \/ /\ master \in {"full", "joining"}
        /\ master' = IF master = "full" THEN "produce" ELSE "join"
        /\ UNCHANGED pc
  /\ UNCHANGED <<clients, mutex, ring, stopFlag, numThreads, accepted, conn, stopper>>

WorkerStep(w) ==
  \/ WorkerLoop(w)
  \/ ConsumeLock(w) \/ ConsumeEmpty(w) \/ ConsumeSleep(w) \/ ConsumeStop(w) \/ ConsumeTake(w)
  \/ ServeConnection(w) \/ WorkerExit(w)

MasterStep ==
  \/ MasterLoop \/ SelectTimeout \/ Accept \/ ProduceFull \/ Produce
  \/ MasterClose \/ MasterBroadcast \/ MasterJoin \/ MasterFinish

PoolNext ==
  \/ \E s \in Sockets : Connect(s)
  \/ \E w \in Workers : WorkerStep(w)
  \/ MasterStep
  \/ Stop \/ StopFree \/ SpuriousWakeup

PoolSpec == PoolInit /\ [][PoolNext]_poolVars

(* Threads are scheduled (WF), and a client that opened a connection asks   *)
(* or hangs up in the end, so that ServeConnection is not blocked for ever. *)
(* A thread that waits for the mutex gets it if it is free again and again  *)
(* (SF), for nobody holds it for long.  No fairness of connecting, stopping *)
(* and spurious wakeups.                                                    *)
PoolFairness ==
  /\ \A w \in Workers : /\ WF_poolVars(WorkerStep(w))
                        /\ SF_poolVars(ConsumeLock(w) \/ WorkerExit(w))
  /\ WF_poolVars(MasterStep)
  /\ SF_poolVars(ProduceFull \/ Produce \/ MasterJoin)
  /\ WF_poolVars(StopFree)

FairPoolSpec == PoolSpec /\ PoolFairness

-----------------------------------------------------------------------------
(* What the pool promises                                                  *)

\* What is in the ring, from the next to go.
Content == [i \in 1 .. sqHead - sqTail |-> queue[(sqTail + i - 1) % QueueSize]]

\* The ring with its wrapping pointers, 20 slots in the code, is a bounded
\* queue, first in, first out.
Fifo == INSTANCE SocketQueue
  WITH Items <- Sockets, Size <- QueueSize, q <- Content
ImplementsFifo == Fifo!Spec

\* A connection is at exactly one place: in the kernel's backlog, in the
\* master's hands, in the queue, or with one worker.  None is served twice or
\* dropped unclosed while the server runs.
Places(s) ==
  Cardinality({i \in DOMAIN backlog : backlog[i] = s})
    + Cardinality({i \in sqTail .. sqHead - 1 : queue[i % QueueSize] = s})
    + Cardinality({w \in Workers : conn[w] = s})
    + (IF accepted = s THEN 1 ELSE 0)
OnePlace ==
  \A s \in Sockets : Places(s) = IF s \in open THEN 1 ELSE 0

\* No wakeup is lost while the server runs: with a connection in the queue,
\* not all the workers are waiting for one.
NobodySleepsOnWork ==
  sqHead # sqTail /\ stopFlag = 0 =>
    \E w \in Workers : pc[w] \notin {"sleep", "asleep"}

\* Nor by the master: it waits for room only as long as there is none.
MasterWaitsForRoom == master = "full" => sqHead - sqTail = QueueSize

\* mg_stop frees the context, and its mutex is destroyed, only when no thread
\* is left to use it.
FreedUnused ==
  stopFlag = 2 => master = "gone" /\ \A w \in Workers : pc[w] = "gone"

-----------------------------------------------------------------------------
(* What has to hold beside these for every step to preserve them           *)

\* The worker that has the mutex between steps is the one that looks at the
\* queue.
MutexMatches ==
  \A w \in Workers : mutex = w <=> pc[w] \in {"test", "sleep"}

\* Nothing comes into the queue between the test and the wait.
SleepFindsNothing ==
  \A w \in Workers : pc[w] = "sleep" => sqHead = sqTail

\* A worker leaves its loop only when it was told to.
NobodyLeavesEarly ==
  \/ stopFlag # 0
  \/ \A w \in Workers : pc[w] \notin {"exit", "gone"}

Remaining == {w \in Workers : pc[w] # "gone"}

\* num_threads counts the workers that have yet to leave, the master stays
\* until they have, and says so last.
ThreadsCounted ==
  /\ numThreads = Cardinality(Remaining)
  /\ master \in {"finish", "gone"} => Remaining = {}
  /\ stopFlag = 2 => master = "gone"

\* A master that has something to put has a socket in its hands.
MasterHolds == master \in {"produce", "full"} <=> accepted # None

\* Only a worker that serves has one: a take overwrites none.
ServersHold == \A w \in Workers : pc[w] # "serve" => conn[w] = None

PoolInv ==
  /\ PoolTypeOK
  /\ MutexMatches /\ SleepFindsNothing /\ NobodyLeavesEarly
  /\ NobodySleepsOnWork /\ MasterWaitsForRoom /\ MasterHolds /\ ServersHold
  /\ ThreadsCounted

-----------------------------------------------------------------------------
\* Every connection is served in the end, unless somebody stops the server.
EveryConnectionServed ==
  \A s \in Sockets : s \in open ~> s \notin open \/ stopFlag # 0

\* mongoose.h:108: mg_stop "blocks until all Mongoose threads are stopped", so
\* it returns.
StopReturns == stopper = "spin" ~> stopper = "freed"
=============================================================================
