----------------------------- MODULE PoolProofs -----------------------------
(***************************************************************************)
(* Proofs about WorkerPool, for any number of workers and sockets and any  *)
(* size of the queue.                                                      *)
(*                                                                         *)
(* PoolInv is inductive: one lemma per action, and in it the types, the    *)
(* mutex and the labels, the two lost wakeups that do not happen, and the  *)
(* count of the threads.                                                   *)
(***************************************************************************)
EXTENDS WorkerPool, BasicLemmas, FiniteSetTheorems, SequenceTheorems, TLAPS

\* The workers that have yet to leave can be counted.
LEMMA RemainingFinite ==
  /\ IsFiniteSet(Remaining)
  /\ Cardinality(Remaining) \in Nat
  /\ Cardinality(Remaining) = 0 <=> Remaining = {}
<1>1. IsFiniteSet(Remaining)
  BY FS_Subset, PoolAssumption DEF Remaining
<1> QED BY <1>1, FS_CardinalityType, FS_EmptySet

LEMMA InitPreserves == PoolInit => PoolInv
<1> SUFFICES ASSUME PoolInit PROVE PoolInv
  OBVIOUS
<1> USE PoolAssumption DEF PoolInit
<1>1. Remaining = Workers
  BY DEF Remaining
<1>2. Cardinality(Workers) \in Nat
  BY FS_CardinalityType
<1>3. PoolTypeOK
  BY <1>2 DEF PoolTypeOK, Slots
<1>4. ThreadsCounted
  BY <1>1 DEF ThreadsCounted
<1> QED
  BY <1>3, <1>4 DEF PoolInv, MutexMatches, SleepFindsNothing, NobodyLeavesEarly,
     NobodySleepsOnWork, MasterWaitsForRoom, MasterHolds, ServersHold

\* A connection waits in the kernel.
LEMMA ConnectPreserves ==
  ASSUME PoolInv, NEW s \in Sockets, Connect(s)
  PROVE  PoolInv'
<1> USE PoolAssumption DEF Connect, clients, ring, masterVars, workerVars, PoolInv
<1>1. PoolTypeOK'
  BY DEF PoolTypeOK, Slots
<1>2. (MutexMatches /\ SleepFindsNothing /\ NobodyLeavesEarly /\ MasterHolds /\ ServersHold)'
  BY DEF PoolTypeOK, MutexMatches, SleepFindsNothing, NobodyLeavesEarly, MasterHolds, ServersHold
<1>3. (NobodySleepsOnWork /\ MasterWaitsForRoom)'
  BY DEF PoolTypeOK, MutexMatches, SleepFindsNothing, NobodySleepsOnWork, MasterWaitsForRoom
<1>4. ThreadsCounted'
  <2>1. Remaining' = Remaining
    BY DEF PoolTypeOK, Remaining
  <2> QED BY <2>1 DEF PoolTypeOK, ThreadsCounted, NobodyLeavesEarly
<1> QED BY <1>1, <1>2, <1>3, <1>4

\* A worker reads stop_flag.
LEMMA WorkerLoopPreserves ==
  ASSUME PoolInv, NEW w \in Workers, WorkerLoop(w)
  PROVE  PoolInv'
<1> USE PoolAssumption DEF WorkerLoop, Goto, clients, ring, masterVars, workerVars, PoolInv
<1>1. PoolTypeOK'
  BY DEF PoolTypeOK, Slots
<1>2. (MutexMatches /\ SleepFindsNothing /\ NobodyLeavesEarly /\ MasterHolds /\ ServersHold)'
  BY DEF PoolTypeOK, MutexMatches, SleepFindsNothing, NobodyLeavesEarly, MasterHolds, ServersHold
<1>3. (NobodySleepsOnWork /\ MasterWaitsForRoom)'
  BY DEF PoolTypeOK, MutexMatches, SleepFindsNothing, NobodySleepsOnWork, MasterWaitsForRoom
<1>4. ThreadsCounted'
  <2>1. Remaining' = Remaining
    BY DEF PoolTypeOK, Remaining
  <2> QED BY <2>1 DEF PoolTypeOK, ThreadsCounted, NobodyLeavesEarly
<1> QED BY <1>1, <1>2, <1>3, <1>4

\* A worker takes the mutex.
LEMMA ConsumeLockPreserves ==
  ASSUME PoolInv, NEW w \in Workers, ConsumeLock(w)
  PROVE  PoolInv'
<1> USE PoolAssumption DEF ConsumeLock, Goto, clients, ring, masterVars, workerVars, PoolInv
<1>1. PoolTypeOK'
  BY DEF PoolTypeOK, Slots
<1>2. (MutexMatches /\ SleepFindsNothing /\ NobodyLeavesEarly /\ MasterHolds /\ ServersHold)'
  BY DEF PoolTypeOK, MutexMatches, SleepFindsNothing, NobodyLeavesEarly, MasterHolds, ServersHold
<1>3. (NobodySleepsOnWork /\ MasterWaitsForRoom)'
  BY DEF PoolTypeOK, MutexMatches, SleepFindsNothing, NobodySleepsOnWork, MasterWaitsForRoom
<1>4. ThreadsCounted'
  <2>1. Remaining' = Remaining
    BY DEF PoolTypeOK, Remaining
  <2> QED BY <2>1 DEF PoolTypeOK, ThreadsCounted, NobodyLeavesEarly
<1> QED BY <1>1, <1>2, <1>3, <1>4

\* A worker finds nothing.
LEMMA ConsumeEmptyPreserves ==
  ASSUME PoolInv, NEW w \in Workers, ConsumeEmpty(w)
  PROVE  PoolInv'
<1> USE PoolAssumption DEF ConsumeEmpty, Goto, clients, ring, masterVars, workerVars, PoolInv
<1>1. PoolTypeOK'
  BY DEF PoolTypeOK, Slots
<1>2. (MutexMatches /\ SleepFindsNothing /\ NobodyLeavesEarly /\ MasterHolds /\ ServersHold)'
  BY DEF PoolTypeOK, MutexMatches, SleepFindsNothing, NobodyLeavesEarly, MasterHolds, ServersHold
<1>3. (NobodySleepsOnWork /\ MasterWaitsForRoom)'
  BY DEF PoolTypeOK, MutexMatches, SleepFindsNothing, NobodySleepsOnWork, MasterWaitsForRoom
<1>4. ThreadsCounted'
  <2>1. Remaining' = Remaining
    BY DEF PoolTypeOK, Remaining
  <2> QED BY <2>1 DEF PoolTypeOK, ThreadsCounted, NobodyLeavesEarly
<1> QED BY <1>1, <1>2, <1>3, <1>4

\* A worker waits: nothing has come since it looked.
LEMMA ConsumeSleepPreserves ==
  ASSUME PoolInv, NEW w \in Workers, ConsumeSleep(w)
  PROVE  PoolInv'
<1> USE PoolAssumption DEF ConsumeSleep, Goto, clients, ring, masterVars, workerVars, PoolInv
<1>1. PoolTypeOK'
  BY DEF PoolTypeOK, Slots
<1>2. (MutexMatches /\ SleepFindsNothing /\ NobodyLeavesEarly /\ MasterHolds /\ ServersHold)'
  BY DEF PoolTypeOK, MutexMatches, SleepFindsNothing, NobodyLeavesEarly, MasterHolds, ServersHold
<1>3. (NobodySleepsOnWork /\ MasterWaitsForRoom)'
  BY DEF PoolTypeOK, MutexMatches, SleepFindsNothing, NobodySleepsOnWork, MasterWaitsForRoom
<1>4. ThreadsCounted'
  <2>1. Remaining' = Remaining
    BY DEF PoolTypeOK, Remaining
  <2> QED BY <2>1 DEF PoolTypeOK, ThreadsCounted, NobodyLeavesEarly
<1> QED BY <1>1, <1>2, <1>3, <1>4

\* A worker is told to leave.
LEMMA ConsumeStopPreserves ==
  ASSUME PoolInv, NEW w \in Workers, ConsumeStop(w)
  PROVE  PoolInv'
<1> USE PoolAssumption DEF ConsumeStop, Goto, clients, ring, masterVars, workerVars, PoolInv
<1>1. PoolTypeOK'
  BY DEF PoolTypeOK, Slots
<1>2. (MutexMatches /\ SleepFindsNothing /\ NobodyLeavesEarly /\ MasterHolds /\ ServersHold)'
  BY DEF PoolTypeOK, MutexMatches, SleepFindsNothing, NobodyLeavesEarly, MasterHolds, ServersHold
<1>3. (NobodySleepsOnWork /\ MasterWaitsForRoom)'
  BY DEF PoolTypeOK, MutexMatches, SleepFindsNothing, NobodySleepsOnWork, MasterWaitsForRoom
<1>4. ThreadsCounted'
  <2>1. Remaining' = Remaining
    BY DEF PoolTypeOK, Remaining
  <2> QED BY <2>1 DEF PoolTypeOK, ThreadsCounted, NobodyLeavesEarly
<1> QED BY <1>1, <1>2, <1>3, <1>4

\* A worker takes a socket, and a master that waits for room goes on.
LEMMA ConsumeTakePreserves ==
  ASSUME PoolInv, NEW w \in Workers, ConsumeTake(w)
  PROVE  PoolInv'
<1> USE PoolAssumption DEF ConsumeTake, Wrap, Goto, clients, ring, masterVars, workerVars, PoolInv
<1>1. PoolTypeOK'
  BY DEF PoolTypeOK, Slots
<1>2. (MutexMatches /\ SleepFindsNothing /\ NobodyLeavesEarly /\ MasterHolds /\ ServersHold)'
  BY DEF PoolTypeOK, MutexMatches, SleepFindsNothing, NobodyLeavesEarly, MasterHolds, ServersHold
<1>3. (NobodySleepsOnWork /\ MasterWaitsForRoom)'
  BY DEF PoolTypeOK, MutexMatches, SleepFindsNothing, NobodySleepsOnWork, MasterWaitsForRoom
<1>4. ThreadsCounted'
  <2>1. Remaining' = Remaining
    BY DEF PoolTypeOK, Remaining
  <2> QED BY <2>1 DEF PoolTypeOK, ThreadsCounted, NobodyLeavesEarly
<1> QED BY <1>1, <1>2, <1>3, <1>4

\* A worker closes its connection.
LEMMA ServeConnectionPreserves ==
  ASSUME PoolInv, NEW w \in Workers, ServeConnection(w)
  PROVE  PoolInv'
<1> USE PoolAssumption DEF ServeConnection, Goto, clients, ring, masterVars, workerVars, PoolInv
<1>1. PoolTypeOK'
  BY DEF PoolTypeOK, Slots
<1>2. (MutexMatches /\ SleepFindsNothing /\ NobodyLeavesEarly /\ MasterHolds /\ ServersHold)'
  BY DEF PoolTypeOK, MutexMatches, SleepFindsNothing, NobodyLeavesEarly, MasterHolds, ServersHold
<1>3. (NobodySleepsOnWork /\ MasterWaitsForRoom)'
  BY DEF PoolTypeOK, MutexMatches, SleepFindsNothing, NobodySleepsOnWork, MasterWaitsForRoom
<1>4. ThreadsCounted'
  <2>1. Remaining' = Remaining
    BY DEF PoolTypeOK, Remaining
  <2> QED BY <2>1 DEF PoolTypeOK, ThreadsCounted, NobodyLeavesEarly
<1> QED BY <1>1, <1>2, <1>3, <1>4

\* The master reads stop_flag.
LEMMA MasterLoopPreserves ==
  ASSUME PoolInv, MasterLoop
  PROVE  PoolInv'
<1> USE PoolAssumption DEF MasterLoop, clients, ring, masterVars, workerVars, PoolInv
<1>1. PoolTypeOK'
  BY DEF PoolTypeOK, Slots
<1>2. (MutexMatches /\ SleepFindsNothing /\ NobodyLeavesEarly /\ MasterHolds /\ ServersHold)'
  BY DEF PoolTypeOK, MutexMatches, SleepFindsNothing, NobodyLeavesEarly, MasterHolds, ServersHold
<1>3. (NobodySleepsOnWork /\ MasterWaitsForRoom)'
  BY DEF PoolTypeOK, MutexMatches, SleepFindsNothing, NobodySleepsOnWork, MasterWaitsForRoom
<1>4. ThreadsCounted'
  <2>1. Remaining' = Remaining
    BY DEF PoolTypeOK, Remaining
  <2> QED BY <2>1 DEF PoolTypeOK, ThreadsCounted, NobodyLeavesEarly
<1> QED BY <1>1, <1>2, <1>3, <1>4

\* Nothing to accept.
LEMMA SelectTimeoutPreserves ==
  ASSUME PoolInv, SelectTimeout
  PROVE  PoolInv'
<1> USE PoolAssumption DEF SelectTimeout, clients, ring, masterVars, workerVars, PoolInv
<1>1. PoolTypeOK'
  BY DEF PoolTypeOK, Slots
<1>2. (MutexMatches /\ SleepFindsNothing /\ NobodyLeavesEarly /\ MasterHolds /\ ServersHold)'
  BY DEF PoolTypeOK, MutexMatches, SleepFindsNothing, NobodyLeavesEarly, MasterHolds, ServersHold
<1>3. (NobodySleepsOnWork /\ MasterWaitsForRoom)'
  BY DEF PoolTypeOK, MutexMatches, SleepFindsNothing, NobodySleepsOnWork, MasterWaitsForRoom
<1>4. ThreadsCounted'
  <2>1. Remaining' = Remaining
    BY DEF PoolTypeOK, Remaining
  <2> QED BY <2>1 DEF PoolTypeOK, ThreadsCounted, NobodyLeavesEarly
<1> QED BY <1>1, <1>2, <1>3, <1>4

\* The master has a socket in its hands.
LEMMA AcceptPreserves ==
  ASSUME PoolInv, Accept
  PROVE  PoolInv'
<1> USE PoolAssumption DEF Accept, clients, ring, masterVars, workerVars, PoolInv
<1>1. PoolTypeOK'
  BY DEF PoolTypeOK, Slots
<1>2. (MutexMatches /\ SleepFindsNothing /\ NobodyLeavesEarly /\ MasterHolds /\ ServersHold)'
  BY DEF PoolTypeOK, MutexMatches, SleepFindsNothing, NobodyLeavesEarly, MasterHolds, ServersHold
<1>3. (NobodySleepsOnWork /\ MasterWaitsForRoom)'
  BY DEF PoolTypeOK, MutexMatches, SleepFindsNothing, NobodySleepsOnWork, MasterWaitsForRoom
<1>4. ThreadsCounted'
  <2>1. Remaining' = Remaining
    BY DEF PoolTypeOK, Remaining
  <2> QED BY <2>1 DEF PoolTypeOK, ThreadsCounted, NobodyLeavesEarly
<1> QED BY <1>1, <1>2, <1>3, <1>4

\* The queue is full.
LEMMA ProduceFullPreserves ==
  ASSUME PoolInv, ProduceFull
  PROVE  PoolInv'
<1> USE PoolAssumption DEF ProduceFull, clients, ring, masterVars, workerVars, PoolInv
<1>1. PoolTypeOK'
  BY DEF PoolTypeOK, Slots
<1>2. (MutexMatches /\ SleepFindsNothing /\ NobodyLeavesEarly /\ MasterHolds /\ ServersHold)'
  BY DEF PoolTypeOK, MutexMatches, SleepFindsNothing, NobodyLeavesEarly, MasterHolds, ServersHold
<1>3. (NobodySleepsOnWork /\ MasterWaitsForRoom)'
  BY DEF PoolTypeOK, MutexMatches, SleepFindsNothing, NobodySleepsOnWork, MasterWaitsForRoom
<1>4. ThreadsCounted'
  <2>1. Remaining' = Remaining
    BY DEF PoolTypeOK, Remaining
  <2> QED BY <2>1 DEF PoolTypeOK, ThreadsCounted, NobodyLeavesEarly
<1> QED BY <1>1, <1>2, <1>3, <1>4

\* A socket is put: one that waits is woken, or nobody waits.
LEMMA ProducePreserves ==
  ASSUME PoolInv, Produce
  PROVE  PoolInv'
<1> USE PoolAssumption DEF Produce, SignalWorker, Goto, clients, ring, masterVars, workerVars, PoolInv
<1>1. PoolTypeOK'
  BY DEF PoolTypeOK, Slots
<1>2. (MutexMatches /\ SleepFindsNothing /\ NobodyLeavesEarly /\ MasterHolds /\ ServersHold)'
  BY DEF PoolTypeOK, MutexMatches, SleepFindsNothing, NobodyLeavesEarly, MasterHolds, ServersHold
<1>3. (NobodySleepsOnWork /\ MasterWaitsForRoom)'
  BY DEF PoolTypeOK, MutexMatches, SleepFindsNothing, NobodySleepsOnWork, MasterWaitsForRoom
<1>4. ThreadsCounted'
  <2>1. Remaining' = Remaining
    BY DEF PoolTypeOK, Remaining
  <2> QED BY <2>1 DEF PoolTypeOK, ThreadsCounted, NobodyLeavesEarly
<1> QED BY <1>1, <1>2, <1>3, <1>4

\* The listening sockets are closed.
LEMMA MasterClosePreserves ==
  ASSUME PoolInv, MasterClose
  PROVE  PoolInv'
<1> USE PoolAssumption DEF MasterClose, clients, ring, masterVars, workerVars, PoolInv
<1>1. PoolTypeOK'
  BY DEF PoolTypeOK, Slots
<1>2. (MutexMatches /\ SleepFindsNothing /\ NobodyLeavesEarly /\ MasterHolds /\ ServersHold)'
  BY DEF PoolTypeOK, MutexMatches, SleepFindsNothing, NobodyLeavesEarly, MasterHolds, ServersHold
<1>3. (NobodySleepsOnWork /\ MasterWaitsForRoom)'
  BY DEF PoolTypeOK, MutexMatches, SleepFindsNothing, NobodySleepsOnWork, MasterWaitsForRoom
<1>4. ThreadsCounted'
  <2>1. Remaining' = Remaining
    BY DEF PoolTypeOK, Remaining
  <2> QED BY <2>1 DEF PoolTypeOK, ThreadsCounted, NobodyLeavesEarly
<1> QED BY <1>1, <1>2, <1>3, <1>4

\* All that wait are woken.
LEMMA MasterBroadcastPreserves ==
  ASSUME PoolInv, MasterBroadcast
  PROVE  PoolInv'
<1> USE PoolAssumption DEF MasterBroadcast, clients, ring, masterVars, workerVars, PoolInv
<1>1. PoolTypeOK'
  BY DEF PoolTypeOK, Slots
<1>2. (MutexMatches /\ SleepFindsNothing /\ NobodyLeavesEarly /\ MasterHolds /\ ServersHold)'
  BY DEF PoolTypeOK, MutexMatches, SleepFindsNothing, NobodyLeavesEarly, MasterHolds, ServersHold
<1>3. (NobodySleepsOnWork /\ MasterWaitsForRoom)'
  BY DEF PoolTypeOK, MutexMatches, SleepFindsNothing, NobodySleepsOnWork, MasterWaitsForRoom
<1>4. ThreadsCounted'
  <2>1. Remaining' = Remaining
    BY DEF PoolTypeOK, Remaining
  <2> QED BY <2>1 DEF PoolTypeOK, ThreadsCounted, NobodyLeavesEarly
<1> QED BY <1>1, <1>2, <1>3, <1>4

\* The master is the last to leave.
LEMMA MasterFinishPreserves ==
  ASSUME PoolInv, MasterFinish
  PROVE  PoolInv'
<1> USE PoolAssumption DEF MasterFinish, clients, ring, masterVars, workerVars, PoolInv
<1>1. PoolTypeOK'
  BY DEF PoolTypeOK, Slots
<1>2. (MutexMatches /\ SleepFindsNothing /\ NobodyLeavesEarly /\ MasterHolds /\ ServersHold)'
  BY DEF PoolTypeOK, MutexMatches, SleepFindsNothing, NobodyLeavesEarly, MasterHolds, ServersHold
<1>3. (NobodySleepsOnWork /\ MasterWaitsForRoom)'
  BY DEF PoolTypeOK, MutexMatches, SleepFindsNothing, NobodySleepsOnWork, MasterWaitsForRoom
<1>4. ThreadsCounted'
  <2>1. Remaining' = Remaining
    BY DEF PoolTypeOK, Remaining
  <2> QED BY <2>1 DEF PoolTypeOK, ThreadsCounted, NobodyLeavesEarly
<1> QED BY <1>1, <1>2, <1>3, <1>4

\* mg_stop is called.
LEMMA StopPreserves ==
  ASSUME PoolInv, Stop
  PROVE  PoolInv'
<1> USE PoolAssumption DEF Stop, clients, ring, masterVars, workerVars, PoolInv
<1>1. PoolTypeOK'
  BY DEF PoolTypeOK, Slots
<1>2. (MutexMatches /\ SleepFindsNothing /\ NobodyLeavesEarly /\ MasterHolds /\ ServersHold)'
  BY DEF PoolTypeOK, MutexMatches, SleepFindsNothing, NobodyLeavesEarly, MasterHolds, ServersHold
<1>3. (NobodySleepsOnWork /\ MasterWaitsForRoom)'
  BY DEF PoolTypeOK, MutexMatches, SleepFindsNothing, NobodySleepsOnWork, MasterWaitsForRoom
<1>4. ThreadsCounted'
  <2>1. Remaining' = Remaining
    BY DEF PoolTypeOK, Remaining
  <2> QED BY <2>1 DEF PoolTypeOK, ThreadsCounted, NobodyLeavesEarly
<1> QED BY <1>1, <1>2, <1>3, <1>4

\* mg_stop returns.
LEMMA StopFreePreserves ==
  ASSUME PoolInv, StopFree
  PROVE  PoolInv'
<1> USE PoolAssumption DEF StopFree, clients, ring, masterVars, workerVars, PoolInv
<1>1. PoolTypeOK'
  BY DEF PoolTypeOK, Slots
<1>2. (MutexMatches /\ SleepFindsNothing /\ NobodyLeavesEarly /\ MasterHolds /\ ServersHold)'
  BY DEF PoolTypeOK, MutexMatches, SleepFindsNothing, NobodyLeavesEarly, MasterHolds, ServersHold
<1>3. (NobodySleepsOnWork /\ MasterWaitsForRoom)'
  BY DEF PoolTypeOK, MutexMatches, SleepFindsNothing, NobodySleepsOnWork, MasterWaitsForRoom
<1>4. ThreadsCounted'
  <2>1. Remaining' = Remaining
    BY DEF PoolTypeOK, Remaining
  <2> QED BY <2>1 DEF PoolTypeOK, ThreadsCounted, NobodyLeavesEarly
<1> QED BY <1>1, <1>2, <1>3, <1>4

\* A thread wakes for no reason.
LEMMA SpuriousWakeupPreserves ==
  ASSUME PoolInv, SpuriousWakeup
  PROVE  PoolInv'
<1> USE PoolAssumption DEF SpuriousWakeup, Goto, clients, ring, masterVars, workerVars, PoolInv
<1>1. PoolTypeOK'
  BY DEF PoolTypeOK, Slots
<1>2. (MutexMatches /\ SleepFindsNothing /\ NobodyLeavesEarly /\ MasterHolds /\ ServersHold)'
  BY DEF PoolTypeOK, MutexMatches, SleepFindsNothing, NobodyLeavesEarly, MasterHolds, ServersHold
<1>3. (NobodySleepsOnWork /\ MasterWaitsForRoom)'
  BY DEF PoolTypeOK, MutexMatches, SleepFindsNothing, NobodySleepsOnWork, MasterWaitsForRoom
<1>4. ThreadsCounted'
  <2>1. Remaining' = Remaining
    BY DEF PoolTypeOK, Remaining
  <2> QED BY <2>1 DEF PoolTypeOK, ThreadsCounted, NobodyLeavesEarly
<1> QED BY <1>1, <1>2, <1>3, <1>4

\* A worker leaves, and is counted out; the count is not below zero for it.
LEMMA WorkerExitPreserves ==
  ASSUME PoolInv, NEW w \in Workers, WorkerExit(w)
  PROVE  PoolInv'
<1> USE PoolAssumption DEF WorkerExit, Goto, clients, ring, masterVars, workerVars, PoolInv
<1>1. Remaining' = Remaining \ {w} /\ w \in Remaining
  BY DEF PoolTypeOK, Remaining
<1>2. Cardinality(Remaining') = Cardinality(Remaining) - 1 /\ Cardinality(Remaining') \in Nat
  <2>1. IsFiniteSet(Remaining \ {w})
    BY RemainingFinite, FS_Subset
  <2> QED BY <1>1, <2>1, RemainingFinite, FS_RemoveElement, FS_CardinalityType
<1>3. ThreadsCounted'
  BY <1>1, <1>2 DEF PoolTypeOK, ThreadsCounted
<1>4. PoolTypeOK'
  BY <1>2 DEF PoolTypeOK, ThreadsCounted, Slots
<1>5. (MutexMatches /\ SleepFindsNothing /\ NobodyLeavesEarly /\ MasterHolds /\ ServersHold)'
  BY DEF PoolTypeOK, MutexMatches, SleepFindsNothing, NobodyLeavesEarly, MasterHolds, ServersHold
<1>6. (NobodySleepsOnWork /\ MasterWaitsForRoom)'
  BY DEF PoolTypeOK, NobodyLeavesEarly, NobodySleepsOnWork, MasterWaitsForRoom
<1> QED BY <1>3, <1>4, <1>5, <1>6

\* The master finds that all have left, or waits on.
LEMMA MasterJoinPreserves ==
  ASSUME PoolInv, MasterJoin
  PROVE  PoolInv'
<1> USE PoolAssumption DEF MasterJoin, clients, ring, masterVars, workerVars, PoolInv
<1>1. PoolTypeOK'
  BY DEF PoolTypeOK
<1>2. (MutexMatches /\ SleepFindsNothing /\ NobodyLeavesEarly /\ MasterHolds /\ ServersHold)'
  BY DEF PoolTypeOK, MutexMatches, SleepFindsNothing, NobodyLeavesEarly, MasterHolds, ServersHold
<1>3. (NobodySleepsOnWork /\ MasterWaitsForRoom)'
  BY DEF PoolTypeOK, NobodySleepsOnWork, MasterWaitsForRoom
<1>4. ThreadsCounted'
  <2>1. Remaining' = Remaining
    BY DEF Remaining
  <2> QED BY <2>1, RemainingFinite DEF ThreadsCounted
<1> QED BY <1>1, <1>2, <1>3, <1>4

-----------------------------------------------------------------------------
\* Every step of the pool preserves the invariant.
LEMMA StepPreserves ==
  ASSUME PoolInv, [PoolNext]_poolVars
  PROVE  PoolInv'
<1>1. CASE \E s \in Sockets : Connect(s)
  BY <1>1, ConnectPreserves
<1>2. CASE \E w \in Workers : WorkerStep(w)
  BY <1>2, WorkerLoopPreserves, ConsumeLockPreserves, ConsumeEmptyPreserves,
     ConsumeSleepPreserves, ConsumeStopPreserves, ConsumeTakePreserves,
     ServeConnectionPreserves, WorkerExitPreserves DEF WorkerStep
<1>3. CASE MasterStep
  BY <1>3, MasterLoopPreserves, SelectTimeoutPreserves, AcceptPreserves,
     ProduceFullPreserves, ProducePreserves, MasterClosePreserves,
     MasterBroadcastPreserves, MasterJoinPreserves, MasterFinishPreserves
  DEF MasterStep
<1>4. CASE Stop \/ StopFree \/ SpuriousWakeup
  BY <1>4, StopPreserves, StopFreePreserves, SpuriousWakeupPreserves
<1>5. CASE UNCHANGED poolVars
  BY <1>5 DEF poolVars, clients, ring, masterVars, workerVars, PoolInv, PoolTypeOK,
     MutexMatches, SleepFindsNothing, NobodyLeavesEarly, NobodySleepsOnWork,
     MasterWaitsForRoom, MasterHolds, ServersHold, ThreadsCounted, Remaining
<1> QED BY <1>1, <1>2, <1>3, <1>4, <1>5 DEF PoolNext

\* The invariant of the pool, and with it the types of its state.
THEOREM PoolInvariant == PoolSpec => []PoolInv
<1>1. PoolInv /\ [PoolNext]_poolVars => PoolInv'
  BY StepPreserves
<1> QED BY <1>1, InitPreserves, PTL DEF PoolSpec

\* No wakeup is lost while the server runs, for any number of workers and any
\* size of the queue: the workers do not all wait while a connection is queued.
THEOREM NoLostWakeup == PoolSpec => []NobodySleepsOnWork
<1>1. PoolInv => NobodySleepsOnWork
  BY DEF PoolInv
<1> QED BY <1>1, PoolInvariant, PTL

\* The master waits for room only while the queue is full.
THEOREM NoNeedlessWait == PoolSpec => []MasterWaitsForRoom
<1>1. PoolInv => MasterWaitsForRoom
  BY DEF PoolInv
<1> QED BY <1>1, PoolInvariant, PTL

\* mg_stop frees the context, and its mutex with it, when every thread is gone.
THEOREM StoppedIsQuiet == PoolSpec => []FreedUnused
<1>1. PoolInv => FreedUnused
  BY DEF PoolInv, ThreadsCounted, FreedUnused, Remaining
<1> QED BY <1>1, PoolInvariant, PTL

-----------------------------------------------------------------------------
\* Where a pointer of the ring, which is less than two turns, points.
LEMMA SlotOf ==
  ASSUME NEW n \in 0 .. 2 * QueueSize - 1
  PROVE  n % QueueSize = IF n < QueueSize THEN n ELSE n - QueueSize
<1>1. QueueSize \in Nat \ {0}
  BY PoolAssumption
<1>2. n % QueueSize \in 0 .. QueueSize - 1 /\ n = QueueSize * (n \div QueueSize) + (n % QueueSize)
  BY <1>1
<1>3. n \div QueueSize \in {0, 1}
  BY <1>1, <1>2
<1> QED BY <1>1, <1>2, <1>3

\* The slot a pointer names is a slot of the ring.
LEMMA SlotInRing ==
  ASSUME NEW n \in Nat
  PROVE  n % QueueSize \in Slots
<1>1. QueueSize \in Nat \ {0}
  BY PoolAssumption
<1>2. n % QueueSize \in 0 .. QueueSize - 1
  BY <1>1
<1> QED BY <1>2 DEF Slots

\* A put appends: the slot it writes is none of those in use.
LEMMA PutAppends ==
  ASSUME PoolInv, Produce
  PROVE  Len(Content) < QueueSize /\ Content' = Append(Content, accepted)
<1> DEFINE n == sqHead - sqTail
<1>1. /\ QueueSize \in Nat \ {0} /\ n \in 0 .. QueueSize - 1
      /\ sqTail \in 0 .. QueueSize /\ sqHead \in 0 .. 2 * QueueSize - 1
      /\ sqHead' = sqHead + 1 /\ sqTail' = sqTail
      /\ queue \in [Slots -> Sockets \union {None}]
      /\ queue' = [queue EXCEPT ![sqHead % QueueSize] = accepted]
  BY PoolAssumption DEF PoolInv, PoolTypeOK, Produce
<1>2. sqHead % QueueSize \in Slots
  <2>1. sqHead \in Nat
    BY <1>1
  <2> QED BY <2>1, SlotInRing
<1>3. ASSUME NEW i \in 1 .. n
      PROVE  queue'[(sqTail + i - 1) % QueueSize] = queue[(sqTail + i - 1) % QueueSize]
  <2> DEFINE at == sqTail + i - 1
  <2>1. /\ at \in 0 .. 2 * QueueSize - 1 /\ at \in Nat
        /\ sqHead - QueueSize < at /\ at < sqHead
    BY <1>1
  <2> HIDE DEF at
  <2>2. at % QueueSize # sqHead % QueueSize
    <3>1. at % QueueSize = IF at < QueueSize THEN at ELSE at - QueueSize
      BY <2>1, SlotOf
    <3>2. sqHead % QueueSize = IF sqHead < QueueSize THEN sqHead ELSE sqHead - QueueSize
      BY <1>1, SlotOf
    <3> QED BY <1>1, <2>1, <3>1, <3>2
  <2>3. at % QueueSize \in Slots
    BY <2>1, SlotInRing
  <2>4. queue'[at % QueueSize] = queue[at % QueueSize]
    BY <1>1, <1>2, <2>2, <2>3
  <2> QED BY <2>4 DEF at
<1>4. queue'[sqHead % QueueSize] = accepted
  BY <1>1, <1>2
<1>5. Content = [i \in 1 .. n |-> queue[(sqTail + i - 1) % QueueSize]]
  BY DEF Content
<1>6. Len(Content) = n
  BY <1>1, <1>5
<1>7. Content' = [i \in 1 .. n + 1 |-> queue'[(sqTail + i - 1) % QueueSize]]
  BY <1>1 DEF Content
<1>8. Append(Content, accepted) = [i \in 1 .. n + 1 |-> IF i <= n THEN Content[i] ELSE accepted]
  BY <1>1, <1>5, <1>6
<1>9. ASSUME NEW i \in 1 .. n + 1
      PROVE  queue'[(sqTail + i - 1) % QueueSize] = IF i <= n THEN Content[i] ELSE accepted
  <2>1. CASE i \in 1 .. n
    BY <1>3, <1>5, <2>1
  <2>2. CASE i = n + 1
    BY <1>1, <1>4, <2>2
  <2> QED BY <1>1, <2>1, <2>2
<1> QED BY <1>1, <1>6, <1>7, <1>8, <1>9

\* A take removes the first; the wrap moves both pointers by a turn.
LEMMA TakeRemoves ==
  ASSUME PoolInv, NEW w \in Workers, ConsumeTake(w)
  PROVE  Content # <<>> /\ Content' = Tail(Content)
<1> DEFINE n == sqHead - sqTail
<1>1. /\ QueueSize \in Nat \ {0} /\ n \in 1 .. QueueSize
      /\ sqTail \in 0 .. QueueSize /\ sqHead \in 0 .. 2 * QueueSize
      /\ sqTail' = Wrap(sqTail + 1) /\ sqHead' = Wrap(sqHead) /\ queue' = queue
      /\ queue \in [Slots -> Sockets \union {None}]
  BY PoolAssumption DEF PoolInv, PoolTypeOK, ConsumeTake
<1>2. sqHead' - sqTail' = n - 1
  BY <1>1 DEF Wrap
<1>3. ASSUME NEW i \in 1 .. n - 1
      PROVE  (sqTail' + i - 1) % QueueSize = (sqTail + i) % QueueSize
  <2>1. sqTail + i \in 0 .. 2 * QueueSize - 1 /\ sqTail' + i - 1 \in 0 .. 2 * QueueSize - 1
    BY <1>1 DEF Wrap
  <2> DEFINE before == sqTail + i
             after == sqTail' + i - 1
  <2>2. after = before \/ (after = before - QueueSize /\ before >= QueueSize)
    BY <1>1 DEF Wrap
  <2>3. before % QueueSize = IF before < QueueSize THEN before ELSE before - QueueSize
    BY <2>1, SlotOf
  <2>4. after % QueueSize = IF after < QueueSize THEN after ELSE after - QueueSize
    BY <2>1, SlotOf
  <2> HIDE DEF before, after
  <2>5. before \in 0 .. 2 * QueueSize - 1 /\ after \in 0 .. 2 * QueueSize - 1
    BY <2>1 DEF before, after
  <2>6. after % QueueSize = before % QueueSize
    BY <1>1, <2>2, <2>3, <2>4, <2>5
  <2> QED BY <2>6 DEF before, after
<1>4. Content = [i \in 1 .. n |-> queue[(sqTail + i - 1) % QueueSize]]
  BY DEF Content
<1>5. Len(Content) = n
  BY <1>1, <1>4
<1>6. Content' = [i \in 1 .. n - 1 |-> queue[(sqTail' + i - 1) % QueueSize]]
  BY <1>1, <1>2 DEF Content
<1>7. Tail(Content) = [i \in 1 .. n - 1 |-> Content[i + 1]]
  <2>1. ASSUME NEW i \in 1 .. n
        PROVE  queue[(sqTail + i - 1) % QueueSize] \in Sockets \union {None}
    <3>1. sqTail + i - 1 \in Nat
      BY <1>1
    <3>2. (sqTail + i - 1) % QueueSize \in Slots
      BY <3>1, SlotInRing
    <3> QED BY <1>1, <3>2
  <2>2. Content \in [1 .. n -> Sockets \union {None}]
    BY <1>4, <2>1
  <2>3. Content \in Seq(Sockets \union {None}) /\ Content # <<>>
    BY <1>1, <1>5, <2>2
  <2>4. /\ Tail(Content) \in Seq(Sockets \union {None})
        /\ Len(Tail(Content)) = n - 1
        /\ \A i \in 1 .. n - 1 : Tail(Content)[i] = Content[i + 1]
    BY <1>5, <2>3, HeadTailProperties
  <2> HIDE DEF n
  <2> QED BY <2>4, LenProperties
<1>8. ASSUME NEW i \in 1 .. n - 1
      PROVE  Content[i + 1] = queue[(sqTail' + i - 1) % QueueSize]
  BY <1>1, <1>3, <1>4
<1>9. Content' = Tail(Content)
  BY <1>6, <1>7, <1>8
<1> QED BY <1>1, <1>5, <1>9

\* The other steps leave the ring alone.
LEMMA RingKept ==
  ASSUME PoolNext, ~Produce, \A w \in Workers : ~ConsumeTake(w)
  PROVE  UNCHANGED ring
BY DEF PoolNext, Connect, WorkerStep, WorkerLoop, ConsumeLock, ConsumeEmpty, ConsumeSleep,
   ConsumeStop, ServeConnection, WorkerExit, MasterStep, MasterLoop, SelectTimeout, Accept,
   ProduceFull, MasterClose, MasterBroadcast, MasterJoin, MasterFinish, Stop, StopFree,
   SpuriousWakeup, ring

\* The ring of the pool implements a bounded queue, first in, first out.
THEOREM RingIsFifo == PoolSpec => ImplementsFifo
<1>1. PoolInit => Fifo!Init
  BY DEF PoolInit, Fifo!Init, Content
<1>2. ASSUME PoolInv, [PoolNext]_poolVars
      PROVE  [Fifo!Next]_Content
  <2>1. CASE Produce
    <3>1. accepted \in Sockets
      BY <1>2, <2>1 DEF PoolInv, PoolTypeOK, MasterHolds, Produce
    <3> QED BY <1>2, <2>1, <3>1, PutAppends DEF Fifo!Next, Fifo!Put
  <2>2. CASE \E w \in Workers : ConsumeTake(w)
    BY <1>2, <2>2, TakeRemoves DEF Fifo!Next, Fifo!Take
  <2>3. CASE UNCHANGED ring
    BY <2>3 DEF ring, Content
  <2>4. CASE UNCHANGED poolVars
    BY <2>4 DEF poolVars, ring, Content
  <2> QED BY <1>2, <2>1, <2>2, <2>3, <2>4, RingKept
<1> QED BY <1>1, <1>2, PoolInvariant, PTL DEF PoolSpec, ImplementsFifo, Fifo!Spec

-----------------------------------------------------------------------------
(* Where the connections are                                               *)

\* Where x is in a sequence.
Hits(q, x) == {i \in DOMAIN q : q[i] = x}

\* They can be counted.
LEMMA HitsFinite ==
  ASSUME NEW S, NEW q \in Seq(S), NEW x
  PROVE  IsFiniteSet(Hits(q, x)) /\ Cardinality(Hits(q, x)) \in Nat
<1>1. IsFiniteSet(1 .. Len(q)) /\ DOMAIN q = 1 .. Len(q)
  BY FS_Interval, LenProperties
<1>2. Hits(q, x) \in SUBSET (1 .. Len(q))
  BY <1>1 DEF Hits
<1> QED BY <1>1, <1>2, FS_Subset, FS_CardinalityType

\* What is appended is one more of its kind.
LEMMA HitsAppend ==
  ASSUME NEW S, NEW q \in Seq(S), NEW y \in S, NEW x
  PROVE  Cardinality(Hits(Append(q, y), x))
           = Cardinality(Hits(q, x)) + (IF y = x THEN 1 ELSE 0)
<1> DEFINE r == Append(q, y)
           n == Len(q)
<1>1. /\ n \in Nat /\ DOMAIN q = 1 .. n /\ DOMAIN r = 1 .. n + 1
      /\ \A i \in 1 .. n : r[i] = q[i]
      /\ r[n + 1] = y
  BY AppendProperties, LenProperties
<1> HIDE DEF r, n
<1>2. Hits(r, x) = IF y = x THEN Hits(q, x) \union {n + 1} ELSE Hits(q, x)
  BY <1>1 DEF Hits
<1>3. n + 1 \notin Hits(q, x)
  BY <1>1 DEF Hits
<1>4. IsFiniteSet(Hits(q, x)) /\ Cardinality(Hits(q, x)) \in Nat
  BY HitsFinite
<1> DEFINE H == Hits(q, x)
<1>5. /\ IsFiniteSet(H) /\ Cardinality(H) \in Nat /\ n + 1 \notin H
      /\ Hits(r, x) = IF y = x THEN H \union {n + 1} ELSE H
  BY <1>2, <1>3, <1>4
<1> HIDE DEF H
<1>6. Cardinality(H \union {n + 1}) = Cardinality(H) + 1
  BY <1>5, FS_AddElement
<1>7. Cardinality(Hits(r, x)) = Cardinality(H) + (IF y = x THEN 1 ELSE 0)
  BY <1>5, <1>6
<1> QED BY <1>7 DEF r, H

\* Moving all the places of a finite set leaves their number.
LEMMA Shifted ==
  ASSUME NEW A, NEW B, IsFiniteSet(A), A \subseteq Int, NEW k \in Int,
         \A i \in A : i + k \in B, \A j \in B : j \in Int /\ j - k \in A
  PROVE  Cardinality(B) = Cardinality(A)
<1> DEFINE f == [i \in A |-> i + k]
<1>1. DOMAIN f = A /\ \A i \in A : f[i] = i + k
  OBVIOUS
<1>2. {f[i] : i \in A} = B
  <2>1. ASSUME NEW j \in B
        PROVE  \E i \in A : f[i] = j
    <3>1. j - k \in A /\ f[j - k] = j
      BY <1>1
    <3> QED BY <3>1
  <2> HIDE DEF f
  <2> QED BY <1>1, <2>1
<1>3. \A i, j \in A : f[i] = f[j] => i = j
  BY <1>1
<1> HIDE DEF f
<1>4. Cardinality({f[i] : i \in DOMAIN f}) = Cardinality(DOMAIN f)
  BY <1>1, <1>3, ImageSize
<1> QED BY <1>1, <1>2, <1>4

\* What is taken off is one less of its kind.
LEMMA HitsTail ==
  ASSUME NEW S, NEW q \in Seq(S), q # <<>>, NEW x
  PROVE  Cardinality(Hits(q, x))
           = Cardinality(Hits(Tail(q), x)) + (IF Head(q) = x THEN 1 ELSE 0)
<1> DEFINE r == Tail(q)
           n == Len(r)
           A == Hits(q, x) \ {1}
<1>1. /\ n \in Nat /\ DOMAIN q = 1 .. n + 1 /\ DOMAIN r = 1 .. n
      /\ \A i \in 1 .. n : r[i] = q[i + 1]
      /\ Head(q) = q[1]
  BY HeadTailProperties, LenProperties
<1>2. IsFiniteSet(Hits(q, x)) /\ Cardinality(Hits(q, x)) \in Nat
  BY HitsFinite
<1>3. r \in Seq(S)
  BY HeadTailProperties
<1>4. Cardinality(Hits(r, x)) = Cardinality(A)
  <2> HIDE DEF r, n
  <2>1. IsFiniteSet(A)
    BY <1>2, FS_RemoveElement
  <2> DEFINE k == -1
             R == Hits(r, x)
  <2>2. A \subseteq Int /\ \A i \in A : i + k \in R
    BY <1>1 DEF Hits
  <2>3. \A j \in R : j \in Int /\ j - k \in A
    BY <1>1 DEF Hits
  <2>4. k \in Int
    OBVIOUS
  <2> HIDE DEF A, k, R
  <2>5. Cardinality(R) = Cardinality(A)
    BY <2>1, <2>2, <2>3, <2>4, Shifted
  <2> QED BY <2>5 DEF R
<1>5. 1 \in Hits(q, x) <=> Head(q) = x
  BY <1>1 DEF Hits
<1>6. Cardinality(A) = IF Head(q) = x THEN Cardinality(Hits(q, x)) - 1
                                      ELSE Cardinality(Hits(q, x))
  BY <1>2, <1>5, FS_RemoveElement
<1> QED BY <1>2, <1>4, <1>6

\* The ring holds what may be put there.
LEMMA ContentType ==
  ASSUME PoolInv
  PROVE  /\ Content \in Seq(Sockets \union {None})
         /\ Len(Content) = sqHead - sqTail /\ DOMAIN Content = 1 .. sqHead - sqTail
         /\ sqHead # sqTail => Content # <<>> /\ Head(Content) = queue[sqTail % QueueSize]
<1> DEFINE n == sqHead - sqTail
<1>1. /\ n \in Nat /\ sqTail \in Nat /\ queue \in [Slots -> Sockets \union {None}]
      /\ QueueSize \in Nat \ {0} /\ (sqHead # sqTail <=> n # 0)
  BY PoolAssumption DEF PoolInv, PoolTypeOK
<1>2. \A i \in 1 .. n : queue[(sqTail + i - 1) % QueueSize] \in Sockets \union {None}
  <2> SUFFICES ASSUME NEW i \in 1 .. n
               PROVE  queue[(sqTail + i - 1) % QueueSize] \in Sockets \union {None}
    OBVIOUS
  <2>1. sqTail + i - 1 \in Nat
    BY <1>1
  <2> QED BY <1>1, <2>1, SlotInRing
<1>3. Content = [i \in 1 .. n |-> queue[(sqTail + i - 1) % QueueSize]]
  BY DEF Content
<1>4. Content \in [1 .. n -> Sockets \union {None}]
  BY <1>2, <1>3
<1>5. Content \in Seq(Sockets \union {None}) /\ Len(Content) = n /\ DOMAIN Content = 1 .. n
  BY <1>1, <1>4
<1>6. ASSUME n # 0
      PROVE  Content # <<>> /\ Head(Content) = queue[sqTail % QueueSize]
  <2>1. Content[1] = queue[(sqTail + 1 - 1) % QueueSize] /\ sqTail + 1 - 1 = sqTail
    BY <1>1, <1>3, <1>6
  <2> QED BY <1>1, <1>5, <1>6, <2>1
<1> QED BY <1>1, <1>5, <1>6

Served(s) == {w \in Workers : conn[w] = s}

\* Places, with the content of the ring for its slots.
Spread(s) ==
  Cardinality(Hits(backlog, s)) + Cardinality(Hits(Content, s))
    + Cardinality(Served(s)) + (IF accepted = s THEN 1 ELSE 0)

SpreadInv == \A s \in Sockets : Spread(s) = IF s \in open THEN 1 ELSE 0

\* What is added up are natural numbers.
LEMMA SpreadType ==
  ASSUME PoolInv, NEW s
  PROVE  /\ Cardinality(Hits(backlog, s)) \in Nat
         /\ Cardinality(Hits(Content, s)) \in Nat
         /\ IsFiniteSet(Served(s)) /\ Cardinality(Served(s)) \in Nat
<1>1. backlog \in Seq(Sockets)
  BY DEF PoolInv, PoolTypeOK
<1>2. Served(s) \in SUBSET Workers /\ IsFiniteSet(Workers)
  BY PoolAssumption DEF Served
<1> QED BY <1>1, <1>2, ContentType, HitsFinite, FS_Subset, FS_CardinalityType

\* The slots in use are the content of the ring.
LEMMA SpreadIsPlaces ==
  ASSUME PoolInv, NEW s \in Sockets
  PROVE  Places(s) = Spread(s)
<1> DEFINE A == Hits(Content, s)
           B == {i \in sqTail .. sqHead - 1 : queue[i % QueueSize] = s}
           k == sqTail - 1
<1>1. sqTail \in Nat /\ sqHead \in Nat
  BY PoolAssumption DEF PoolInv, PoolTypeOK
<1>2. IsFiniteSet(A)
  BY ContentType, HitsFinite
<1>3. /\ DOMAIN Content = 1 .. sqHead - sqTail
      /\ \A i \in 1 .. sqHead - sqTail : Content[i] = queue[(sqTail + i - 1) % QueueSize]
  BY ContentType DEF Content
<1>4. k \in Int /\ A \subseteq Int
  BY <1>1, <1>3 DEF Hits
<1>5. \A i \in A : i + k \in B
  <2> SUFFICES ASSUME NEW i \in A
               PROVE  i + k \in B
    OBVIOUS
  <2>1. i \in 1 .. sqHead - sqTail /\ Content[i] = s /\ i + k = sqTail + i - 1
    BY <1>1, <1>3 DEF Hits
  <2>2. i + k \in sqTail .. sqHead - 1
    BY <1>1, <2>1
  <2> QED BY <1>3, <2>1, <2>2
<1>6. \A j \in B : j \in Int /\ j - k \in A
  <2> SUFFICES ASSUME NEW j \in B
               PROVE  j \in Int /\ j - k \in A
    OBVIOUS
  <2>1. j \in sqTail .. sqHead - 1 /\ queue[j % QueueSize] = s
    OBVIOUS
  <2>2. j - k \in 1 .. sqHead - sqTail /\ sqTail + (j - k) - 1 = j
    BY <1>1, <2>1
  <2> QED BY <1>1, <1>3, <2>1, <2>2 DEF Hits
<1>7. Cardinality(B) = Cardinality(A)
  <2> HIDE DEF A, B, k
  <2> QED BY <1>2, <1>4, <1>5, <1>6, Shifted
<1> QED BY <1>7 DEF Places, Spread, Hits, Served

\* A client connects: its connection was nowhere.
LEMMA ConnectSpread ==
  ASSUME PoolInv, SpreadInv, NEW s \in Sockets, Connect(s)
  PROVE  SpreadInv'
<1> SUFFICES ASSUME NEW t \in Sockets
             PROVE  Spread(t)' = IF t \in open' THEN 1 ELSE 0
  BY DEF SpreadInv
<1>1. /\ Content' = Content /\ Served(t)' = Served(t) /\ accepted' = accepted
      /\ open' = open \union {s} /\ s \notin open
      /\ Hits(backlog, t)' = Hits(Append(backlog, s), t)
  BY DEF Connect, ring, masterVars, workerVars, Content, Served, Hits
<1>2. Cardinality(Hits(Append(backlog, s), t))
        = Cardinality(Hits(backlog, t)) + (IF s = t THEN 1 ELSE 0)
  BY HitsAppend DEF PoolInv, PoolTypeOK
<1>3. Spread(t) = IF t \in open THEN 1 ELSE 0
  BY DEF SpreadInv
<1>4. Hits(Content, t)' = Hits(Content, t)
  BY <1>1 DEF Hits
<1>5. Spread(t)' = Spread(t) + (IF s = t THEN 1 ELSE 0)
  BY <1>1, <1>2, <1>4, SpreadType DEF Spread
<1> QED BY <1>1, <1>3, <1>5

\* The master takes a connection from the kernel: its hands were empty.
LEMMA AcceptSpread ==
  ASSUME PoolInv, SpreadInv, Accept
  PROVE  SpreadInv'
<1> SUFFICES ASSUME NEW t \in Sockets
             PROVE  Spread(t)' = IF t \in open' THEN 1 ELSE 0
  BY DEF SpreadInv
<1>1. /\ Content' = Content /\ Served(t)' = Served(t) /\ open' = open
      /\ accepted' = Head(backlog) /\ accepted # t
      /\ Hits(backlog, t)' = Hits(Tail(backlog), t)
  BY PoolAssumption
  DEF Accept, ring, workerVars, Content, Served, Hits, PoolInv, MasterHolds
<1>2. Cardinality(Hits(backlog, t))
        = Cardinality(Hits(Tail(backlog), t)) + (IF Head(backlog) = t THEN 1 ELSE 0)
  BY HitsTail DEF Accept, PoolInv, PoolTypeOK
<1>3. Cardinality(Hits(Tail(backlog), t)) \in Nat
  <2>1. Tail(backlog) \in Seq(Sockets)
    BY HeadTailProperties DEF Accept, PoolInv, PoolTypeOK
  <2> QED BY <2>1, HitsFinite
<1>4. Hits(Content, t)' = Hits(Content, t)
  BY <1>1 DEF Hits
<1>5. Spread(t)' = Spread(t)
  BY <1>1, <1>2, <1>3, <1>4, SpreadType DEF Spread
<1> QED BY <1>1, <1>5 DEF SpreadInv

\* ... and puts it into the queue.
LEMMA ProduceSpread ==
  ASSUME PoolInv, SpreadInv, Produce
  PROVE  SpreadInv'
<1> SUFFICES ASSUME NEW t \in Sockets
             PROVE  Spread(t)' = IF t \in open' THEN 1 ELSE 0
  BY DEF SpreadInv
<1>1. /\ Served(t)' = Served(t) /\ open' = open /\ accepted' # t
      /\ Hits(backlog, t)' = Hits(backlog, t)
      /\ accepted \in Sockets
  BY PoolAssumption
  DEF Produce, clients, Served, Hits, PoolInv, PoolTypeOK, MasterHolds
<1>2. Hits(Content, t)' = Hits(Append(Content, accepted), t)
  BY PutAppends DEF Hits
<1>3. Cardinality(Hits(Append(Content, accepted), t))
        = Cardinality(Hits(Content, t)) + (IF accepted = t THEN 1 ELSE 0)
  <2>1. accepted \in Sockets \union {None}
    BY <1>1
  <2> QED BY <2>1, ContentType, HitsAppend
<1>4. Spread(t)' = Spread(t)
  BY <1>1, <1>2, <1>3, SpreadType DEF Spread
<1> QED BY <1>1, <1>4 DEF SpreadInv

\* A worker takes one from the queue: it had none.
LEMMA TakeSpread ==
  ASSUME PoolInv, SpreadInv, NEW w \in Workers, ConsumeTake(w)
  PROVE  SpreadInv'
<1> SUFFICES ASSUME NEW t \in Sockets
             PROVE  Spread(t)' = IF t \in open' THEN 1 ELSE 0
  BY DEF SpreadInv
<1>1. /\ open' = open /\ accepted' = accepted /\ Hits(backlog, t)' = Hits(backlog, t)
      /\ sqHead # sqTail
      /\ conn[w] = None /\ conn' = [conn EXCEPT ![w] = queue[sqTail % QueueSize]]
      /\ conn \in [Workers -> Sockets \union {None}]
  BY DEF ConsumeTake, clients, Hits, PoolInv, PoolTypeOK, ServersHold
<1>2. /\ Content \in Seq(Sockets \union {None}) /\ Content # <<>>
      /\ Head(Content) = queue[sqTail % QueueSize]
  BY <1>1, ContentType
<1>3. Hits(Content, t)' = Hits(Tail(Content), t)
  BY TakeRemoves DEF Hits
<1>4. /\ Cardinality(Hits(Content, t))
          = Cardinality(Hits(Tail(Content), t)) + (IF Head(Content) = t THEN 1 ELSE 0)
      /\ Cardinality(Hits(Tail(Content), t)) \in Nat
  <2>1. Tail(Content) \in Seq(Sockets \union {None})
    BY <1>2, HeadTailProperties
  <2> QED BY <1>2, <2>1, HitsTail, HitsFinite
<1>5. Served(t)' = IF Head(Content) = t THEN Served(t) \union {w} ELSE Served(t)
  BY <1>1, <1>2, PoolAssumption DEF Served
<1>6. w \notin Served(t)
  BY <1>1, PoolAssumption DEF Served
<1>7. Cardinality(Served(t)') = Cardinality(Served(t)) + (IF Head(Content) = t THEN 1 ELSE 0)
  <2> DEFINE S == Served(t)
             T == Served(t)'
  <2>1. IsFiniteSet(S) /\ Cardinality(S) \in Nat /\ w \notin S
    BY <1>6, SpreadType
  <2>2. T = IF Head(Content) = t THEN S \union {w} ELSE S
    BY <1>5
  <2> HIDE DEF S, T
  <2>3. Cardinality(S \union {w}) = Cardinality(S) + 1
    BY <2>1, FS_AddElement
  <2>4. Cardinality(T) = Cardinality(S) + (IF Head(Content) = t THEN 1 ELSE 0)
    BY <2>1, <2>2, <2>3
  <2> QED BY <2>4 DEF S, T
<1>8. Spread(t)' = Spread(t)
  BY <1>1, <1>3, <1>4, <1>7, SpreadType DEF Spread
<1> QED BY <1>1, <1>8 DEF SpreadInv

\* A worker closes its connection: nobody else had it.
LEMMA ServeSpread ==
  ASSUME PoolInv, SpreadInv, NEW w \in Workers, ServeConnection(w)
  PROVE  SpreadInv'
<1> SUFFICES ASSUME NEW t \in Sockets
             PROVE  Spread(t)' = IF t \in open' THEN 1 ELSE 0
  BY DEF SpreadInv
<1>1. /\ Content' = Content /\ accepted' = accepted
      /\ Hits(backlog, t)' = Hits(backlog, t) /\ Hits(Content, t)' = Hits(Content, t)
      /\ open' = open \ {conn[w]}
      /\ conn' = [conn EXCEPT ![w] = None] /\ conn \in [Workers -> Sockets \union {None}]
  BY DEF ServeConnection, ring, masterVars, Content, Hits, PoolInv, PoolTypeOK
<1>2. Served(t)' = IF conn[w] = t THEN Served(t) \ {w} ELSE Served(t)
  BY <1>1, PoolAssumption DEF Served
<1>3. conn[w] = t <=> w \in Served(t)
  BY DEF Served
<1>4. Cardinality(Served(t)') = Cardinality(Served(t)) - (IF conn[w] = t THEN 1 ELSE 0)
  <2> DEFINE S == Served(t)
             T == Served(t)'
  <2>1. IsFiniteSet(S) /\ Cardinality(S) \in Nat /\ (conn[w] = t <=> w \in S)
    BY <1>3, SpreadType
  <2>2. T = IF conn[w] = t THEN S \ {w} ELSE S
    BY <1>2
  <2> HIDE DEF S, T
  <2>3. w \in S => Cardinality(S \ {w}) = Cardinality(S) - 1
    BY <2>1, FS_RemoveElement
  <2>4. Cardinality(T) = Cardinality(S) - (IF conn[w] = t THEN 1 ELSE 0)
    BY <2>1, <2>2, <2>3
  <2> QED BY <2>4 DEF S, T
<1>5. conn[w] = t => Cardinality(Served(t)) # 0
  BY <1>3, SpreadType, FS_EmptySet
<1>6. Spread(t)' = Spread(t) - (IF conn[w] = t THEN 1 ELSE 0)
  BY <1>1, <1>4, SpreadType DEF Spread
<1>7. Spread(t) = IF t \in open THEN 1 ELSE 0
  BY DEF SpreadInv
<1>8. conn[w] = t => Spread(t) # 0
  BY <1>5, SpreadType DEF Spread
<1> QED BY <1>1, <1>6, <1>7, <1>8

\* The kernel resets what was not accepted: nobody else had it.
LEMMA CloseSpread ==
  ASSUME PoolInv, SpreadInv, MasterClose
  PROVE  SpreadInv'
<1> SUFFICES ASSUME NEW t \in Sockets
             PROVE  Spread(t)' = IF t \in open' THEN 1 ELSE 0
  BY DEF SpreadInv
<1> DEFINE H == Hits(backlog, t)
<1>1. /\ Content' = Content /\ accepted' = accepted /\ Served(t)' = Served(t)
      /\ Hits(Content, t)' = Hits(Content, t) /\ Hits(backlog, t)' = {}
      /\ t \in open' <=> t \in open /\ H = {}
  BY DEF MasterClose, ring, workerVars, Content, Served, Hits, PoolInv, PoolTypeOK
<1>2. IsFiniteSet(H) /\ Cardinality(H) \in Nat
  BY HitsFinite DEF PoolInv, PoolTypeOK
<1> DEFINE others == Cardinality(Hits(Content, t)) + Cardinality(Served(t))
                       + (IF accepted = t THEN 1 ELSE 0)
<1>3. others \in Nat
  BY SpreadType
<1>4. Spread(t) = Cardinality(H) + others /\ Spread(t)' = others
  <2>1. Cardinality(Hits(backlog, t)') = 0
    BY <1>1, FS_EmptySet
  <2> QED BY <1>1, <1>2, <2>1, SpreadType DEF Spread
<1>5. Spread(t) = IF t \in open THEN 1 ELSE 0
  BY DEF SpreadInv
<1> HIDE DEF H, others
<1>6. Cardinality(H) = 0 <=> H = {}
  BY <1>2, FS_EmptySet
<1> QED BY <1>1, <1>2, <1>3, <1>4, <1>5, <1>6

\* The other steps move no connection.
LEMMA StillSpread ==
  ASSUME SpreadInv, UNCHANGED <<clients, ring, accepted, conn>>
  PROVE  SpreadInv'
BY DEF SpreadInv, Spread, Hits, Content, Served, clients, ring

\* Every step.
LEMMA StepSpread ==
  ASSUME PoolInv, SpreadInv, [PoolNext]_poolVars
  PROVE  SpreadInv'
<1>1. CASE \E s \in Sockets : Connect(s)
  BY <1>1, ConnectSpread
<1>2. CASE \E w \in Workers : ConsumeTake(w) \/ ServeConnection(w)
  BY <1>2, TakeSpread, ServeSpread
<1>3. CASE Accept \/ Produce \/ MasterClose
  BY <1>3, AcceptSpread, ProduceSpread, CloseSpread
<1>4. CASE \/ \E w \in Workers :
                \/ WorkerLoop(w) \/ ConsumeLock(w) \/ ConsumeEmpty(w) \/ ConsumeSleep(w)
                \/ ConsumeStop(w) \/ WorkerExit(w)
           \/ MasterLoop \/ SelectTimeout \/ ProduceFull \/ MasterBroadcast
           \/ MasterJoin \/ MasterFinish \/ Stop \/ StopFree \/ SpuriousWakeup
           \/ UNCHANGED poolVars
  <2>1. UNCHANGED <<clients, ring, accepted, conn>>
    BY <1>4 DEF WorkerLoop, ConsumeLock, ConsumeEmpty, ConsumeSleep, ConsumeStop, WorkerExit,
       MasterLoop, SelectTimeout, ProduceFull, MasterBroadcast, MasterJoin, MasterFinish,
       Stop, StopFree, SpuriousWakeup, poolVars, masterVars, workerVars
  <2> QED BY <2>1, StillSpread
<1> QED BY <1>1, <1>2, <1>3, <1>4 DEF PoolNext, WorkerStep, MasterStep

\* No connection is there yet.
LEMMA InitSpread == PoolInit => SpreadInv
<1> SUFFICES ASSUME PoolInit, NEW s \in Sockets
             PROVE  Spread(s) = 0 /\ s \notin open
  BY DEF SpreadInv
<1>1. Hits(backlog, s) = {} /\ Hits(Content, s) = {} /\ Served(s) = {} /\ accepted # s
  BY PoolAssumption DEF PoolInit, Hits, Content, Served
<1>2. Cardinality(Hits(backlog, s)) = 0 /\ Cardinality(Hits(Content, s)) = 0
      /\ Cardinality(Served(s)) = 0
  BY <1>1, FS_EmptySet
<1> QED BY <1>1, <1>2 DEF Spread, PoolInit

\* A connection that is open is at exactly one place, and one that is closed at
\* none, for any number of workers and sockets and any size of the queue: none
\* is served twice, lost, or closed under the worker that has it.
THEOREM AtOnePlace == PoolSpec => []OnePlace
<1>1. PoolInv /\ SpreadInv /\ [PoolNext]_poolVars => SpreadInv'
  BY StepSpread
<1>2. PoolInv /\ SpreadInv => OnePlace
  BY SpreadIsPlaces DEF SpreadInv, OnePlace
<1> QED BY <1>1, <1>2, InitSpread, PoolInvariant, PTL DEF PoolSpec
=============================================================================
