----------------------- MODULE PervertServerProofs -----------------------
(***************************************************************************)
(* Proofs about PervertServer, for any number of workers, executables,     *)
(* updates, drivers and restarts.                                          *)
(*                                                                         *)
(* IInv of PervertServer is shown to be inductive, one lemma per action    *)
(* and in it one step per conjunct.  The actions that only move one worker *)
(* (LocalMove) share one argument, the deaths of the process another.      *)
(*                                                                         *)
(* It is also shown that PervertServer implements TraceStore: most steps   *)
(* of a worker are silent, they change nothing the store shows; of the     *)
(* others, each is one action of the store.                                *)
(***************************************************************************)
EXTENDS ServerStore, FiniteSetTheorems, TLAPS

\* Moving one worker to another label changes the number of workers at the
\* labels of a set by what the two labels say.
LEMMA CountMove ==
  ASSUME NEW f \in [Workers -> PCs], NEW g, NEW w \in Workers, NEW l, NEW S,
         g = [f EXCEPT ![w] = l]
  PROVE  Cardinality({v \in Workers : g[v] \in S})
           = Cardinality({v \in Workers : f[v] \in S})
               + (IF l \in S THEN 1 ELSE 0) - (IF f[w] \in S THEN 1 ELSE 0)
<1> DEFINE A == {v \in Workers : f[v] \in S}
           B == {v \in Workers : g[v] \in S}
<1>1. IsFiniteSet(A) /\ Cardinality(A) \in Nat
  BY FS_Subset, FS_CardinalityType, FiniteAssumption
<1>2. CASE l \in S
  <2>1. B = A \union {w}
    BY <1>2
  <2>2. w \in A <=> f[w] \in S
    OBVIOUS
  <2> HIDE DEF A, B
  <2>3. Cardinality(B) = IF w \in A THEN Cardinality(A) ELSE Cardinality(A) + 1
    BY <1>1, <2>1, FS_AddElement
  <2> QED BY <1>1, <1>2, <2>2, <2>3 DEF A, B
<1>3. CASE l \notin S
  <2>1. B = A \ {w}
    BY <1>3
  <2>2. w \in A <=> f[w] \in S
    OBVIOUS
  <2> HIDE DEF A, B
  <2>3. Cardinality(B) = IF w \in A THEN Cardinality(A) - 1 ELSE Cardinality(A)
    BY <1>1, <2>1, FS_RemoveElement
  <2> QED BY <1>1, <1>3, <2>2, <2>3 DEF A, B
<1> QED BY <1>2, <1>3

\* At counts a finite set of workers.
LEMMA AtType ==
  ASSUME NEW S
  PROVE  At(S) \in Nat /\ At(S)' \in Nat
BY FS_CardinalityType, FS_Subset, FiniteAssumption DEF At

\* CountMove, for the workers of PervertServer.
LEMMA AtMoves ==
  ASSUME NEW w \in Workers, NEW l, NEW S, TypeOK, Goto(w, l)
  PROVE  At(S)' = At(S) + (IF l \in S THEN 1 ELSE 0)
                        - (IF pc[w] \in S THEN 1 ELSE 0)
<1>1. pc \in [Workers -> PCs] /\ pc' = [pc EXCEPT ![w] = l]
  BY DEF TypeOK, Goto
<1> QED BY <1>1, CountMove DEF At

\* A step between two labels of S, or outside S, leaves At(S) alone.
LEMMA AtStays ==
  ASSUME NEW w \in Workers, NEW l, NEW S, TypeOK, Goto(w, l), pc[w] \in S <=> l \in S
  PROVE  At(S)' = At(S)
BY AtMoves, AtType

\* A step out of S lowers At(S).
LEMMA AtLeaves ==
  ASSUME NEW w \in Workers, NEW l, NEW S, TypeOK, Goto(w, l), pc[w] \in S, l \notin S
  PROVE  At(S)' = At(S) - 1
BY AtMoves, AtType

\* A step into S raises At(S).
LEMMA AtEnters ==
  ASSUME NEW w \in Workers, NEW l, NEW S, TypeOK, Goto(w, l), pc[w] \notin S, l \in S
  PROVE  At(S)' = At(S) + 1
<1>1. At(S)' = At(S) + 1 - 0
  BY AtMoves
<1> QED BY <1>1, AtType

\* Inside a critical section the local dm is an allocated manager, and its
\* mutex is ours.
LEMMA HolderHolds ==
  ASSUME IInv, NEW w \in Workers, pc[w] \in Holding
  PROVE  /\ job[w].mgr \in 1 .. made
         /\ job[w].mgr \in Managers
         /\ theLock[job[w].mgr] = w
<1>1. job[w].mgr \in 1 .. made
  BY DEF IInv, LocalsSet
<1>2. job[w].mgr \in Managers
  BY <1>1, BoundsAssumption DEF IInv, TypeOK, Managers
<1> QED BY <1>1, <1>2 DEF IInv, LockMatchesHolder

\* Worker w goes to label l with locals j; it neither takes nor gives up a
\* lock, nor does it count for anything else than before.
LocalMove(w, l, j) ==
  /\ l \in PCs /\ j \in Jobs
  /\ Goto(w, l) /\ Locals(w, j) /\ gaps' \in SUBSET Traces
  /\ UNCHANGED <<alive, boots, dms, theLock, trace, heap, okay, lastChangeID,
                 started, made, built>>
  /\ pc[w] \notin Holding /\ l \notin Holding
  /\ pc[w] \in Unbuilt <=> l \in Unbuilt
  /\ pc[w] \in Pending <=> l \in Pending
  /\ l \in {"insert", "found", "status", "query"} => j.exec \in Execs
  /\ l \in {"found", "status", "query"} => dms[j.exec] # Null
  /\ l \in {"insert", "lock", "okay", "try", "gettrace"} => j.mgr \in 1 .. made

\* A local move preserves the invariant.
LEMMA LocalStep ==
  ASSUME IInv, NEW w \in Workers, NEW l, NEW j, LocalMove(w, l, j)
  PROVE  IInv'
<1> USE DEF LocalMove, data, Goto, Locals
<1>1. TypeOK'
  BY DEF IInv, TypeOK
<1>2. LocalsSet'
  BY DEF IInv, LocalsSet, TypeOK, Holding, Critical
<1>3. PointersValid'
  BY DEF IInv, PointersValid
<1>4. LockMatchesHolder'
  BY DEF IInv, LockMatchesHolder, TypeOK
<1>5. OldTraceGone'
  BY DEF IInv, OldTraceGone, TypeOK, Holding, Critical
<1>6. DanglingOnlyWhileBuilding'
  BY DEF IInv, DanglingOnlyWhileBuilding, Dangling, TypeOK, Holding, Critical
<1>7. LiveTracesHeld'
  BY DEF IInv, LiveTracesHeld
<1>8. TracesAccounted'
  <2>1. At(Unbuilt)' = At(Unbuilt)
    BY AtStays DEF IInv
  <2> QED BY <2>1 DEF IInv, TracesAccounted
<1>9. ChangesAccounted'
  <2>1. At(Pending)' = At(Pending)
    BY AtStays DEF IInv
  <2> QED BY <2>1 DEF IInv, ChangesAccounted
<1> QED BY <1>1, <1>2, <1>3, <1>4, <1>5, <1>6, <1>7, <1>8, <1>9 DEF IInv

\* Setting one local keeps the record of locals well typed.
LEMMA JobTypes ==
  ASSUME NEW j \in Jobs
  PROVE  /\ \A e \in Execs : [j EXCEPT !.exec = e] \in Jobs
         /\ \A d \in 0 .. MaxUpdates : [j EXCEPT !.mgr = d] \in Jobs
         /\ \A t \in 0 .. MaxUpdates : [j EXCEPT !.tr = t] \in Jobs
         /\ \A x \in Texts : [j EXCEPT !.text = x] \in Jobs
         /\ \A n \in Nat : [j EXCEPT !.num = n] \in Jobs
         /\ \A s \in SUBSET Execs : [j EXCEPT !.listed = s] \in Jobs
BY DEF Jobs

\* An idle worker's locals are well typed.
LEMMA NoJobType == NoJob \in Jobs
BY BoundsAssumption DEF NoJob, Jobs, Texts, Null

-----------------------------------------------------------------------------
(* Steps that only move one worker                                         *)

\* dm = _dms[exec] finds the manager that the first lookup saw.
LEMMA ManagerStep ==
  ASSUME IInv, NEW w \in Workers,
         NEW from \in {"found", "status", "query"},
         NEW to \in {"lock", "try", "gettrace"},
         from = "found" <=> to = "lock", Manager(w, from, to)
  PROVE  IInv'
<1> DEFINE d == dms[job[w].exec]
           j == [job[w] EXCEPT !.mgr = d, !.exec = None]
<1>1. pc[w] = from /\ job[w] \in Jobs /\ gaps \in SUBSET Traces
  BY DEF IInv, TypeOK, Manager
<1>2. d \in 1 .. made /\ d \in 0 .. MaxUpdates
  <2>1. job[w].exec \in Execs /\ d # Null
    BY <1>1 DEF IInv, LocalsSet
  <2> QED BY <2>1, BoundsAssumption DEF IInv, TypeOK, PointersValid, Null
<1>3. j \in Jobs /\ j.mgr = d
  BY <1>1, <1>2 DEF Jobs
<1>4. Locals(w, j)
  BY <1>1 DEF Manager, Locals, IInv, TypeOK, Jobs
<1> HIDE DEF j, d
<1>5. LocalMove(w, to, j)
  BY <1>1, <1>2, <1>3, <1>4
  DEF Manager, data, LocalMove, Goto, PCs, Holding, Critical, Unbuilt, Pending
<1> QED BY <1>5, LocalStep

\* Reading okay() after the unlock.
LEMMA UpdateOkayStep ==
  ASSUME IInv, NEW w \in Workers, UpdateOkay(w)
  PROVE  IInv'
<1>1. PICK x \in {"okay", "failed"} : job' = [job EXCEPT ![w].text = x]
  BY DEF UpdateOkay
<1>2. job[w] \in Jobs /\ [job[w] EXCEPT !.text = x] \in Jobs
  BY JobTypes DEF IInv, TypeOK, Texts
<1>3. LocalMove(w, "log", [job[w] EXCEPT !.text = x])
  BY <1>1, <1>2 DEF UpdateOkay, data, LocalMove, Goto, Locals, PCs, Holding,
     Critical, Unbuilt, Pending, IInv, TypeOK
<1> QED BY <1>3, LocalStep

\* A reply needs nothing but a worker that is past everything it counts for.
LEMMA ReplyStep ==
  ASSUME IInv, NEW w \in Workers, NEW code \in Answered, NEW x \in Texts, NEW n \in Nat,
         Reply(w, code, x, n), gaps' \in SUBSET Traces,
         UNCHANGED <<alive, boots, dms, theLock, trace, heap, okay,
                     lastChangeID, started, made, built>>,
         pc[w] \notin Pending \union Holding
  PROVE  IInv'
<1> DEFINE j == [NoJob EXCEPT !.text = x, !.num = n]
<1>1. j \in Jobs
  BY NoJobType DEF Jobs
<1> HIDE DEF j
<1>2. Locals(w, j) /\ Goto(w, code)
  BY DEF Reply, j
<1>3. LocalMove(w, code, j)
  BY <1>1, <1>2 DEF LocalMove, PCs, Answered, Holding, Critical, Unbuilt, Pending
<1> QED BY <1>3, LocalStep

\* Answering an update.
LEMMA UpdateAnswerStep ==
  ASSUME IInv, NEW w \in Workers, UpdateAnswer(w)
  PROVE  IInv'
<1>1. PICK code \in Answered : Reply(w, code, "none", 0)
  BY DEF UpdateAnswer, Answered
<1>2. pc[w] \notin Pending \union Holding /\ gaps' \in SUBSET Traces
  BY DEF UpdateAnswer, Pending, Holding, Critical, data, IInv, TypeOK
<1> QED BY <1>1, <1>2, ReplyStep DEF UpdateAnswer, data, Texts

\* /f/status looks its executable up.
LEMMA StatusFindStep ==
  ASSUME IInv, NEW w \in Workers, NEW e \in Execs, StatusFind(w, e)
  PROVE  IInv'
<1>0. job[w] \in Jobs /\ gaps' \in SUBSET Traces
  BY DEF IInv, TypeOK, StatusFind, data
<1>1. CASE Locals(w, [NoJob EXCEPT !.text = "unknown"]) /\ Goto(w, "poll")
  <2>1. [NoJob EXCEPT !.text = "unknown"] \in Jobs
    BY NoJobType, JobTypes DEF Texts
  <2>2. LocalMove(w, "poll", [NoJob EXCEPT !.text = "unknown"])
    BY <1>0, <1>1, <2>1
    DEF StatusFind, data, LocalMove, PCs, Holding, Critical, Unbuilt, Pending
  <2> QED BY <2>2, LocalStep
<1>2. CASE /\ Present(w, e) /\ job' = [job EXCEPT ![w].exec = e]
           /\ Goto(w, "status")
  <2>1. [job[w] EXCEPT !.exec = e] \in Jobs
    BY <1>0, JobTypes
  <2>2. LocalMove(w, "status", [job[w] EXCEPT !.exec = e])
    BY <1>0, <1>2, <2>1 DEF StatusFind, data, LocalMove, PCs, Holding, Critical,
       Unbuilt, Pending, Locals, Present, Jobs
  <2> QED BY <2>2, LocalStep
<1> QED BY <1>1, <1>2 DEF StatusFind

\* /f/status writes its answer.
LEMMA StatusPollStep ==
  ASSUME IInv, NEW w \in Workers, StatusPoll(w)
  PROVE  IInv'
<1>1. Reply(w, "ok", job[w].text, lastChangeID) /\ "ok" \in Answered
  BY DEF StatusPoll, Answered
<1>2. /\ job[w].text \in Texts /\ lastChangeID \in Nat /\ gaps' \in SUBSET Traces
      /\ pc[w] \notin Pending \union Holding
  BY BoundsAssumption
  DEF StatusPoll, Pending, Holding, Critical, data, IInv, TypeOK, Jobs
<1> QED BY <1>1, <1>2, ReplyStep DEF StatusPoll, data

\* A query looks its executable up.
LEMMA QueryFindStep ==
  ASSUME IInv, NEW w \in Workers, NEW e \in Execs, NEW k \in Queries, QueryFind(w, e, k)
  PROVE  IInv'
<1>0. gaps' \in SUBSET Traces /\ pc[w] = "idle" /\ k \in Texts
  BY DEF IInv, TypeOK, QueryFind, data, Texts
<1>1. CASE Reply(w, "fail", "none", 0)
  BY <1>0, <1>1, ReplyStep
  DEF QueryFind, data, Answered, Texts, Pending, Holding, Critical
<1>2. CASE /\ Present(w, e) /\ Locals(w, [NoJob EXCEPT !.exec = e, !.text = k])
           /\ Goto(w, "query")
  <2>1. [NoJob EXCEPT !.exec = e, !.text = k] \in Jobs
    BY <1>0, NoJobType DEF Jobs
  <2>2. [NoJob EXCEPT !.exec = e, !.text = k].exec = e
    BY DEF NoJob
  <2>3. LocalMove(w, "query", [NoJob EXCEPT !.exec = e, !.text = k])
    BY <1>0, <1>2, <2>1, <2>2 DEF QueryFind, data, LocalMove, PCs, Holding, Critical,
       Unbuilt, Pending, Present
  <2> QED BY <2>3, LocalStep
<1> QED BY <1>1, <1>2 DEF QueryFind

\* getTrace().
LEMMA QueryTraceStep ==
  ASSUME IInv, NEW w \in Workers, QueryTrace(w)
  PROVE  IInv'
<1> DEFINE t == trace[job[w].mgr]
           j == [NoJob EXCEPT !.text = job[w].text, !.tr = t]
<1>1. job[w].mgr \in 1 .. made
  BY DEF IInv, LocalsSet, QueryTrace
<1>2. t \in 0 .. MaxUpdates /\ job[w].text \in Texts /\ gaps' \in SUBSET Traces
  BY <1>1, BoundsAssumption DEF IInv, TypeOK, Managers, Jobs, QueryTrace, data
<1>3. j \in Jobs
  BY <1>2, NoJobType DEF Jobs
<1>4. Locals(w, j)
  BY DEF QueryTrace
<1> HIDE DEF j
<1>5. LocalMove(w, "read", j)
  BY <1>2, <1>3, <1>4 DEF QueryTrace, data, LocalMove, PCs, Reading, Holding,
     Critical, Unbuilt, Pending
<1> QED BY <1>5, LocalStep

\* The answers of a query.
LEMMA QueryEndStep ==
  ASSUME IInv, NEW w \in Workers, QueryRefuse(w) \/ QueryAnswer(w)
  PROVE  IInv'
<1>1. /\ job[w].text \in Texts /\ job[w].tr \in Nat /\ gaps' \in SUBSET Traces
      /\ pc[w] \notin Pending \union Holding
  BY BoundsAssumption DEF QueryRefuse, QueryAnswer, Pending, Holding, Critical,
     data, IInv, TypeOK, Jobs
<1>2. CASE QueryRefuse(w)
  BY <1>1, <1>2, ReplyStep DEF QueryRefuse, data, Answered, Texts
<1>3. CASE QueryAnswer(w)
  BY <1>1, <1>3, ReplyStep DEF QueryAnswer, Answered
<1> QED BY <1>2, <1>3

\* /pp/list.
LEMMA ListStep ==
  ASSUME IInv, NEW w \in Workers, ListIterate(w) \/ ListSize(w)
  PROVE  IInv'
<1>0. job[w] \in Jobs /\ gaps \in SUBSET Traces
  BY DEF IInv, TypeOK
<1>1. CASE ListIterate(w)
  <2>1. PICK seen \in SUBSET Execs :
          job' = [job EXCEPT ![w].text = "list", ![w].listed = seen]
    BY <1>1 DEF ListIterate, Listed
  <2> DEFINE j == [job[w] EXCEPT !.text = "list", !.listed = seen]
  <2>2. j \in Jobs
    BY <1>0 DEF Jobs, Texts
  <2>3. Locals(w, j)
    BY <1>0, <2>1 DEF Locals, IInv, TypeOK
  <2> HIDE DEF j
  <2>4. LocalMove(w, "size", j)
    BY <1>0, <1>1, <2>2, <2>3
    DEF ListIterate, data, LocalMove, PCs, Holding, Critical, Unbuilt, Pending
  <2> QED BY <2>4, LocalStep
<1>2. CASE ListSize(w)
  <2> DEFINE j == [job[w] EXCEPT !.num = Cardinality(Listed)]
  <2>1. Cardinality(Listed) \in Nat
    BY FS_CardinalityType, FS_Subset, FiniteAssumption DEF Listed
  <2>2. j \in Jobs
    BY <1>0, <2>1, JobTypes
  <2>3. Locals(w, j)
    BY <1>0, <1>2 DEF ListSize, Locals, IInv, TypeOK
  <2> HIDE DEF j
  <2>4. LocalMove(w, "ok", j)
    BY <1>0, <1>2, <2>2, <2>3 DEF ListSize, data, LocalMove, PCs, Answered, Holding,
       Critical, Unbuilt, Pending
  <2> QED BY <2>4, LocalStep
<1> QED BY <1>1, <1>2

\* /ping, malformed requests, and the end of a connection.
LEMMA TrivialCloseStep ==
  ASSUME IInv, NEW w \in Workers, Trivial(w) \/ Close(w)
  PROVE  IInv'
<1>0. job \in [Workers -> Jobs] /\ job[w] \in Jobs /\ gaps \in SUBSET Traces
  BY DEF IInv, TypeOK
<1>1. CASE Trivial(w)
  <2>1. PICK code \in Answered : Goto(w, code)
    BY <1>1 DEF Trivial
  <2>2. LocalMove(w, code, job[w])
    BY <1>0, <1>1, <2>1 DEF Trivial, data, LocalMove, Locals, PCs, Answered, Holding,
       Critical, Unbuilt, Pending
  <2> QED BY <2>2, LocalStep
<1>2. CASE Close(w)
  <2>1. LocalMove(w, "idle", NoJob)
    BY <1>0, <1>2, NoJobType DEF Close, data, LocalMove, Locals, PCs, Answered, Holding,
       Critical, Unbuilt, Pending
  <2> QED BY <2>1, LocalStep
<1> QED BY <1>1, <1>2

-----------------------------------------------------------------------------
(* Steps that change what the workers share                                *)

\* /pp/update is accepted: one more update started, and one more pending.
LEMMA UpdateFindStep ==
  ASSUME IInv, NEW w \in Workers, NEW e \in Execs, UpdateFind(w, e)
  PROVE  IInv'
<1> USE BoundsAssumption DEF Null
<1>0. /\ pc[w] = "idle" /\ job[w] \in Jobs /\ started' = started + 1
      /\ started' \in 0 .. MaxUpdates /\ made \in 0 .. MaxUpdates
      /\ UNCHANGED <<alive, boots, dms, theLock, trace, heap, okay, gaps,
                     lastChangeID, built>>
  BY DEF UpdateFind, IInv, TypeOK
<1>a. PICK l \in {"insert", "found"}, j \in Jobs :
        /\ Goto(w, l) /\ Locals(w, j) /\ j.exec = e
        /\ \/ l = "insert" /\ made' = made + 1 /\ j.mgr = made'
           \/ l = "found" /\ made' = made /\ dms[e] # Null
  <2>1. CASE made' = made + 1 /\ Goto(w, "insert")
             /\ job' = [job EXCEPT ![w].exec = e, ![w].mgr = made']
    <3> DEFINE j == [job[w] EXCEPT !.exec = e, !.mgr = made']
    <3>1. made' \in 0 .. MaxUpdates
      BY <1>0, <2>1 DEF IInv, TypeOK
    <3>2. j \in Jobs /\ j.exec = e /\ j.mgr = made'
      BY <1>0, <3>1 DEF Jobs
    <3>3. Locals(w, j)
      BY <1>0, <2>1 DEF Locals, IInv, TypeOK
    <3> QED BY <2>1, <3>2, <3>3
  <2>2. CASE Present(w, e) /\ made' = made /\ Goto(w, "found")
             /\ job' = [job EXCEPT ![w].exec = e]
    <3> DEFINE j == [job[w] EXCEPT !.exec = e]
    <3>1. j \in Jobs /\ j.exec = e
      BY <1>0 DEF Jobs
    <3>2. Locals(w, j)
      BY <1>0, <2>2 DEF Locals, IInv, TypeOK
    <3> QED BY <2>2, <3>1, <3>2 DEF Present
  <2> QED BY <2>1, <2>2 DEF UpdateFind
<1>1. TypeOK'
  BY <1>0, <1>a DEF Goto, Locals, IInv, TypeOK, PCs, Pending
<1>2. LocalsSet'
  BY <1>0, <1>a DEF Goto, Locals, IInv, TypeOK, LocalsSet, Holding, Critical
<1>3. PointersValid'
  BY <1>0, <1>a DEF IInv, TypeOK, PointersValid
<1>4. LockMatchesHolder'
  BY <1>0, <1>a DEF Goto, Locals, IInv, TypeOK, LockMatchesHolder, Holding, Critical
<1>5. OldTraceGone'
  BY <1>0, <1>a DEF Goto, Locals, IInv, TypeOK, OldTraceGone
<1>6. DanglingOnlyWhileBuilding'
  BY <1>0, <1>a DEF Goto, Locals, IInv, TypeOK, DanglingOnlyWhileBuilding, Dangling
<1>7. LiveTracesHeld'
  BY <1>0 DEF IInv, LiveTracesHeld
<1>8. TracesAccounted'
  <2>1. At(Unbuilt)' = At(Unbuilt) + 1
    BY <1>0, <1>a, AtEnters DEF Unbuilt, IInv
  <2> QED BY <1>0, <2>1, AtType DEF IInv, TypeOK, TracesAccounted
<1>9. ChangesAccounted'
  <2>1. At(Pending)' = At(Pending) + 1
    BY <1>0, <1>a, AtEnters DEF Pending, Critical, IInv
  <2> QED BY <1>0, <2>1, AtType DEF IInv, TypeOK, ChangesAccounted
<1> QED BY <1>1, <1>2, <1>3, <1>4, <1>5, <1>6, <1>7, <1>8, <1>9 DEF IInv

\* _dms[exec] = dm points to a manager that was allocated.
LEMMA UpdateInsertStep ==
  ASSUME IInv, NEW w \in Workers, UpdateInsert(w)
  PROVE  IInv'
<1> USE BoundsAssumption DEF Null
<1>0. job[w].exec \in Execs /\ job[w].mgr \in 1 .. made /\ made \in 0 .. MaxUpdates
  BY DEF UpdateInsert, IInv, TypeOK, LocalsSet
<1>1. TypeOK'
  BY <1>0 DEF UpdateInsert, Goto, IInv, TypeOK, PCs, Pending
<1>2. LocalsSet'
  BY <1>0 DEF UpdateInsert, Goto, IInv, TypeOK, LocalsSet, Holding, Critical
<1>3. PointersValid'
  BY <1>0 DEF UpdateInsert, IInv, TypeOK, PointersValid
<1>4. LockMatchesHolder'
  BY DEF UpdateInsert, Goto, IInv, TypeOK, LockMatchesHolder, Holding, Critical
<1>5. OldTraceGone'
  BY DEF UpdateInsert, Goto, IInv, TypeOK, OldTraceGone
<1>6. DanglingOnlyWhileBuilding'
  BY DEF UpdateInsert, Goto, IInv, TypeOK, DanglingOnlyWhileBuilding, Dangling
<1>7. LiveTracesHeld'
  BY DEF UpdateInsert, IInv, LiveTracesHeld
<1>8. TracesAccounted'
  <2>1. At(Unbuilt)' = At(Unbuilt)
    BY AtStays DEF UpdateInsert, Unbuilt, IInv
  <2> QED BY <2>1 DEF UpdateInsert, IInv, TracesAccounted
<1>9. ChangesAccounted'
  <2>1. At(Pending)' = At(Pending)
    BY AtStays DEF UpdateInsert, Pending, Critical, IInv
  <2> QED BY <2>1 DEF UpdateInsert, IInv, ChangesAccounted
<1> QED BY <1>1, <1>2, <1>3, <1>4, <1>5, <1>6, <1>7, <1>8, <1>9 DEF IInv

\* lock() of update(): it was free, so no worker was inside.
LEMMA UpdateLockStep ==
  ASSUME IInv, NEW w \in Workers, UpdateLock(w)
  PROVE  IInv'
<1> USE BoundsAssumption, NoneAssumption DEF Null
<1>0. job[w].mgr \in 1 .. made /\ job[w].mgr \in Managers
  BY DEF UpdateLock, IInv, TypeOK, LocalsSet, Managers
<1>1. TypeOK'
  BY <1>0 DEF UpdateLock, Goto, IInv, TypeOK, PCs, Holding, Critical
<1>2. LocalsSet'
  BY <1>0 DEF UpdateLock, Goto, IInv, TypeOK, LocalsSet
<1>3. PointersValid'
  BY DEF UpdateLock, IInv, PointersValid
<1>4. LockMatchesHolder'
  BY <1>0 DEF UpdateLock, Goto, IInv, TypeOK, LockMatchesHolder, Holding, Critical
<1>5. OldTraceGone'
  BY DEF UpdateLock, Goto, IInv, TypeOK, OldTraceGone
<1>6. DanglingOnlyWhileBuilding'
  BY DEF UpdateLock, Goto, IInv, TypeOK, DanglingOnlyWhileBuilding, Dangling
<1>7. LiveTracesHeld'
  BY DEF UpdateLock, IInv, LiveTracesHeld
<1>8. TracesAccounted'
  <2>1. At(Unbuilt)' = At(Unbuilt)
    BY AtStays DEF UpdateLock, Unbuilt, IInv
  <2> QED BY <2>1, AtType DEF UpdateLock, IInv, TypeOK, TracesAccounted
<1>9. ChangesAccounted'
  <2>1. At(Pending)' = At(Pending)
    BY AtStays DEF UpdateLock, Pending, Critical, IInv
  <2> QED BY <2>1, AtType DEF UpdateLock, IInv, TypeOK, ChangesAccounted
<1> QED BY <1>1, <1>2, <1>3, <1>4, <1>5, <1>6, <1>7, <1>8, <1>9 DEF IInv

\* delete _trace: from here to the assignment the pointer dangles, and this
\* worker is the one that accounts for it.
LEMMA UpdateDeleteStep ==
  ASSUME IInv, NEW w \in Workers, UpdateDelete(w)
  PROVE  IInv'
<1> USE BoundsAssumption DEF Null
<1> DEFINE d == job[w].mgr
<1>0. d \in Managers /\ theLock[d] = w /\ trace[d] \in 0 .. MaxUpdates
  BY HolderHolds DEF UpdateDelete, Holding, Critical, IInv, TypeOK
<1>a. trace[d] # 0 => heap[trace[d]] # "unborn"
  BY <1>0 DEF IInv, TypeOK, PointersValid, Traces
<1>1. TypeOK'
  BY <1>0 DEF UpdateDelete, Goto, IInv, TypeOK, PCs, Holding, Critical
<1>2. LocalsSet'
  BY DEF UpdateDelete, Goto, IInv, TypeOK, LocalsSet, Holding, Critical
<1>3. PointersValid'
  BY <1>0, <1>a DEF UpdateDelete, IInv, TypeOK, PointersValid
<1>4. LockMatchesHolder'
  BY DEF UpdateDelete, Goto, IInv, TypeOK, LockMatchesHolder, Holding, Critical
<1>5. OldTraceGone'
  BY <1>0 DEF UpdateDelete, Goto, IInv, TypeOK, OldTraceGone, Traces
<1>6. DanglingOnlyWhileBuilding'
  BY <1>0 DEF UpdateDelete, Goto, IInv, TypeOK, DanglingOnlyWhileBuilding, Dangling,
     PointersValid, Traces
<1>7. LiveTracesHeld'
  BY <1>0 DEF UpdateDelete, IInv, TypeOK, LiveTracesHeld
<1>8. TracesAccounted'
  <2>1. At(Unbuilt)' = At(Unbuilt)
    BY AtStays DEF UpdateDelete, Unbuilt, IInv
  <2> QED BY <2>1, AtType DEF UpdateDelete, IInv, TypeOK, TracesAccounted
<1>9. ChangesAccounted'
  <2>1. At(Pending)' = At(Pending)
    BY AtStays DEF UpdateDelete, Pending, Critical, IInv
  <2> QED BY <2>1, AtType DEF UpdateDelete, IInv, TypeOK, ChangesAccounted
<1> QED BY <1>1, <1>2, <1>3, <1>4, <1>5, <1>6, <1>7, <1>8, <1>9 DEF IInv

\* _trace = new Trace: the old one is gone, the new one is nobody else's.
LEMMA UpdateBuildStep ==
  ASSUME IInv, NEW w \in Workers, UpdateBuild(w)
  PROVE  IInv'
<1> USE BoundsAssumption DEF Null
<1> DEFINE d == job[w].mgr
           t == built + 1
<1>0. d \in 1 .. made /\ d \in Managers /\ theLock[d] = w
  BY HolderHolds DEF UpdateBuild, Holding, Critical
<1>a. At(Unbuilt)' = At(Unbuilt) - 1
  BY AtLeaves DEF UpdateBuild, Unbuilt, IInv
<1>b. t \in Traces /\ t <= started /\ built \in Nat /\ t \in 0 .. MaxUpdates
  BY <1>a, AtType DEF IInv, TypeOK, TracesAccounted, Traces
<1>c. \A c \in Managers : trace[c] \in 0 .. built
  BY DEF IInv, TypeOK, PointersValid
<1>1. TypeOK'
  <2>1. [job[w] EXCEPT !.tr = t] \in Jobs
    BY <1>b, JobTypes DEF IInv, TypeOK
  <2>2. job' \in [Workers -> Jobs]
    BY <2>1 DEF UpdateBuild, IInv, TypeOK
  <2>3. gaps' \in SUBSET Traces /\ okay' \in SUBSET Traces
    BY <1>b DEF UpdateBuild, IInv, TypeOK
  <2>4. built' \in 0 .. started'
    BY <1>b DEF UpdateBuild, IInv, TypeOK
  <2>5. pc' \in [Workers -> PCs]
    BY DEF UpdateBuild, Goto, IInv, TypeOK, PCs, Holding, Critical
  <2>6. heap' \in [Traces -> {"unborn", "live", "freed"}]
        /\ trace' \in [Managers -> 0 .. MaxUpdates]
    BY <1>0, <1>b DEF UpdateBuild, IInv, TypeOK
  <2> QED BY <2>2, <2>3, <2>4, <2>5, <2>6 DEF UpdateBuild, IInv, TypeOK
<1>2. LocalsSet'
  BY <1>0 DEF UpdateBuild, Goto, IInv, TypeOK, LocalsSet, Jobs
<1>3. PointersValid'
  <2>1. \A e \in Execs : dms'[e] <= made'
    BY DEF UpdateBuild, IInv, PointersValid
  <2>2. \A u \in Traces : heap'[u] = "unborn" <=> u > built'
    BY <1>b DEF UpdateBuild, IInv, TypeOK, PointersValid, Traces
  <2>3. \A c \in Managers : trace'[c] = IF c = d THEN t ELSE trace[c]
    BY DEF UpdateBuild, IInv, TypeOK
  <2>4. \A c \in Managers : trace'[c] <= built'
    BY <1>b, <1>c, <2>3 DEF UpdateBuild
  <2>5. \A b, c \in Managers : trace'[b] = trace'[c] /\ trace'[b] # Null => b = c
    BY <1>b, <1>c, <2>3 DEF IInv, PointersValid
  <2> QED BY <2>1, <2>2, <2>4, <2>5 DEF PointersValid
<1>4. LockMatchesHolder'
  BY DEF UpdateBuild, Goto, IInv, TypeOK, LockMatchesHolder, Holding, Critical, Jobs
<1>5. OldTraceGone'
  <2> SUFFICES ASSUME NEW v \in Workers, pc'[v] = "build"
               PROVE  \/ trace'[job'[v].mgr] = Null
                      \/ heap'[trace'[job'[v].mgr]] = "freed"
    BY DEF OldTraceGone
  <2>1. v # w /\ pc[v] = "build" /\ job'[v] = job[v]
    BY DEF UpdateBuild, Goto, IInv, TypeOK
  <2>2. job[v].mgr \in Managers /\ job[v].mgr # d
    BY <1>0, <2>1, HolderHolds DEF Holding, Critical
  <2>3. trace'[job[v].mgr] = trace[job[v].mgr] /\ trace[job[v].mgr] # t
    BY <1>b, <1>c, <2>2 DEF UpdateBuild, IInv, TypeOK
  <2> QED BY <2>1, <2>3 DEF UpdateBuild, IInv, TypeOK, OldTraceGone
<1>6. DanglingOnlyWhileBuilding'
  <2> SUFFICES ASSUME NEW c \in Managers, Dangling(trace[c])'
               PROVE  \E v \in Workers : pc'[v] = "build" /\ job'[v].mgr = c
    BY DEF DanglingOnlyWhileBuilding
  <2>1. c # d /\ trace'[c] = trace[c] /\ trace[c] # t
    BY <1>0, <1>b, <1>c DEF UpdateBuild, IInv, TypeOK, Dangling
  <2>2. Dangling(trace[c])
    BY <1>b, <2>1 DEF UpdateBuild, IInv, TypeOK, Dangling
  <2>3. PICK v \in Workers : pc[v] = "build" /\ job[v].mgr = c
    BY <2>2 DEF IInv, DanglingOnlyWhileBuilding
  <2> QED BY <2>1, <2>3 DEF UpdateBuild, Goto, IInv, TypeOK
<1>7. LiveTracesHeld'
  <2> SUFFICES ASSUME NEW u \in Traces, heap'[u] = "live"
               PROVE  \E c \in Managers : trace'[c] = u
    BY DEF LiveTracesHeld
  <2>1. CASE u = t
    BY <1>0, <2>1 DEF UpdateBuild, IInv, TypeOK
  <2>2. CASE u # t
    <3>1. heap[u] = "live" /\ u # 0
      BY <1>b, <2>2 DEF UpdateBuild, IInv, TypeOK, Traces
    <3>2. PICK c \in Managers : trace[c] = u
      BY <3>1 DEF IInv, LiveTracesHeld
    <3>3. trace[d] = Null \/ heap[trace[d]] = "freed"
      BY DEF UpdateBuild, IInv, OldTraceGone
    <3>4. c # d
      BY <3>1, <3>2, <3>3
    <3> QED BY <3>2, <3>4 DEF UpdateBuild, IInv, TypeOK
  <2> QED BY <2>1, <2>2
<1>8. TracesAccounted'
  BY <1>a, <1>b, AtType DEF UpdateBuild, IInv, TypeOK, TracesAccounted
<1>9. ChangesAccounted'
  <2>1. At(Pending)' = At(Pending)
    BY AtStays DEF UpdateBuild, Pending, Critical, IInv
  <2> QED BY <2>1 DEF UpdateBuild, IInv, ChangesAccounted
<1> QED BY <1>1, <1>2, <1>3, <1>4, <1>5, <1>6, <1>7, <1>8, <1>9 DEF IInv

\* unlock() of update(): the pointer is good again.
LEMMA UpdateUnlockStep ==
  ASSUME IInv, NEW w \in Workers, UpdateUnlock(w)
  PROVE  IInv'
<1> USE BoundsAssumption, NoneAssumption DEF Null
<1>0. job[w].mgr \in 1 .. made /\ job[w].mgr \in Managers
  BY HolderHolds DEF UpdateUnlock, Holding, Critical
<1>1. TypeOK'
  BY <1>0 DEF UpdateUnlock, Goto, IInv, TypeOK, PCs, Pending
<1>2. LocalsSet'
  BY <1>0 DEF UpdateUnlock, Goto, IInv, TypeOK, LocalsSet
<1>3. PointersValid'
  BY DEF UpdateUnlock, IInv, PointersValid
<1>4. LockMatchesHolder'
  BY <1>0 DEF UpdateUnlock, Goto, IInv, TypeOK, LockMatchesHolder, Holding, Critical
<1>5. OldTraceGone'
  BY DEF UpdateUnlock, Goto, IInv, TypeOK, OldTraceGone
<1>6. DanglingOnlyWhileBuilding'
  BY DEF UpdateUnlock, Goto, IInv, TypeOK, DanglingOnlyWhileBuilding, Dangling
<1>7. LiveTracesHeld'
  BY DEF UpdateUnlock, IInv, LiveTracesHeld
<1>8. TracesAccounted'
  <2>1. At(Unbuilt)' = At(Unbuilt)
    BY AtStays DEF UpdateUnlock, Unbuilt, IInv
  <2> QED BY <2>1, AtType DEF UpdateUnlock, IInv, TypeOK, TracesAccounted
<1>9. ChangesAccounted'
  <2>1. At(Pending)' = At(Pending)
    BY AtStays DEF UpdateUnlock, Pending, Critical, IInv
  <2> QED BY <2>1, AtType DEF UpdateUnlock, IInv, TypeOK, ChangesAccounted
<1> QED BY <1>1, <1>2, <1>3, <1>4, <1>5, <1>6, <1>7, <1>8, <1>9 DEF IInv

\* logChange(): one pending update becomes one change.
LEMMA UpdateLogStep ==
  ASSUME IInv, NEW w \in Workers, UpdateLog(w)
  PROVE  IInv'
<1> USE BoundsAssumption
<1>a. At(Pending)' = At(Pending) - 1
  BY AtLeaves DEF UpdateLog, Pending, Critical, IInv
<1>b. lastChangeID' \in 0 .. MaxUpdates
  BY <1>a, AtType DEF UpdateLog, IInv, TypeOK, ChangesAccounted
<1>1. TypeOK'
  BY <1>b DEF UpdateLog, Goto, IInv, TypeOK, PCs
<1>2. LocalsSet'
  BY DEF UpdateLog, Goto, IInv, TypeOK, LocalsSet, Holding, Critical
<1>3. PointersValid'
  BY DEF UpdateLog, IInv, PointersValid
<1>4. LockMatchesHolder'
  BY DEF UpdateLog, Goto, IInv, TypeOK, LockMatchesHolder, Holding, Critical
<1>5. OldTraceGone'
  BY DEF UpdateLog, Goto, IInv, TypeOK, OldTraceGone
<1>6. DanglingOnlyWhileBuilding'
  BY DEF UpdateLog, Goto, IInv, TypeOK, DanglingOnlyWhileBuilding, Dangling
<1>7. LiveTracesHeld'
  BY DEF UpdateLog, IInv, LiveTracesHeld
<1>8. TracesAccounted'
  <2>1. At(Unbuilt)' = At(Unbuilt)
    BY AtStays DEF UpdateLog, Unbuilt, IInv
  <2> QED BY <2>1 DEF UpdateLog, IInv, TracesAccounted
<1>9. ChangesAccounted'
  BY <1>a, AtType DEF UpdateLog, IInv, TypeOK, ChangesAccounted
<1> QED BY <1>1, <1>2, <1>3, <1>4, <1>5, <1>6, <1>7, <1>8, <1>9 DEF IInv

\* trylock() of status(): either way the lock matches its holder.
LEMMA StatusTryStep ==
  ASSUME IInv, NEW w \in Workers, StatusTry(w)
  PROVE  IInv'
<1> USE BoundsAssumption, NoneAssumption DEF Null
<1>0. job[w].mgr \in 1 .. made /\ job[w].mgr \in Managers /\ gaps \in SUBSET Traces
  BY DEF StatusTry, IInv, TypeOK, LocalsSet, Managers
<1>a. CASE /\ theLock' = theLock /\ Goto(w, "poll")
           /\ Locals(w, [NoJob EXCEPT !.text = "BUSY"])
  <2>1. [NoJob EXCEPT !.text = "BUSY"] \in Jobs
    BY NoJobType, JobTypes DEF Texts
  <2>2. LocalMove(w, "poll", [NoJob EXCEPT !.text = "BUSY"])
    BY <1>0, <1>a, <2>1
    DEF StatusTry, LocalMove, PCs, Holding, Critical, Unbuilt, Pending
  <2> QED BY <2>2, LocalStep
<1>b. CASE /\ theLock[job[w].mgr] = None /\ Goto(w, "release") /\ job' = job
           /\ theLock' = [theLock EXCEPT ![job[w].mgr] = w]
  <2>1. TypeOK'
    BY <1>0, <1>b DEF StatusTry, Goto, IInv, TypeOK, PCs, Holding
  <2>2. LocalsSet'
    BY <1>0, <1>b DEF StatusTry, Goto, IInv, TypeOK, LocalsSet
  <2>3. PointersValid'
    BY DEF StatusTry, IInv, PointersValid
  <2>4. LockMatchesHolder'
    BY <1>0, <1>b
    DEF StatusTry, Goto, IInv, TypeOK, LockMatchesHolder, Holding, Critical
  <2>5. OldTraceGone'
    BY <1>b DEF StatusTry, Goto, IInv, TypeOK, OldTraceGone
  <2>6. DanglingOnlyWhileBuilding'
    BY <1>b DEF StatusTry, Goto, IInv, TypeOK, DanglingOnlyWhileBuilding, Dangling
  <2>7. LiveTracesHeld'
    BY DEF StatusTry, IInv, LiveTracesHeld
  <2>8. At(Unbuilt)' = At(Unbuilt) /\ At(Pending)' = At(Pending)
    BY <1>b, AtStays DEF StatusTry, Unbuilt, Pending, Critical, IInv
  <2>9. TracesAccounted' /\ ChangesAccounted'
    BY <2>8 DEF StatusTry, IInv, TracesAccounted, ChangesAccounted
  <2> QED BY <2>1, <2>2, <2>3, <2>4, <2>5, <2>6, <2>7, <2>9 DEF IInv
<1> QED BY <1>a, <1>b DEF StatusTry

\* unlock() of status().
LEMMA StatusReleaseStep ==
  ASSUME IInv, NEW w \in Workers, StatusRelease(w)
  PROVE  IInv'
<1> USE BoundsAssumption, NoneAssumption DEF Null
<1> DEFINE j == [NoJob EXCEPT !.text = "GOOD"]
<1>0. job[w].mgr \in 1 .. made /\ job[w].mgr \in Managers
  BY HolderHolds DEF StatusRelease, Holding
<1>a. j \in Jobs
  BY NoJobType, JobTypes DEF Texts
<1>b. job' = [job EXCEPT ![w] = j]
  BY DEF StatusRelease, Locals
<1> HIDE DEF j
<1>1. TypeOK'
  BY <1>0, <1>a, <1>b DEF StatusRelease, Goto, IInv, TypeOK, PCs
<1>2. LocalsSet'
  BY <1>b DEF StatusRelease, Goto, IInv, TypeOK, LocalsSet, Holding, Critical
<1>3. PointersValid'
  BY DEF StatusRelease, IInv, PointersValid
<1>4. LockMatchesHolder'
  BY <1>0, <1>b
  DEF StatusRelease, Goto, IInv, TypeOK, LockMatchesHolder, Holding, Critical
<1>5. OldTraceGone'
  BY <1>b DEF StatusRelease, Goto, IInv, TypeOK, OldTraceGone
<1>6. DanglingOnlyWhileBuilding'
  BY <1>b DEF StatusRelease, Goto, IInv, TypeOK, DanglingOnlyWhileBuilding, Dangling
<1>7. LiveTracesHeld'
  BY DEF StatusRelease, IInv, LiveTracesHeld
<1>8. TracesAccounted'
  <2>1. At(Unbuilt)' = At(Unbuilt)
    BY AtStays DEF StatusRelease, Unbuilt, IInv
  <2> QED BY <2>1, AtType DEF StatusRelease, IInv, TypeOK, TracesAccounted
<1>9. ChangesAccounted'
  <2>1. At(Pending)' = At(Pending)
    BY AtStays DEF StatusRelease, Pending, Critical, IInv
  <2> QED BY <2>1, AtType DEF StatusRelease, IInv, TypeOK, ChangesAccounted
<1> QED BY <1>1, <1>2, <1>3, <1>4, <1>5, <1>6, <1>7, <1>8, <1>9 DEF IInv

-----------------------------------------------------------------------------
(* The process starts, dies and starts again                               *)

\* What a process that has just started, or none at all, looks like.
Fresh ==
  /\ dms = [e \in Execs |-> Null]
  /\ theLock = [d \in Managers |-> None]
  /\ trace = [d \in Managers |-> Null]
  /\ heap = [t \in Traces |-> "unborn"]
  /\ okay = {} /\ gaps = {}
  /\ lastChangeID = 0 /\ started = 0 /\ made = 0 /\ built = 0
  /\ pc = [w \in Workers |-> "idle"]
  /\ job = [w \in Workers |-> NoJob]

\* An empty process satisfies the invariant.
LEMMA FreshIInv ==
  Fresh /\ alive \in BOOLEAN /\ boots \in 0 .. MaxBoots => IInv
<1> SUFFICES ASSUME Fresh, alive \in BOOLEAN, boots \in 0 .. MaxBoots
             PROVE  IInv
  OBVIOUS
<1> USE BoundsAssumption, NoneAssumption DEF Fresh, Null
<1>1. TypeOK
  BY NoJobType DEF TypeOK, PCs
<1>2. LocalsSet
  BY DEF LocalsSet, Holding, Critical
<1>3. PointersValid
  BY DEF PointersValid, Traces
<1>4. LockMatchesHolder
  BY DEF LockMatchesHolder, Holding, Critical
<1>5. OldTraceGone
  BY DEF OldTraceGone
<1>6. DanglingOnlyWhileBuilding
  BY DEF DanglingOnlyWhileBuilding, Dangling
<1>7. LiveTracesHeld
  BY DEF LiveTracesHeld
<1>8. \A S : "idle" \notin S => At(S) = 0
  <2> SUFFICES ASSUME NEW S, "idle" \notin S PROVE At(S) = 0
    OBVIOUS
  <2>1. {w \in Workers : pc[w] \in S} = {}
    OBVIOUS
  <2> QED BY <2>1, FS_EmptySet DEF At
<1>9. TracesAccounted /\ ChangesAccounted
  BY <1>8 DEF TracesAccounted, ChangesAccounted, Unbuilt, Pending, Critical
<1> QED BY <1>1, <1>2, <1>3, <1>4, <1>5, <1>6, <1>7, <1>9 DEF IInv

\* The initial state does.
LEMMA InitIInv == Init => IInv
<1>1. Init => Fresh /\ alive \in BOOLEAN /\ boots \in 0 .. MaxBoots
  BY BoundsAssumption DEF Init, Fresh
<1> QED BY <1>1, FreshIInv

\* Nothing survives the process.
LEMMA CrashStep == IInv /\ Crash => IInv'
<1>1. IInv /\ Crash => (Fresh /\ alive \in BOOLEAN /\ boots \in 0 .. MaxBoots)'
  BY DEF Crash, Fresh, IInv, TypeOK
<1> QED BY <1>1, FreshIInv, PTL

\* Starting the process changes nothing the invariant speaks of.
LEMMA IdleStep ==
  ASSUME IInv, alive' \in BOOLEAN, boots' \in 0 .. MaxBoots, UNCHANGED <<data, pc, job>>
  PROVE  IInv'
<1> USE DEF data
<1>1. TypeOK' /\ LocalsSet' /\ PointersValid'
  BY DEF IInv, TypeOK, LocalsSet, PointersValid
<1>2. LockMatchesHolder' /\ OldTraceGone' /\ DanglingOnlyWhileBuilding' /\ LiveTracesHeld'
  BY DEF IInv, LockMatchesHolder, OldTraceGone, DanglingOnlyWhileBuilding, Dangling,
     LiveTracesHeld
<1>3. TracesAccounted' /\ ChangesAccounted'
  BY DEF IInv, TracesAccounted, ChangesAccounted, At
<1> QED BY <1>1, <1>2, <1>3 DEF IInv

-----------------------------------------------------------------------------
(* Putting the steps together                                              *)

\* Every step of a request that was accepted.
LEMMA ServeStep ==
  ASSUME IInv, NEW w \in Workers, Serve(w)
  PROVE  IInv'
<1>1. CASE UpdateStep(w)
  <2>1. CASE UpdateFound(w)
    BY <2>1, ManagerStep DEF UpdateFound
  <2>2. CASE UpdateAbort(w)
    BY <2>2, CrashStep DEF UpdateAbort
  <2> QED BY <1>1, <2>1, <2>2, UpdateInsertStep, UpdateLockStep, UpdateDeleteStep,
       UpdateBuildStep, UpdateUnlockStep, UpdateOkayStep, UpdateLogStep, UpdateAnswerStep
       DEF UpdateStep
<1>2. CASE StatusStep(w)
  <2>1. CASE StatusManager(w)
    BY <2>1, ManagerStep DEF StatusManager
  <2> QED BY <1>2, <2>1, StatusTryStep, StatusReleaseStep, StatusPollStep DEF StatusStep
<1>3. CASE QueryStep(w)
  <2>1. CASE QueryManager(w)
    BY <2>1, ManagerStep DEF QueryManager
  <2>2. CASE QueryCrash(w)
    BY <2>2, CrashStep DEF QueryCrash
  <2> QED BY <1>3, <2>1, <2>2, QueryTraceStep, QueryEndStep DEF QueryStep
<1>4. CASE ListSize(w)
  BY <1>4, ListStep
<1>5. CASE MapRace(w)
  BY <1>5, CrashStep DEF MapRace
<1> QED BY <1>1, <1>2, <1>3, <1>4, <1>5 DEF Serve

\* Every step.
LEMMA NextIInv == IInv /\ [Next]_vars => IInv'
<1> SUFFICES ASSUME IInv, [Next]_vars PROVE IInv'
  OBVIOUS
<1>1. CASE \E w \in Workers : Accept(w)
  BY <1>1, UpdateFindStep, StatusFindStep, QueryFindStep, ListStep, TrivialCloseStep
  DEF Accept
<1>2. CASE \E w \in Workers : Serve(w)
  BY <1>2, ServeStep
<1>3. CASE \E w \in Workers : Close(w)
  BY <1>3, TrivialCloseStep
<1>4. CASE Kill
  BY <1>4, CrashStep DEF Kill
<1>5. CASE Restart
  BY <1>5, IdleStep, BoundsAssumption DEF Restart, IInv, TypeOK
<1>6. CASE UNCHANGED vars
  BY <1>6, IdleStep DEF vars, IInv, TypeOK
<1> QED BY <1>1, <1>2, <1>3, <1>4, <1>5, <1>6 DEF Next

\* The inductive invariant holds in every reachable state.
THEOREM Inductive == Spec => []IInv
BY InitIInv, NextIInv, PTL DEF Spec

-----------------------------------------------------------------------------
(* The theorems                                                            *)

\* The variables keep their types: in particular the counters of managers,
\* traces and changes never pass the number of updates requested.
THEOREM TypeCorrect == Spec => []TypeOK
<1>1. IInv => TypeOK
  BY DEF IInv
<1> QED BY <1>1, Inductive, PTL

\* the_lock of a manager is held exactly by the worker inside update() or
\* status() of it, whatever the number of workers, executables and drivers.
THEOREM MutualExclusion == Spec => []LockMatchesHolder
<1>1. IInv => LockMatchesHolder
  BY DEF IInv
<1> QED BY <1>1, Inductive, PTL

\* A manager's pointer is dangling only between the delete and the end of the
\* parse, so DataManager::update never deletes the same trace twice.
THEOREM NoDoubleDelete == Spec => []DanglingOnlyWhileBuilding
<1>1. IInv => DanglingOnlyWhileBuilding
  BY DEF IInv
<1> QED BY <1>1, Inductive, PTL

\* A trace in memory is held by exactly one manager: none leaks when updates
\* of the same executable overlap.
THEOREM NoTraceLost == Spec => []EveryTraceOwnedOnce
<1>1. IInv => EveryTraceOwnedOnce
  <2> SUFFICES ASSUME IInv, NEW t \in Traces, heap[t] = "live"
               PROVE  \E d \in Managers : \A c \in Managers : trace[c] = t <=> c = d
    BY DEF EveryTraceOwnedOnce
  <2>1. PICK d \in Managers : trace[d] = t
    BY DEF IInv, LiveTracesHeld
  <2>2. t # Null
    BY DEF Traces, Null
  <2> QED BY <2>1, <2>2 DEF IInv, PointersValid
<1> QED BY <1>1, Inductive, PTL

\* When status() is about to say GOOD, nobody is between the delete and the
\* end of the parse: the trace of the manager is not a deleted one.
THEOREM GoodIsNotDangling == Spec => []GoodMeansNotDangling
<1>1. IInv => GoodMeansNotDangling
  <2> SUFFICES ASSUME IInv, NEW w \in Workers, pc[w] = "release",
                      Dangling(trace[job[w].mgr])
               PROVE  FALSE
    BY DEF GoodMeansNotDangling
  <2>1. job[w].mgr \in Managers /\ theLock[job[w].mgr] = w
    BY HolderHolds DEF Holding
  <2>2. PICK v \in Workers : pc[v] = "build" /\ job[v].mgr = job[w].mgr
    BY <2>1 DEF IInv, DanglingOnlyWhileBuilding
  <2>3. theLock[job[w].mgr] = v
    BY <2>2, HolderHolds DEF Holding, Critical
  <2> QED BY <2>1, <2>2, <2>3
<1> QED BY <1>1, Inductive, PTL

\* The change counter and the updates on their way add up to the updates
\* accepted: no finished update is missing from the number a page polls.
THEOREM NoChangeLost == Spec => []ChangesAccounted
<1>1. IInv => ChangesAccounted
  BY DEF IInv
<1> QED BY <1>1, Inductive, PTL

\* But for a build and the death of the process, nobody moves the pointers or
\* counts traces.
LEMMA OnlyBuildMoves ==
  ASSUME Next, ~Crash, ~ UNCHANGED <<trace, built>>
  PROVE  \E w \in Workers : UpdateBuild(w)
<1> USE DEF data, Manager
<1>1. PICK w \in Workers : Accept(w) \/ Serve(w) \/ Close(w)
  BY DEF Next, Kill, Restart
<1>2. ~Accept(w) /\ ~Close(w)
  BY DEF Accept, UpdateFind, StatusFind, QueryFind, ListIterate, Trivial, Close
<1>3. ~StatusStep(w) /\ ~QueryStep(w) /\ ~ListSize(w) /\ ~MapRace(w)
  BY DEF StatusStep, StatusManager, StatusTry, StatusRelease, StatusPoll, QueryStep,
     QueryManager, QueryTrace, QueryCrash, QueryRefuse, QueryAnswer, ListSize, MapRace
<1>4. UpdateStep(w)
  BY <1>1, <1>2, <1>3 DEF Serve
<1>5. UpdateBuild(w)
  BY <1>4 DEF UpdateStep, UpdateInsert, UpdateFound, UpdateLock, UpdateDelete, UpdateAbort,
     UpdateUnlock, UpdateOkay, UpdateLog, UpdateAnswer
<1> QED BY <1>5

\* Only an update that misses its executable makes a manager.
LEMMA OnlyFindMakes ==
  ASSUME Next, ~Crash, made' # made
  PROVE  \E w \in Workers, e \in Execs : UpdateFind(w, e) /\ Missing(w, e) /\ made' = made + 1
<1> USE DEF data, Manager
<1>1. PICK w \in Workers : Accept(w) \/ Serve(w) \/ Close(w)
  BY DEF Next, Kill, Restart
<1>2. ~StatusStep(w) /\ ~QueryStep(w) /\ ~ListSize(w) /\ ~MapRace(w) /\ ~Close(w)
  BY DEF StatusStep, StatusManager, StatusTry, StatusRelease, StatusPoll, QueryStep,
     QueryManager, QueryTrace, QueryCrash, QueryRefuse, QueryAnswer, ListSize, MapRace, Close
<1>3. ~UpdateStep(w)
  BY DEF UpdateStep, UpdateInsert, UpdateFound, UpdateLock, UpdateDelete, UpdateBuild,
     UpdateAbort, UpdateUnlock, UpdateOkay, UpdateLog, UpdateAnswer
<1>4. Accept(w)
  BY <1>1, <1>2, <1>3 DEF Serve
<1>5. PICK e \in Execs : UpdateFind(w, e)
  BY <1>4 DEF Accept, StatusFind, QueryFind, ListIterate, Trivial
<1> QED BY <1>5 DEF UpdateFind

\* The counter moves only when an update logs its change.
LEMMA OnlyLogCounts ==
  ASSUME Next, ~Crash, lastChangeID' # lastChangeID
  PROVE  lastChangeID' = lastChangeID + 1
<1> USE DEF data, Manager
<1>1. PICK w \in Workers : Accept(w) \/ Serve(w) \/ Close(w)
  BY DEF Next, Kill, Restart
<1>2. ~Accept(w) /\ ~Close(w)
  BY DEF Accept, UpdateFind, StatusFind, QueryFind, ListIterate, Trivial, Close
<1>3. ~StatusStep(w) /\ ~QueryStep(w) /\ ~ListSize(w) /\ ~MapRace(w)
  BY DEF StatusStep, StatusManager, StatusTry, StatusRelease, StatusPoll, QueryStep,
     QueryManager, QueryTrace, QueryCrash, QueryRefuse, QueryAnswer, ListSize, MapRace
<1>4. UpdateStep(w)
  BY <1>1, <1>2, <1>3 DEF Serve
<1>5. UpdateLog(w)
  BY <1>4 DEF UpdateStep, UpdateInsert, UpdateFound, UpdateLock, UpdateDelete, UpdateBuild,
     UpdateAbort, UpdateUnlock, UpdateOkay, UpdateAnswer
<1> QED BY <1>5 DEF UpdateLog

\* The pointer of a manager only moves under its mutex, from null or a deleted
\* trace to one that no manager had: the only way to lose a trace is to die.
THEOREM PointerSafety == Spec => PointerMovesUnderLock
<1> DEFINE Moves == alive /\ alive' => \A d \in Managers :
              trace'[d] # trace[d] =>
                /\ theLock[d] # None
                /\ trace[d] = Null \/ heap[trace[d]] = "freed"
                /\ \A c \in Managers : trace[c] # trace'[d]
<1>1. IInv /\ [Next]_vars => Moves
  <2> SUFFICES ASSUME IInv, [Next]_vars, alive, alive',
                      NEW d \in Managers, trace'[d] # trace[d]
               PROVE  /\ theLock[d] # None
                      /\ trace[d] = Null \/ heap[trace[d]] = "freed"
                      /\ \A c \in Managers : trace[c] # trace'[d]
    OBVIOUS
  <2>1. ~ UNCHANGED trace /\ ~ Crash
    BY DEF Crash
  <2>2. PICK w \in Workers : UpdateBuild(w)
    BY <2>1, OnlyBuildMoves DEF vars, data
  <2>3. job[w].mgr = d /\ trace'[d] = built + 1
    BY <2>2 DEF UpdateBuild, IInv, TypeOK
  <2>4. theLock[d] = w /\ w # None
    BY <2>2, <2>3, HolderHolds, NoneAssumption DEF UpdateBuild, Holding, Critical
  <2>5. trace[d] = Null \/ heap[trace[d]] = "freed"
    BY <2>2, <2>3 DEF UpdateBuild, IInv, OldTraceGone
  <2>6. \A c \in Managers : trace[c] # built + 1
    BY DEF IInv, TypeOK, PointersValid
  <2> QED BY <2>3, <2>4, <2>5, <2>6
<1> QED BY <1>1, Inductive, PTL DEF Spec, PointerMovesUnderLock

-----------------------------------------------------------------------------
(* Overlapping updates                                                     *)

\* Worker w, outside /pp/update, makes a step that no update can notice.
QuietMove(w) ==
  /\ \A v \in Workers \ {w} : pc'[v] = pc[v] /\ job'[v] = job[v]
  /\ pc[w] \notin Updating /\ pc'[w] \notin Updating
  /\ job'[w].text \in {"okay", "failed"} => job'[w].text = job[w].text
  /\ UNCHANGED <<dms, trace, heap, okay, made, built>>

\* The handlers that read only, and the ends of connections, are quiet.
LEMMA StatusIsQuiet ==
  ASSUME IInv, NEW w \in Workers,
         \/ \E e \in Execs : StatusFind(w, e)
         \/ StatusStep(w)
  PROVE  QuietMove(w)
<1> USE DEF QuietMove, Updating, Pending, Critical, data, Goto, Locals, Reply, Manager
<1>0. pc \in [Workers -> PCs] /\ job \in [Workers -> Jobs] /\ job[w] \in Jobs
  BY DEF IInv, TypeOK
<1>1. CASE \E e \in Execs : StatusFind(w, e)
  BY <1>0, <1>1 DEF StatusFind, Jobs, NoJob
<1>2. CASE StatusManager(w)
  BY <1>0, <1>2 DEF StatusManager, Jobs
<1>3. CASE StatusTry(w)
  BY <1>0, <1>3 DEF StatusTry, NoJob
<1>4. CASE StatusRelease(w)
  BY <1>0, <1>4 DEF StatusRelease, NoJob
<1>5. CASE StatusPoll(w)
  BY <1>0, <1>5 DEF StatusPoll, NoJob
<1> QED BY <1>1, <1>2, <1>3, <1>4, <1>5 DEF StatusStep

\* ... of the queries, those that do not crash.
LEMMA QueryIsQuiet ==
  ASSUME IInv, NEW w \in Workers,
         \/ \E e \in Execs, k \in Queries : QueryFind(w, e, k)
         \/ QueryManager(w) \/ QueryTrace(w) \/ QueryRefuse(w) \/ QueryAnswer(w)
  PROVE  QuietMove(w)
<1> USE DEF QuietMove, Updating, Pending, Critical, data, Goto, Locals, Reply, Manager
<1>0. pc \in [Workers -> PCs] /\ job \in [Workers -> Jobs] /\ job[w] \in Jobs
  BY DEF IInv, TypeOK
<1>1. CASE \E e \in Execs, k \in Queries : QueryFind(w, e, k)
  BY <1>0, <1>1 DEF QueryFind, NoJob, Queries
<1>2. CASE QueryManager(w)
  BY <1>0, <1>2 DEF QueryManager, Jobs
<1>3. CASE QueryTrace(w)
  BY <1>0, <1>3 DEF QueryTrace, NoJob
<1>4. CASE QueryRefuse(w)
  BY <1>0, <1>4 DEF QueryRefuse, NoJob
<1>5. CASE QueryAnswer(w)
  BY <1>0, <1>5 DEF QueryAnswer, NoJob
<1> QED BY <1>1, <1>2, <1>3, <1>4, <1>5

\* ... and the rest.
LEMMA OthersAreQuiet ==
  ASSUME IInv, NEW w \in Workers,
         ListIterate(w) \/ ListSize(w) \/ Trivial(w) \/ Close(w)
  PROVE  QuietMove(w)
<1> USE DEF QuietMove, Updating, Pending, Critical, data, Goto, Answered
<1>0. pc \in [Workers -> PCs] /\ job \in [Workers -> Jobs] /\ job[w] \in Jobs
  BY DEF IInv, TypeOK
<1>1. CASE ListIterate(w)
  BY <1>0, <1>1, ZenonT(30) DEF ListIterate, Jobs
<1>2. CASE ListSize(w)
  BY <1>0, <1>2 DEF ListSize, Jobs
<1>3. CASE Trivial(w)
  BY <1>0, <1>3 DEF Trivial
<1>4. CASE Close(w)
  BY <1>0, <1>4 DEF Close, NoJob
<1> QED BY <1>1, <1>2, <1>3, <1>4

\* A step that is neither quiet nor the end of the process is of an update.
LEMMA QuietOrUpdate ==
  ASSUME IInv, [Next]_vars
  PROVE  \/ UNCHANGED <<data, pc, job>>
         \/ Crash
         \/ \E w \in Workers : \/ QuietMove(w)
                               \/ UpdateStep(w)
                               \/ \E e \in Execs : UpdateFind(w, e)
<1>1. CASE \E w \in Workers : Accept(w) \/ Close(w)
  BY <1>1, StatusIsQuiet, QueryIsQuiet, OthersAreQuiet DEF Accept
<1>2. ASSUME NEW w \in Workers, Serve(w)
      PROVE  Crash \/ QuietMove(w) \/ UpdateStep(w)
  <2>1. CASE StatusStep(w)
    BY <2>1, StatusIsQuiet
  <2>2. CASE QueryStep(w)
    BY <2>2, QueryIsQuiet DEF QueryStep, QueryCrash
  <2>3. CASE ListSize(w) \/ MapRace(w)
    BY <2>3, OthersAreQuiet DEF MapRace
  <2> QED BY <1>2, <2>1, <2>2, <2>3 DEF Serve
<1>3. CASE Kill \/ Restart \/ UNCHANGED vars
  BY <1>3 DEF Kill, Restart, vars
<1> QED BY <1>1, <1>2, <1>3 DEF Next

\* Steps that insert nothing, and do not start to, lose no manager.
LEMMA ReachStays ==
  ASSUME ReachInv, NEW w \in Workers, pc[w] # "insert", pc'[w] # "insert",
         \A v \in Workers \ {w} : pc'[v] = pc[v] /\ job'[v] = job[v],
         UNCHANGED <<dms, made>>
  PROVE  ReachInv'
<1>1. \A v \in Workers : pc'[v] = "insert" <=> pc[v] = "insert"
  OBVIOUS
<1>2. \A v \in Workers : pc[v] = "insert" => job'[v] = job[v]
  OBVIOUS
<1> QED BY <1>1, <1>2 DEF ReachInv, NoOrphanManager

\* The update that misses its executable, alone at that, missed rightly.
LEMMA ReachFind ==
  ASSUME IInv, ReachInv, InsertsAlone', NEW w \in Workers, NEW e \in Execs,
         UpdateFind(w, e)
  PROVE  ReachInv'
<1> USE DEF Goto
<1>0. /\ pc \in [Workers -> PCs] /\ job \in [Workers -> Jobs] /\ job[w] \in Jobs
      /\ made \in Nat /\ dms' = dms /\ pc[w] = "idle"
  BY DEF IInv, TypeOK, UpdateFind
<1>1. CASE /\ Missing(w, e) /\ made' = made + 1
           /\ job' = [job EXCEPT ![w].exec = e, ![w].mgr = made'] /\ Goto(w, "insert")
  <2>1. /\ job'[w].exec = e /\ job'[w].mgr = made + 1 /\ pc'[w] = "insert"
        /\ \A v \in Workers \ {w} : job'[v] = job[v] /\ pc'[v] = pc[v]
    BY <1>0, <1>1 DEF Jobs
  <2>2. \A v \in Workers : pc'[v] = "insert" => v = w
    BY <2>1 DEF InsertsAlone
  <2>3. \A v \in Workers : pc[v] # "insert"
    BY <1>0, <2>1, <2>2
  <2>4. dms[e] = Null
    BY <1>1, <2>3 DEF Missing, Inserting
  <2>5. NoOrphanManager'
    BY <1>0, <1>1, <2>1, <2>3 DEF ReachInv, NoOrphanManager
  <2> QED BY <1>0, <2>1, <2>2, <2>4, <2>5 DEF ReachInv
<1>2. CASE made' = made /\ job' = [job EXCEPT ![w].exec = e] /\ Goto(w, "found")
  <2>1. /\ pc'[w] # "insert" /\ pc[w] # "insert"
        /\ \A v \in Workers \ {w} : job'[v] = job[v] /\ pc'[v] = pc[v]
    BY <1>0, <1>2
  <2> QED BY <1>0, <1>2, <2>1, ReachStays
<1> QED BY <1>1, <1>2 DEF UpdateFind

\* The new manager is put where there was none.
LEMMA ReachInsert ==
  ASSUME IInv, ReachInv, InsertsAlone, NEW w \in Workers, UpdateInsert(w)
  PROVE  ReachInv'
<1> USE DEF Goto
<1>0. /\ pc \in [Workers -> PCs] /\ dms \in [Execs -> 0 .. MaxUpdates]
      /\ job[w].exec \in Execs /\ dms[job[w].exec] = Null /\ pc[w] = "insert"
      /\ UNCHANGED <<made, job>> /\ pc' = [pc EXCEPT ![w] = "lock"]
  BY DEF IInv, TypeOK, LocalsSet, ReachInv, UpdateInsert
<1>1. \A v \in Workers \ {w} : pc[v] # "insert"
  BY <1>0 DEF InsertsAlone
<1>2. dms' = [dms EXCEPT ![job[w].exec] = job[w].mgr]
  BY <1>1 DEF UpdateInsert, Inserting
<1>3. NoOrphanManager'
  <2> SUFFICES ASSUME NEW d \in 1 .. made
               PROVE  \E e \in Execs : dms'[e] = d
    BY <1>0 DEF NoOrphanManager
  <2>1. d # Null
    BY DEF Null
  <2>2. CASE \E e \in Execs : dms[e] = d
    BY <1>0, <1>2, <2>1, <2>2
  <2>3. CASE \E v \in Workers : pc[v] = "insert" /\ job[v].mgr = d
    BY <1>0, <1>1, <1>2, <2>3
  <2> QED BY <2>2, <2>3 DEF ReachInv, NoOrphanManager
<1>4. \A v \in Workers : pc'[v] # "insert"
  BY <1>0, <1>1
<1> QED BY <1>3, <1>4 DEF ReachInv

\* The other steps of an update neither insert nor start to.
LEMMA ReachUpdate ==
  ASSUME IInv, ReachInv, NEW w \in Workers,
         \/ UpdateFound(w) \/ UpdateLock(w) \/ UpdateDelete(w) \/ UpdateBuild(w)
         \/ UpdateUnlock(w) \/ UpdateOkay(w) \/ UpdateLog(w) \/ UpdateAnswer(w)
  PROVE  ReachInv'
<1>0. pc \in [Workers -> PCs] /\ job \in [Workers -> Jobs]
  BY DEF IInv, TypeOK
<1>1. /\ pc[w] # "insert" /\ pc'[w] # "insert" /\ UNCHANGED <<dms, made>>
      /\ \A v \in Workers \ {w} : pc'[v] = pc[v] /\ job'[v] = job[v]
  BY <1>0 DEF UpdateFound, Manager, UpdateLock, UpdateDelete, UpdateBuild, UpdateUnlock,
     UpdateOkay, UpdateLog, UpdateAnswer, Reply, Locals, Goto, data
<1> QED BY <1>1, ReachStays

\* A process that has just started has no managers, and nothing to answer.
LEMMA FreshReach == Fresh => ReachInv
BY DEF Fresh, ReachInv, NoOrphanManager

\* Nothing survives the process.
LEMMA CrashFresh == Crash => Fresh'
BY DEF Crash, Fresh

\* Every step, as long as inserts do not overlap.
LEMMA NextReach ==
  ASSUME IInv, ReachInv, InsertsAlone, InsertsAlone', [Next]_vars
  PROVE  ReachInv'
<1>1. CASE UNCHANGED <<data, pc, job>>
  BY <1>1 DEF data, ReachInv, NoOrphanManager
<1>2. CASE Crash
  BY <1>2, CrashFresh, FreshReach, PTL
<1>3. ASSUME NEW w \in Workers, QuietMove(w)
      PROVE  ReachInv'
  BY <1>3, ReachStays DEF QuietMove, Updating, Pending
<1>4. ASSUME NEW w \in Workers, UpdateStep(w)
      PROVE  ReachInv'
  BY <1>2, <1>4, ReachInsert, ReachUpdate DEF UpdateStep, UpdateAbort
<1> QED BY <1>1, <1>2, <1>3, <1>4, ReachFind, QuietOrUpdate

\* Whatever else updates do at the same time: as long as no two of them are
\* between the count and the insertion together, who inserts replaces nothing.
THEOREM ReachInductive == Spec /\ []InsertsAlone => []ReachInv
<1>1. Init => ReachInv
  BY FreshReach DEF Init, Fresh
<1>2. IInv /\ ReachInv /\ InsertsAlone /\ InsertsAlone' /\ [Next]_vars => ReachInv'
  BY NextReach
<1> QED BY <1>1, <1>2, Inductive, PTL DEF Spec

\* A manager can only get lost in the race between the count of _dms and the
\* insertion, for any numbers of drivers, executables, workers and restarts.
THEOREM ManagersStayReachable == Spec => OrphansNeedOverlap
<1>1. ReachInv => NoOrphanManager
  BY DEF ReachInv
<1> QED BY <1>1, ReachInductive, PTL DEF OrphansNeedOverlap

\* HonestInv, of one worker.
Honest(w) ==
  /\ pc[w] \in {"unlock", "okay"} =>
       /\ job[w].tr \in 1 .. built
       /\ trace[job[w].mgr] = job[w].tr \/ heap[job[w].tr] = "freed"
  /\ job[w].text \in {"okay", "failed"} =>
       pc[w] \in {"log", "answer"} /\ job[w].tr \in 1 .. built
  /\ job[w].text \in {"okay", "failed"} /\ heap[job[w].tr] = "live" =>
       (job[w].text = "okay" <=> job[w].tr \in okay)

\* HonestInv is about each worker on its own.
LEMMA HonestIs == HonestInv <=> \A w \in Workers : Honest(w)
BY DEF HonestInv, HonestWhileLive, Honest

\* The step of a worker that leaves the traces alone is of its concern only.
LEMMA HonestOne ==
  ASSUME HonestInv, NEW w \in Workers, Honest(w)',
         \A v \in Workers \ {w} : pc'[v] = pc[v] /\ job'[v] = job[v],
         UNCHANGED <<trace, heap, okay, built>>
  PROVE  HonestInv'
<1>1. \A v \in Workers \ {w} : Honest(v)'
  BY HonestIs DEF Honest
<1> QED BY <1>1 DEF HonestInv, HonestWhileLive, Honest

\* A step outside update() that keeps its hands off the traces.
LEMMA HonestQuiet ==
  ASSUME HonestInv, NEW w \in Workers, QuietMove(w)
  PROVE  HonestInv'
<1>1. pc[w] \notin {"log", "answer"} /\ pc'[w] \notin {"unlock", "okay"}
  BY DEF QuietMove, Updating, Pending, Critical
<1>2. job'[w].text \notin {"okay", "failed"}
  BY <1>1 DEF QuietMove, HonestInv
<1>3. Honest(w)'
  BY <1>1, <1>2 DEF Honest
<1> QED BY <1>3, HonestOne DEF QuietMove

\* The steps of an update before its trace is there, but for the delete.
LEMMA HonestBefore ==
  ASSUME IInv, HonestInv, NEW w \in Workers,
         \/ \E e \in Execs : UpdateFind(w, e)
         \/ UpdateInsert(w) \/ UpdateFound(w) \/ UpdateLock(w)
  PROVE  HonestInv'
<1>0. pc \in [Workers -> PCs] /\ job \in [Workers -> Jobs] /\ job[w] \in Jobs
  BY DEF IInv, TypeOK
<1>1. /\ pc[w] \in {"idle", "insert", "found", "lock"}
      /\ pc'[w] \in {"insert", "found", "lock", "delete"}
      /\ job'[w].text = job[w].text
      /\ \A v \in Workers \ {w} : pc'[v] = pc[v] /\ job'[v] = job[v]
      /\ UNCHANGED <<trace, heap, okay, built>>
  <2>1. CASE \E e \in Execs : UpdateFind(w, e)
    BY <1>0, <2>1 DEF UpdateFind, Goto, Jobs
  <2>2. CASE UpdateInsert(w) \/ UpdateLock(w)
    BY <1>0, <2>2 DEF UpdateInsert, UpdateLock, Goto
  <2>3. CASE UpdateFound(w)
    BY <1>0, <2>3 DEF UpdateFound, Manager, Goto, data, Jobs
  <2> QED BY <2>1, <2>2, <2>3
<1>2. Honest(w)'
  BY <1>1 DEF HonestInv, Honest
<1> QED BY <1>1, <1>2, HonestOne

\* The delete frees no trace that an update is about to ask, but for those of
\* which HonestInv says that this may happen.
LEMMA HonestDelete ==
  ASSUME IInv, HonestInv, NEW w \in Workers, UpdateDelete(w)
  PROVE  HonestInv'
<1>0. /\ pc \in [Workers -> PCs] /\ heap \in [Traces -> {"unborn", "live", "freed"}]
      /\ pc[w] = "delete" /\ pc' = [pc EXCEPT ![w] = "build"]
      /\ UNCHANGED <<trace, okay, built, job>>
      /\ 1 .. built \subseteq Traces
  BY BoundsAssumption DEF IInv, TypeOK, UpdateDelete, Goto, Traces
<1>1. \A t \in Traces : heap'[t] = heap[t] \/ heap'[t] = "freed"
  BY <1>0 DEF UpdateDelete
<1>2. ASSUME NEW v \in Workers
      PROVE  Honest(v)'
  <2>1. /\ pc'[v] \in {"unlock", "okay"} <=> pc[v] \in {"unlock", "okay"}
        /\ pc'[v] \in {"log", "answer"} <=> pc[v] \in {"log", "answer"}
    BY <1>0
  <2>2. Honest(v)
    BY HonestIs
  <2> QED BY <1>0, <1>1, <2>1, <2>2 DEF Honest
<1> QED BY <1>2 DEF HonestInv, HonestWhileLive, Honest

\* The trace that is built is the one the update's locals name; the trace it
\* replaces, which another update may be about to ask, is gone.
LEMMA HonestBuild ==
  ASSUME IInv, HonestInv, NEW w \in Workers, UpdateBuild(w)
  PROVE  HonestInv'
<1> DEFINE d == job[w].mgr
           t == built + 1
<1>0. /\ pc[w] = "build" /\ pc'[w] = "unlock"
      /\ \A v \in Workers \ {w} : pc'[v] = pc[v] /\ job'[v] = job[v]
      /\ job'[w].text = job[w].text /\ job'[w].tr = t /\ job'[w].mgr = d
      /\ built \in Nat /\ built' = t /\ okay' \in {okay, okay \union {t}}
  BY DEF UpdateBuild, Goto, IInv, TypeOK, Jobs
<1>1. d \in Managers
  BY <1>0, HolderHolds DEF Holding, Critical
<1>2. /\ trace \in [Managers -> 0 .. MaxUpdates] /\ trace' = [trace EXCEPT ![d] = t]
      /\ heap' = [heap EXCEPT ![t] = "live"]
  BY DEF UpdateBuild, IInv, TypeOK
<1>3. trace[d] = 0 \/ heap[trace[d]] = "freed"
  BY <1>0 DEF IInv, OldTraceGone, Null
<1>4. \A s \in 1 .. built : heap'[s] = heap[s] /\ (s \in okay' <=> s \in okay)
  BY <1>0, <1>2
<1>5. Honest(w)'
  <2>1. job[w].text \notin {"okay", "failed"}
    BY <1>0 DEF HonestInv
  <2> QED BY <1>0, <1>1, <1>2, <2>1 DEF Honest
<1>6. ASSUME NEW v \in Workers \ {w}
      PROVE  Honest(v)'
  <2>1. Honest(v) /\ pc'[v] = pc[v] /\ job'[v] = job[v]
    BY <1>0, HonestIs
  <2>2. CASE pc[v] \in {"unlock", "okay"}
    <3>1. job[v].mgr \in Managers /\ job[v].tr \in 1 .. built
      BY <2>1, <2>2, BoundsAssumption
      DEF Honest, IInv, LocalsSet, TypeOK, Managers, Holding, Critical
    <3>2. trace'[job[v].mgr] = job[v].tr \/ heap[job[v].tr] = "freed"
      BY <1>2, <1>3, <2>1, <2>2, <3>1 DEF Honest
    <3>3. job[v].text \notin {"okay", "failed"}
      BY <2>1, <2>2 DEF Honest
    <3> HIDE DEF d, t
    <3>4. job[v].tr \in 1 .. built'
      BY <1>0, <3>1 DEF t
    <3>5. heap'[job[v].tr] = heap[job[v].tr]
      BY <1>4, <3>1
    <3> QED BY <2>1, <3>2, <3>3, <3>4, <3>5 DEF Honest
  <2>3. CASE pc[v] \notin {"unlock", "okay"}
    <3>1. CASE job[v].text \in {"okay", "failed"}
      <4>1. job[v].tr \in 1 .. built /\ pc[v] \in {"log", "answer"}
        BY <2>1, <3>1 DEF Honest
      <4>2. job[v].tr \in 1 .. built'
        BY <1>0, <4>1
      <4> HIDE DEF d, t
      <4> QED BY <1>4, <2>1, <2>3, <4>1, <4>2 DEF Honest
    <3>2. CASE job[v].text \notin {"okay", "failed"}
      BY <2>1, <2>3, <3>2 DEF Honest
    <3> QED BY <3>1, <3>2
  <2> QED BY <2>2, <2>3
<1> QED BY <1>5, <1>6 DEF HonestInv, HonestWhileLive, Honest

\* okay() is asked of the update's own trace, unless that one is gone.
LEMMA HonestAfter ==
  ASSUME IInv, HonestInv, NEW w \in Workers,
         UpdateUnlock(w) \/ UpdateOkay(w) \/ UpdateLog(w) \/ UpdateAnswer(w)
  PROVE  HonestInv'
<1> USE DEF Goto, data
<1>0. /\ \A v \in Workers \ {w} : pc'[v] = pc[v] /\ job'[v] = job[v]
      /\ UNCHANGED <<trace, heap, okay, built>>
      /\ job \in [Workers -> Jobs] /\ pc \in [Workers -> PCs]
  BY DEF UpdateUnlock, UpdateOkay, UpdateLog, UpdateAnswer, Reply, Locals, IInv, TypeOK
<1>1. Honest(w)
  BY HonestIs
<1>2. CASE UpdateUnlock(w)
  <2>1. pc[w] = "unlock" /\ pc'[w] = "okay" /\ job' = job
    BY <1>0, <1>2 DEF UpdateUnlock
  <2> QED BY <1>0, <1>1, <2>1, HonestOne DEF Honest
<1>3. CASE UpdateOkay(w)
  <2>1. /\ pc[w] = "okay" /\ pc'[w] = "log"
        /\ job'[w].tr = job[w].tr /\ job[w].tr \in 1 .. built
        /\ job'[w].text \in {"okay", "failed"}
        /\ heap[trace[job[w].mgr]] = "live" =>
             (job'[w].text = "okay" <=> trace[job[w].mgr] \in okay)
    BY <1>0, <1>1, <1>3 DEF UpdateOkay, Honest, Jobs
  <2>2. Honest(w)'
    BY <1>0, <1>1, <2>1 DEF Honest
  <2> QED BY <1>0, <2>2, HonestOne
<1>4. CASE UpdateLog(w)
  <2>1. pc[w] = "log" /\ pc'[w] = "answer" /\ job' = job
    BY <1>0, <1>4 DEF UpdateLog
  <2> QED BY <1>0, <1>1, <2>1, HonestOne DEF Honest
<1>5. CASE UpdateAnswer(w)
  <2>1. pc'[w] \in {"ok", "fail"} /\ job'[w].text = "none"
    BY <1>0, <1>5 DEF UpdateAnswer, Reply, Locals, NoJob
  <2>2. Honest(w)'
    BY <2>1 DEF Honest
  <2> QED BY <1>0, <2>2, HonestOne
<1> QED BY <1>2, <1>3, <1>4, <1>5

\* A process that has just started has nothing to answer.
LEMMA FreshHonest == Fresh => HonestInv
BY DEF Fresh, HonestInv, HonestWhileLive, NoJob

\* Every step, for any number of drivers.
LEMMA NextHonest ==
  ASSUME IInv, HonestInv, [Next]_vars
  PROVE  HonestInv'
<1>1. CASE UNCHANGED <<data, pc, job>>
  BY <1>1 DEF data, HonestInv, HonestWhileLive
<1>2. CASE Crash
  BY <1>2, CrashFresh, FreshHonest, PTL
<1>3. ASSUME NEW w \in Workers, UpdateStep(w)
      PROVE  HonestInv'
  BY <1>2, <1>3, HonestBefore, HonestDelete, HonestBuild, HonestAfter
  DEF UpdateStep, UpdateAbort
<1> QED BY <1>1, <1>2, <1>3, HonestBefore, HonestQuiet, QuietOrUpdate

\* However updates of one executable overlap, the status code of /pp/update is
\* wrong about the parse of that request only if the trace of that parse is
\* gone: it is never that of the trace of another update while both are there.
THEOREM UpdatesAreHonest == Spec => []HonestWhileLive
<1>1. Init => HonestInv
  BY FreshHonest DEF Init, Fresh
<1>2. IInv /\ HonestInv /\ [Next]_vars => HonestInv'
  BY NextHonest
<1>3. HonestInv => HonestWhileLive
  BY DEF HonestInv
<1> QED BY <1>1, <1>2, <1>3, Inductive, PTL DEF Spec

-----------------------------------------------------------------------------
(* Silent steps                                                            *)

\* The labels that show: the manager is being rebuilt or vouched for.
Showing == {"delete", "build", "release"}

\* What the store shows.
StoreView == <<alive, trace, Rebuilding, built, At(Unannounced), lastChangeID, Vouching>>

\* Only worker w moves, to label l.
OnlyMoves(w, l) ==
  /\ Goto(w, l)
  /\ \A v \in Workers \ {w} : job'[v] = job[v]
  /\ UNCHANGED <<alive, trace, built, lastChangeID>>

Silent(w, l) ==
  /\ OnlyMoves(w, l)
  /\ pc[w] \notin Showing /\ l \notin Showing
  /\ pc[w] \in Unannounced <=> l \in Unannounced

\* A silent step does not show.
LEMMA SilentStep ==
  ASSUME IInv, NEW w \in Workers, NEW l, Silent(w, l)
  PROVE  UNCHANGED StoreView
<1>0. pc \in [Workers -> PCs] /\ pc' = [pc EXCEPT ![w] = l]
  BY DEF IInv, TypeOK, Silent, OnlyMoves, Goto
<1>1. \A v \in Workers : (pc'[v] \in Showing \/ pc[v] \in Showing) =>
         pc'[v] = pc[v] /\ job'[v] = job[v]
  BY <1>0 DEF Silent, OnlyMoves
<1>2. UNCHANGED Rebuilding
  BY <1>1 DEF Rebuilding, Showing
<1>3. UNCHANGED Vouching
  BY <1>1 DEF Vouching, Showing
<1>4. UNCHANGED At(Unannounced)
  BY AtStays DEF IInv, Silent, OnlyMoves
<1> QED BY <1>2, <1>3, <1>4 DEF StoreView, Silent, OnlyMoves

\* The steps of an update outside its critical section, and its unlock.
LEMMA UpdateSilent ==
  ASSUME IInv, NEW w \in Workers,
         \/ \E e \in Execs : UpdateFind(w, e)
         \/ UpdateInsert(w) \/ UpdateFound(w) \/ UpdateUnlock(w)
         \/ UpdateOkay(w) \/ UpdateAnswer(w)
  PROVE  UNCHANGED StoreView
<1>0. job \in [Workers -> Jobs]
  BY DEF IInv, TypeOK
<1> USE <1>0 DEF data, Goto, Silent, OnlyMoves, Showing, Unannounced
<1>1. CASE \E e \in Execs : UpdateFind(w, e)
  <2>1. Silent(w, "insert") \/ Silent(w, "found")
    BY <1>1 DEF UpdateFind
  <2> QED BY <2>1, SilentStep
<1>2. CASE UpdateInsert(w)
  <2>1. Silent(w, "lock")
    BY <1>2 DEF UpdateInsert
  <2> QED BY <2>1, SilentStep
<1>3. CASE UpdateFound(w)
  <2>1. Silent(w, "lock")
    BY <1>3 DEF UpdateFound, Manager
  <2> QED BY <2>1, SilentStep
<1>4. CASE UpdateUnlock(w)
  <2>1. Silent(w, "okay")
    BY <1>4 DEF UpdateUnlock
  <2> QED BY <2>1, SilentStep
<1>5. CASE UpdateOkay(w)
  <2>1. Silent(w, "log")
    BY <1>5 DEF UpdateOkay
  <2> QED BY <2>1, SilentStep
<1>6. CASE UpdateAnswer(w)
  <2>1. Silent(w, "ok") \/ Silent(w, "fail")
    BY <1>6 DEF UpdateAnswer, Reply, Locals
  <2> QED BY <2>1, SilentStep
<1> QED BY <1>1, <1>2, <1>3, <1>4, <1>5, <1>6

\* The steps of a status request that do not have the lock, and of queries.
LEMMA RequestSilent ==
  ASSUME IInv, NEW w \in Workers,
         \/ \E e \in Execs : StatusFind(w, e) \/ \E k \in Queries : QueryFind(w, e, k)
         \/ StatusManager(w) \/ StatusPoll(w)
         \/ QueryManager(w) \/ QueryTrace(w) \/ QueryRefuse(w) \/ QueryAnswer(w)
         \/ ListIterate(w) \/ ListSize(w) \/ Trivial(w) \/ Close(w)
  PROVE  UNCHANGED StoreView
<1>0. job \in [Workers -> Jobs]
  BY DEF IInv, TypeOK
<1> USE <1>0 DEF data, Goto, Locals, Reply, Silent, OnlyMoves, Showing, Unannounced
<1>1. CASE \E e \in Execs : StatusFind(w, e)
  <2>1. Silent(w, "poll") \/ Silent(w, "status")
    BY <1>1 DEF StatusFind
  <2> QED BY <2>1, SilentStep
<1>2. CASE \E e \in Execs, k \in Queries : QueryFind(w, e, k)
  <2>1. Silent(w, "fail") \/ Silent(w, "query")
    BY <1>2 DEF QueryFind
  <2> QED BY <2>1, SilentStep
<1>3. CASE StatusManager(w)
  <2>1. Silent(w, "try")
    BY <1>3 DEF StatusManager, Manager
  <2> QED BY <2>1, SilentStep
<1>4. CASE StatusPoll(w)
  <2>1. Silent(w, "ok")
    BY <1>4 DEF StatusPoll
  <2> QED BY <2>1, SilentStep
<1>5. CASE QueryManager(w)
  <2>1. Silent(w, "gettrace")
    BY <1>5 DEF QueryManager, Manager
  <2> QED BY <2>1, SilentStep
<1>6. CASE QueryTrace(w)
  <2>1. Silent(w, "read")
    BY <1>6 DEF QueryTrace
  <2> QED BY <2>1, SilentStep
<1>7. CASE QueryRefuse(w)
  <2>1. Silent(w, "fail")
    BY <1>7 DEF QueryRefuse
  <2> QED BY <2>1, SilentStep
<1>8. CASE QueryAnswer(w)
  <2>1. Silent(w, "ok")
    BY <1>8 DEF QueryAnswer
  <2> QED BY <2>1, SilentStep
<1>9. CASE ListIterate(w)
  <2>1. Silent(w, "size")
    BY <1>9 DEF ListIterate
  <2> QED BY <2>1, SilentStep
<1>10. CASE ListSize(w)
  <2>1. Silent(w, "ok")
    BY <1>10 DEF ListSize
  <2> QED BY <2>1, SilentStep
<1>11. CASE Trivial(w)
  <2>1. Silent(w, "ok") \/ Silent(w, "fail")
    BY <1>11 DEF Trivial, Answered
  <2> QED BY <2>1, SilentStep
<1>12. CASE Close(w)
  <2>1. Silent(w, "idle")
    BY <1>12 DEF Close, Answered
  <2> QED BY <2>1, SilentStep
<1> QED BY <1>1, <1>2, <1>3, <1>4, <1>5, <1>6, <1>7, <1>8, <1>9, <1>10, <1>11, <1>12

-----------------------------------------------------------------------------
(* Steps that show                                                         *)

\* Who is inside a critical section keeps every other worker out.
LEMMA ShowingAlone ==
  ASSUME IInv, NEW v \in Workers, NEW w \in Workers,
         pc[v] \in Holding, pc[w] \in Holding, job[v].mgr = job[w].mgr
  PROVE  v = w
BY HolderHolds

\* Taking the lock begins a build.
LEMMA LockBegins ==
  ASSUME IInv, NEW w \in Workers, UpdateLock(w)
  PROVE  Store!Begin(job[w].mgr) /\ job[w].mgr \in Managers
<1> DEFINE d == job[w].mgr
<1>0. /\ pc \in [Workers -> PCs] /\ pc' = [pc EXCEPT ![w] = "delete"] /\ pc[w] = "lock"
      /\ job' = job /\ d \in Managers /\ theLock[d] = None
  BY BoundsAssumption DEF IInv, TypeOK, LocalsSet, UpdateLock, Goto, Managers
<1>1. \A v \in Workers : pc[v] \in Showing => job[v].mgr # d
  BY <1>0, HolderHolds, NoneAssumption DEF Showing, Holding, Critical
<1>2. d \notin Rebuilding \union Vouching
  BY <1>1 DEF Rebuilding, Vouching, Showing
<1>3. Rebuilding' = Rebuilding \union {d}
  <2>1. \A v \in Workers : pc'[v] \in {"delete", "build"} <=>
                             v = w \/ pc[v] \in {"delete", "build"}
    BY <1>0
  <2> QED BY <1>0, <2>1 DEF Rebuilding
<1>4. Vouching' = Vouching
  <2>1. \A v \in Workers : pc'[v] = "release" <=> pc[v] = "release"
    BY <1>0
  <2> QED BY <1>0, <2>1 DEF Vouching
<1>5. At(Unannounced)' = At(Unannounced)
  BY AtStays DEF IInv, UpdateLock, Unannounced
<1> QED BY <1>0, <1>2, <1>3, <1>4, <1>5 DEF Store!Begin, UpdateLock

\* The delete leaves the store as it is: the build has begun already.
LEMMA DeleteShowsNothing ==
  ASSUME IInv, NEW w \in Workers, UpdateDelete(w)
  PROVE  UNCHANGED StoreView
<1>0. /\ pc \in [Workers -> PCs] /\ pc' = [pc EXCEPT ![w] = "build"] /\ pc[w] = "delete"
      /\ job' = job
  BY DEF IInv, TypeOK, UpdateDelete, Goto
<1>1. \A v \in Workers : /\ pc'[v] \in {"delete", "build"} <=> pc[v] \in {"delete", "build"}
                         /\ pc'[v] = "release" <=> pc[v] = "release"
  BY <1>0
<1>2. Rebuilding' = Rebuilding /\ Vouching' = Vouching
  BY <1>0, <1>1 DEF Rebuilding, Vouching
<1>3. At(Unannounced)' = At(Unannounced)
  BY AtStays DEF IInv, UpdateDelete, Unannounced
<1> QED BY <1>2, <1>3 DEF StoreView, UpdateDelete

\* Storing the new trace finishes it.
LEMMA BuildFinishes ==
  ASSUME IInv, NEW w \in Workers, UpdateBuild(w)
  PROVE  Store!Finish(job[w].mgr) /\ job[w].mgr \in Managers
<1> DEFINE d == job[w].mgr
<1>0. /\ pc \in [Workers -> PCs] /\ pc' = [pc EXCEPT ![w] = "unlock"] /\ pc[w] = "build"
      /\ job \in [Workers -> Jobs] /\ job' = [job EXCEPT ![w].tr = built + 1]
  BY DEF IInv, TypeOK, UpdateBuild, Goto
<1>a. d \in Managers
  BY <1>0, HolderHolds DEF Holding, Critical
<1>1. \A v \in Workers : job'[v].mgr = job[v].mgr
  BY <1>0 DEF Jobs
<1>2. d \in Rebuilding
  BY <1>0, <1>a DEF Rebuilding
<1>3. Rebuilding' = Rebuilding \ {d}
  <2>1. \A v \in Workers : pc'[v] \in {"delete", "build"} <=>
                             v # w /\ pc[v] \in {"delete", "build"}
    BY <1>0
  <2>2. \A v \in Workers : pc[v] \in {"delete", "build"} /\ job[v].mgr = d => v = w
    BY <1>0, ShowingAlone DEF Holding, Critical
  <2> QED BY <1>1, <2>1, <2>2 DEF Rebuilding
<1>4. Vouching' = Vouching
  <2>1. \A v \in Workers : pc'[v] = "release" <=> pc[v] = "release"
    BY <1>0
  <2> QED BY <1>1, <2>1 DEF Vouching
<1>5. At(Unannounced)' = At(Unannounced) + 1
  BY AtEnters DEF IInv, UpdateBuild, Unannounced
<1> QED BY <1>a, <1>2, <1>3, <1>4, <1>5 DEF Store!Finish, UpdateBuild

\* logChange announces one finished build.
LEMMA LogAnnounces ==
  ASSUME IInv, NEW w \in Workers, UpdateLog(w)
  PROVE  Store!Announce
<1>0. /\ pc \in [Workers -> PCs] /\ pc' = [pc EXCEPT ![w] = "answer"] /\ pc[w] = "log"
      /\ job' = job
  BY DEF IInv, TypeOK, UpdateLog, Goto
<1>1. \A v \in Workers : /\ pc'[v] \in {"delete", "build"} <=> pc[v] \in {"delete", "build"}
                         /\ pc'[v] = "release" <=> pc[v] = "release"
  BY <1>0
<1>2. Rebuilding' = Rebuilding /\ Vouching' = Vouching
  BY <1>0, <1>1 DEF Rebuilding, Vouching
<1>3. At(Unannounced)' = At(Unannounced) - 1
  BY AtLeaves DEF IInv, UpdateLog, Unannounced
<1>4. At(Unannounced) > 0
  BY <1>3, AtType
<1> QED BY <1>2, <1>3, <1>4 DEF Store!Announce, UpdateLog

\* A trylock that succeeds vouches for the manager; one that fails is silent.
LEMMA TryVouches ==
  ASSUME IInv, NEW w \in Workers, StatusTry(w)
  PROVE  \/ Store!Vouch(job[w].mgr) /\ job[w].mgr \in Managers
         \/ UNCHANGED StoreView
<1> DEFINE d == job[w].mgr
<1>0. /\ pc \in [Workers -> PCs] /\ pc[w] = "try" /\ d \in Managers
      /\ job \in [Workers -> Jobs]
  BY BoundsAssumption DEF IInv, TypeOK, LocalsSet, StatusTry, Managers
<1>1. CASE Goto(w, "poll") /\ Locals(w, [NoJob EXCEPT !.text = "BUSY"])
  <2>1. Silent(w, "poll")
    BY <1>0, <1>1 DEF StatusTry, Locals, Silent, OnlyMoves, Showing, Unannounced
  <2> QED BY <2>1, SilentStep
<1>2. CASE theLock[d] = None /\ Goto(w, "release") /\ UNCHANGED job
  <2>0. pc' = [pc EXCEPT ![w] = "release"]
    BY <1>2 DEF Goto
  <2>1. \A v \in Workers : pc[v] \in Showing => job[v].mgr # d
    BY <1>2, HolderHolds, NoneAssumption DEF Showing, Holding, Critical
  <2>2. d \notin Rebuilding \union Vouching
    BY <2>1 DEF Rebuilding, Vouching, Showing
  <2>3. \A v \in Workers : /\ pc'[v] \in {"delete", "build"} <=> pc[v] \in {"delete", "build"}
                           /\ pc'[v] = "release" <=> v = w \/ pc[v] = "release"
    BY <1>0, <2>0
  <2>4. Rebuilding' = Rebuilding
    BY <1>2, <2>3 DEF Rebuilding
  <2>5. Vouching' = Vouching \union {d}
    BY <1>0, <1>2, <2>3 DEF Vouching
  <2>6. At(Unannounced)' = At(Unannounced)
    BY <1>0, <1>2, AtStays DEF IInv, Unannounced
  <2> QED BY <1>0, <2>2, <2>4, <2>5, <2>6 DEF Store!Vouch, StatusTry
<1> QED BY <1>1, <1>2 DEF StatusTry

\* The unlock of a status request ends that.
LEMMA ReleaseVouched ==
  ASSUME IInv, NEW w \in Workers, StatusRelease(w)
  PROVE  Store!Vouched(job[w].mgr) /\ job[w].mgr \in Managers
<1> DEFINE d == job[w].mgr
<1>0. /\ pc \in [Workers -> PCs] /\ pc' = [pc EXCEPT ![w] = "poll"] /\ pc[w] = "release"
      /\ job \in [Workers -> Jobs] /\ \A v \in Workers \ {w} : job'[v] = job[v]
  BY DEF IInv, TypeOK, StatusRelease, Goto, Locals
<1>a. d \in Managers
  BY <1>0, HolderHolds DEF Holding
<1>1. d \in Vouching
  BY <1>0, <1>a DEF Vouching
<1>2. \A v \in Workers : /\ pc'[v] \in {"delete", "build"} <=> pc[v] \in {"delete", "build"}
                         /\ pc'[v] = "release" <=> v # w /\ pc[v] = "release"
  BY <1>0
<1>3. Rebuilding' = Rebuilding
  BY <1>0, <1>2 DEF Rebuilding
<1>4. Vouching' = Vouching \ {d}
  <2>1. \A v \in Workers : pc[v] = "release" /\ job[v].mgr = d => v = w
    BY <1>0, ShowingAlone DEF Holding
  <2> QED BY <1>0, <1>2, <2>1 DEF Vouching
<1>5. At(Unannounced)' = At(Unannounced)
  BY AtStays DEF IInv, StatusRelease, Unannounced
<1> QED BY <1>a, <1>1, <1>3, <1>4, <1>5 DEF Store!Vouched, StatusRelease

\* A process without requests is a blank store.
LEMMA NobodyShows ==
  ASSUME pc = [w \in Workers |-> "idle"]
  PROVE  Rebuilding = {} /\ Vouching = {} /\ At(Unannounced) = 0
<1>1. {w \in Workers : pc[w] \in Unannounced} = {}
  BY DEF Unannounced
<1> QED BY <1>1, FS_EmptySet DEF Rebuilding, Vouching, At

\* The death of the process loses the whole store.
LEMMA CrashLoses ==
  ASSUME Crash, alive = TRUE
  PROVE  Store!Lose
<1>1. (pc = [w \in Workers |-> "idle"])'
  BY DEF Crash
<1>2. (Rebuilding = {} /\ Vouching = {} /\ At(Unannounced) = 0)'
  BY <1>1, NobodyShows, PTL
<1> QED BY <1>2 DEF Store!Lose, Store!Blank, Crash

\* Starting it changes nothing but that it is there.
LEMMA IdleShowsNothing ==
  ASSUME UNCHANGED <<data, pc, job>>
  PROVE  UNCHANGED <<trace, Rebuilding, built, At(Unannounced), lastChangeID, Vouching>>
BY DEF data, Rebuilding, Vouching, At

-----------------------------------------------------------------------------
(* The refinement                                                          *)

\* Every step of the server is a step of the store, or does not show.
LEMMA NextRefines == IInv /\ [Next]_vars => Store!Next \/ UNCHANGED StoreView
<1> SUFFICES ASSUME IInv, [Next]_vars PROVE Store!Next \/ UNCHANGED StoreView
  OBVIOUS
<1>1. CASE alive /\ \E w \in Workers : Accept(w) \/ Close(w)
  BY <1>1, UpdateSilent, RequestSilent DEF Accept
<1>2. ASSUME alive, NEW w \in Workers, UpdateStep(w) PROVE Store!Next \/ UNCHANGED StoreView
  <2>0. alive = TRUE
    BY <1>2 DEF IInv, TypeOK
  <2>1. CASE UpdateAbort(w)
    BY <2>0, <2>1, CrashLoses DEF UpdateAbort, Store!Next
  <2>2. CASE UpdateLock(w)
    BY <2>2, LockBegins DEF Store!Next
  <2>3. CASE UpdateBuild(w)
    BY <2>3, BuildFinishes DEF Store!Next
  <2>4. CASE UpdateLog(w)
    BY <2>4, LogAnnounces DEF Store!Next
  <2> QED BY <1>2, <2>1, <2>2, <2>3, <2>4, UpdateSilent, DeleteShowsNothing DEF UpdateStep
<1>3. ASSUME alive, NEW w \in Workers, StatusStep(w) PROVE Store!Next \/ UNCHANGED StoreView
  <2>1. CASE StatusTry(w)
    BY <2>1, TryVouches DEF Store!Next
  <2>2. CASE StatusRelease(w)
    BY <2>2, ReleaseVouched DEF Store!Next
  <2> QED BY <1>3, <2>1, <2>2, RequestSilent DEF StatusStep
<1>4. ASSUME alive, NEW w \in Workers, QueryStep(w) \/ ListSize(w) \/ MapRace(w)
      PROVE  Store!Next \/ UNCHANGED StoreView
  <2>0. alive = TRUE
    BY <1>4 DEF IInv, TypeOK
  <2>1. CASE QueryCrash(w) \/ MapRace(w)
    BY <2>0, <2>1, CrashLoses DEF QueryCrash, MapRace, Store!Next
  <2> QED BY <1>4, <2>1, RequestSilent DEF QueryStep
<1>5. CASE Kill
  <2>1. alive = TRUE
    BY <1>5 DEF Kill, IInv, TypeOK
  <2> QED BY <1>5, <2>1, CrashLoses DEF Kill, Store!Next
<1>6. CASE Restart
  <2>1. Store!Return
    BY <1>6, IdleShowsNothing DEF Restart, Store!Return, Store!store
  <2> QED BY <2>1 DEF Store!Next
<1>7. CASE UNCHANGED vars
  BY <1>7, IdleShowsNothing DEF vars, StoreView
<1> QED BY <1>1, <1>2, <1>3, <1>4, <1>5, <1>6, <1>7 DEF Next, Serve

\* PervertServer implements TraceStore: whatever the number of threads,
\* executables and drivers, each manager is rebuilt by one update at a time,
\* into a trace that was never there, and announced once.
THEOREM Refinement == Spec => ImplementsStore
<1>1. Init => Store!Init
  BY NobodyShows DEF Init, Store!Init, Store!Blank
<1>2. IInv /\ [Next]_vars => [Store!Next]_<<alive, Store!store>>
  BY NextRefines DEF StoreView, Store!store
<1> QED BY <1>1, <1>2, Inductive, PTL DEF Spec, ImplementsStore, Store!Spec
=============================================================================
