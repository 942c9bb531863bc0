---------------------------- MODULE PollProofs -----------------------------
(***************************************************************************)
(* Proofs about PollSystem, for any number of pages, workers and updates.  *)
(*                                                                         *)
(* The pages see the server through its steps only, so what is proved of   *)
(* PervertServer holds under them.  What a page displays is tied to what   *)
(* the server has by PollInv: with IInv it is inductive for one executable *)
(* and up to the death of the server, as long as updates do not insert two *)
(* managers at once; otherwise they may overlap.                           *)
(***************************************************************************)
EXTENDS PollSystem, PervertServerProofs

\* A step of pages and server is one of the server, or none it notices.
LEMMA ServerSteps ==
  ASSUME [SysNext]_sysVars
  PROVE  [Next]_vars
<1>1. CASE \E c \in Clients : PageStep(c)
  <2>1. PICK c \in Clients : PageStep(c)
    BY <1>1
  <2>2. CASE PollError(c) \/ FetchError(c)
    BY <2>2 DEF PollError, FetchError
  <2>3. CASE alive /\ \E w \in Workers : \/ PollSend(c, w) \/ PollReturn(c, w)
                                         \/ PollTimeout(c, w) \/ FetchSend(c, w)
                                         \/ FetchReturn(c, w)
    <3>1. PICK w \in Workers : \/ PollSend(c, w) \/ PollReturn(c, w)
                               \/ PollTimeout(c, w) \/ FetchSend(c, w)
                               \/ FetchReturn(c, w)
      BY <2>3
    <3>2. Watched[c] \in Execs
      BY WatchedAssumption
    <3>3. CASE PollTimeout(c, w)
      BY <3>3 DEF PollTimeout
    <3>4. CASE PollSend(c, w) \/ FetchSend(c, w)
      <4>1. Accept(w)
        BY <3>2, <3>4 DEF PollSend, FetchSend, Accept, Queries
      <4> QED BY <2>3, <4>1 DEF Next
    <3>5. CASE PollReturn(c, w) \/ FetchReturn(c, w)
      <4>1. Close(w)
        BY <3>5 DEF PollReturn, FetchReturn
      <4> QED BY <2>3, <4>1 DEF Next
    <3> QED BY <3>1, <3>3, <3>4, <3>5
  <2> QED BY <2>1, <2>2, <2>3 DEF PageStep
<1>2. CASE \E w \in Workers : WorkerStep(w)
  <2>1. PICK w \in Workers : WorkerStep(w)
    BY <1>2
  <2>2. alive /\ (Accept(w) \/ Serve(w) \/ Close(w))
    BY <2>1 DEF WorkerStep, ServerStep, DriverUpdate, Discard, Accept
  <2> QED BY <2>2 DEF Next
<1>3. CASE ServerStep(Kill \/ Restart)
  BY <1>3 DEF ServerStep, Next
<1>4. CASE UNCHANGED sysVars
  BY <1>4 DEF sysVars
<1> QED BY <1>1, <1>2, <1>3, <1>4 DEF SysNext

\* Whatever pages do, the server under them is PervertServer: all that is
\* proved of it holds here.
THEOREM ServerUnderPages == SysSpec => Spec
<1>1. SysInit => Init
  BY DEF SysInit
<1> QED BY <1>1, ServerSteps, PTL DEF SysSpec, Spec

-----------------------------------------------------------------------------
(* The server, for one executable                                          *)

\* Changes are counted after the trace they announce was built.
LEMMA CountedAreBuilt ==
  ASSUME IInv
  PROVE  lastChangeID <= built
<1> DEFINE U == {w \in Workers : pc[w] \in Unbuilt}
           P == {w \in Workers : pc[w] \in Pending}
<1>1. U \subseteq P /\ IsFiniteSet(P)
  BY FS_Subset, FiniteAssumption DEF Unbuilt, Pending, Critical
<1>2. Cardinality(U) <= Cardinality(P) /\ Cardinality(U) \in Nat /\ Cardinality(P) \in Nat
  <2> HIDE DEF U, P
  <2> QED BY <1>1, FS_Subset, FS_CardinalityType
<1>3. /\ started = lastChangeID + Cardinality(P) /\ started = built + Cardinality(U)
      /\ started \in Nat /\ lastChangeID \in Nat /\ built \in Nat
  BY BoundsAssumption DEF IInv, TypeOK, ChangesAccounted, TracesAccounted, At
<1> HIDE DEF U, P
<1> QED BY <1>2, <1>3

\* Traces and changes are counted up while the process lives.
LEMMA CountsGrow ==
  ASSUME IInv, [Next]_vars, ~Crash
  PROVE  lastChangeID <= lastChangeID' /\ built <= built'
<1>1. lastChangeID \in Nat /\ built \in Nat
  BY DEF IInv, TypeOK
<1>2. lastChangeID <= lastChangeID'
  BY <1>1, OnlyLogCounts DEF vars, data
<1>3. built <= built'
  BY <1>1, OnlyBuildMoves DEF vars, data, UpdateBuild
<1> QED BY <1>2, <1>3

\* The one manager has the newest trace.
LEMMA NewestStays ==
  ASSUME IInv, ReachInv, NewestInv, InsertsAlone', NEW e, Execs = {e}, [Next]_vars
  PROVE  NewestInv'
<1> USE BoundsAssumption DEF Null
<1>1. CASE Crash
  BY <1>1 DEF Crash, NewestInv
<1>2. CASE ~Crash /\ made' # made
  <2>1. PICK w \in Workers : UpdateFind(w, e) /\ Missing(w, e) /\ made' = made + 1
    BY <1>2, OnlyFindMakes DEF vars, data
  <2>2. UNCHANGED <<trace, built>>
    BY <2>1 DEF UpdateFind
  <2>3. \A v \in Workers : pc[v] # "insert"
    <3>1. /\ pc[w] = "idle" /\ pc'[w] = "insert"
          /\ \A v \in Workers \ {w} : pc'[v] = pc[v]
      BY <2>1 DEF UpdateFind, Goto, IInv, TypeOK
    <3> QED BY <3>1 DEF InsertsAlone
  <2>4. dms[e] = 0
    BY <2>1, <2>3 DEF Missing, Inserting
  <2>5. made = 0
    BY <2>3, <2>4 DEF ReachInv, NoOrphanManager, IInv, TypeOK
  <2> QED BY <2>1, <2>2, <2>5 DEF NewestInv
<1>3. CASE ~Crash /\ made' = made
  <2>1. CASE UNCHANGED <<trace, built>>
    BY <1>3, <2>1 DEF NewestInv
  <2>2. CASE ~ UNCHANGED <<trace, built>>
    <3>1. PICK w \in Workers : UpdateBuild(w)
      BY <1>3, <2>2, OnlyBuildMoves DEF vars, data
    <3>2. job[w].mgr \in 1 .. made
      BY <3>1, HolderHolds DEF UpdateBuild, Holding, Critical
    <3>3. job[w].mgr = 1
      BY <3>2 DEF NewestInv, IInv, TypeOK
    <3> QED BY <1>3, <3>1, <3>3 DEF UpdateBuild, NewestInv, IInv, TypeOK
  <2> QED BY <2>1, <2>2
<1> QED BY <1>1, <1>2, <1>3

-----------------------------------------------------------------------------
(* Pages and connections                                                   *)

\* A connection belongs to a page, or it is none.
LEMMA NoConnection ==
  ASSUME NEW c \in Clients
  PROVE  <<c, "poll">> # None /\ <<c, "data">> # None
BY ClientsAssumption

\* Worker w gives page c, at the end of the step, what its requests promise.
Answers(w, c) ==
  /\ conn'[w] = <<c, "poll">> =>
       /\ pc'[w] \in {"status", "try", "release", "poll", "ok"}
       /\ pc'[w] = "ok" => job'[w].num <= lastChangeID'
  /\ conn'[w] = <<c, "data">> =>
       /\ page'[c].fetch = "sent" /\ \A v \in Workers : conn'[v] = conn'[w] => v = w
       /\ pc'[w] \in {"query", "gettrace", "read", "ok", "fail"}
       /\ pc'[w] = "read" => AsNew(c, job[w].tr)'
       /\ pc'[w] = "ok" => AsNew(c, job[w].num)'

\* A step that concerns the workers in M only, and of the pages none whose data
\* is on its way from another, keeps the connections right if these do.
LEMMA ConnectionsStay ==
  ASSUME IInv, ConnInv, NEW M, M \subseteq Workers,
         conn' \in [Workers -> (Clients \X {"poll", "data"}) \union {None}],
         alive => alive', lastChangeID <= lastChangeID', built <= built',
         lastChangeID' \in Nat, built' \in Nat,
         \A v \in Workers \ M :
           pc'[v] = pc[v] /\ job'[v] = job[v] /\ conn'[v] \in {conn[v], None},
         \A c \in Clients, v \in Workers \ M :
           conn'[v] = <<c, "data">> =>
             /\ page'[c].last = page[c].last /\ page'[c].view = page[c].view
             /\ page'[c].fetch = page[c].fetch,
         \A v \in M : (conn'[v] # None => alive') /\ \A c \in Clients : Answers(v, c)
  PROVE  ConnInv'
<1>1. ASSUME NEW w \in Workers, NEW c \in Clients, w \notin M
      PROVE  (conn'[w] # None => alive') /\ Answers(w, c)
  <2>1. pc'[w] = pc[w] /\ job'[w] = job[w] /\ (conn'[w] # None => conn'[w] = conn[w] /\ alive)
    BY <1>1 DEF ConnInv
  <2>2. job[w].num \in Nat /\ job[w].tr \in Nat /\ built \in Nat /\ lastChangeID \in Nat
    BY BoundsAssumption DEF IInv, TypeOK, Jobs
  <2>3. conn'[w] # None => alive'
    BY <2>1
  <2>4. CASE conn'[w] = <<c, "poll">>
    <3>1. conn[w] = <<c, "poll">>
      BY <2>1, <2>4, NoConnection
    <3> QED BY <2>1, <2>2, <2>3, <2>4, <3>1 DEF ConnInv, Answers
  <2>5. CASE conn'[w] = <<c, "data">>
    <3>1. conn[w] = <<c, "data">>
      BY <2>1, <2>5, NoConnection
    <3>2. \A v \in Workers : conn'[v] = conn'[w] => v = w
      <4>1. ASSUME NEW v \in Workers, conn'[v] = conn'[w]
            PROVE  v = w
        <5>1. CASE v \in M
          BY <1>1, <2>5, <4>1, <5>1 DEF Answers
        <5>2. CASE v \notin M
          BY <2>5, <3>1, <4>1, <5>2, NoConnection DEF ConnInv
        <5> QED BY <5>1, <5>2
      <4> QED BY <4>1
    <3>3. page'[c].last = page[c].last /\ page'[c].view = page[c].view /\ page'[c].fetch = "sent"
      BY <1>1, <2>5, <3>1 DEF ConnInv
    <3>4. /\ pc[w] \in {"query", "gettrace", "read", "ok", "fail"}
          /\ pc[w] = "read" => AsNew(c, job[w].tr)
          /\ pc[w] = "ok" => AsNew(c, job[w].num)
      BY <3>1 DEF ConnInv
    <3>5. /\ pc[w] = "read" => AsNew(c, job[w].tr)'
          /\ pc[w] = "ok" => AsNew(c, job[w].num)'
      BY <2>1, <2>2, <3>3, <3>4 DEF AsNew
    <3> QED BY <2>1, <2>3, <2>5, <3>2, <3>3, <3>4, <3>5, NoConnection DEF Answers
  <2> QED BY <2>3, <2>4, <2>5 DEF Answers
<1>2. ASSUME NEW w \in Workers, NEW c \in Clients
      PROVE  (conn'[w] # None => alive') /\ Answers(w, c)
  BY <1>1, <1>2
<1> QED BY <1>2 DEF ConnInv, Answers

\* What a page may become: p, in a step of the server that keeps the counts.
MayBecome(c, p) ==
  /\ p \in Pages
  /\ alive => p.last <= lastChangeID /\ p.view <= built
  /\ p.fetch \in {"due", "sent"} => p.good
  /\ p.good /\ p.fetch = "done" => p.view >= p.last

\* Such a page keeps the pages right.
LEMMA PagesStay ==
  ASSUME PageInv, NEW c \in Clients, NEW p, MayBecome(c, p),
         page' = [page EXCEPT ![c] = p],
         UNCHANGED <<alive, lastChangeID, built>>
  PROVE  PageInv'
BY DEF PageInv, MayBecome, ViewNotOlderThanChange

-----------------------------------------------------------------------------
(* Steps of the server                                                     *)

\* A worker moves itself only.
LEMMA ServeMovesOne ==
  ASSUME IInv, NEW w \in Workers, Serve(w), ~Crash
  PROVE  alive' = alive /\ \A v \in Workers \ {w} : pc'[v] = pc[v] /\ job'[v] = job[v]
<1> USE DEF data, Goto, Locals, Reply, Manager
<1>0. pc \in [Workers -> PCs] /\ job \in [Workers -> Jobs]
  BY DEF IInv, TypeOK
<1>1. CASE UpdateStep(w)
  BY <1>0, <1>1 DEF UpdateStep, UpdateInsert, UpdateFound, UpdateLock, UpdateDelete,
     UpdateBuild, UpdateAbort, UpdateUnlock, UpdateOkay, UpdateLog, UpdateAnswer
<1>2. CASE StatusStep(w)
  BY <1>0, <1>2 DEF StatusStep, StatusManager, StatusTry, StatusRelease, StatusPoll
<1>3. CASE QueryStep(w)
  BY <1>0, <1>3 DEF QueryStep, QueryManager, QueryTrace, QueryCrash, QueryRefuse, QueryAnswer
<1>4. CASE ListSize(w) \/ MapRace(w)
  BY <1>0, <1>4 DEF ListSize, MapRace
<1> QED BY <1>1, <1>2, <1>3, <1>4 DEF Serve

\* The trace that getTrace() hands out is as new as all a page has seen.
LEMMA NewestIsAsNew ==
  ASSUME IInv, NewestInv, PageInv, alive, NEW c \in Clients, NEW d \in 1 .. made
  PROVE  AsNew(c, trace[d])
<1>1. trace[d] = built
  BY BoundsAssumption DEF NewestInv, IInv, TypeOK, Managers
<1>2. page[c].last <= lastChangeID /\ page[c].view <= built
  BY DEF PageInv
<1>3. page[c] \in Pages
  BY DEF PageInv
<1>4. page[c].last \in Int /\ page[c].view \in Nat
  BY <1>3 DEF Pages
<1>5. lastChangeID \in Nat /\ built \in Nat
  BY DEF IInv, TypeOK
<1> QED BY <1>1, <1>2, <1>4, <1>5, CountedAreBuilt DEF AsNew

\* A worker that serves a page goes on to what was promised to the page.
LEMMA ServeAnswers ==
  ASSUME IInv, NewestInv, ConnInv, PageInv, alive, NEW w \in Workers, NEW c \in Clients,
         Serve(w), ~Crash, conn' = conn, page' = page
  PROVE  Answers(w, c)
<1> USE DEF Goto, Locals, Reply, Manager, data
<1>0. pc \in [Workers -> PCs] /\ job \in [Workers -> Jobs] /\ job[w] \in Jobs
  BY DEF IInv, TypeOK
<1>1. CASE conn[w] = <<c, "poll">>
  <2>1. pc[w] \in {"status", "try", "release", "poll", "ok"}
    BY <1>1 DEF ConnInv
  <2>2. StatusStep(w)
    BY <2>1 DEF Serve, UpdateStep, UpdateInsert, UpdateFound, UpdateLock, UpdateDelete,
       UpdateBuild, UpdateAbort, UpdateUnlock, UpdateOkay, UpdateLog, UpdateAnswer, QueryStep,
       QueryManager, QueryTrace, QueryCrash, QueryRefuse, QueryAnswer, ListSize, MapRace
  <2>3. pc'[w] \in {"try", "release", "poll", "ok"}
    BY <1>0, <2>2 DEF StatusStep, StatusManager, StatusTry, StatusRelease, StatusPoll
  <2>4. pc'[w] = "ok" => job'[w].num = lastChangeID /\ lastChangeID' = lastChangeID
    BY <1>0, <2>2
    DEF StatusStep, StatusManager, StatusTry, StatusRelease, StatusPoll, NoJob
  <2>5. lastChangeID \in Nat
    BY DEF IInv, TypeOK
  <2>6. conn'[w] # <<c, "data">>
    BY <1>1
  <2> QED BY <2>3, <2>4, <2>5, <2>6 DEF Answers
<1>2. CASE conn[w] = <<c, "data">>
  <2>1. /\ pc[w] \in {"query", "gettrace", "read", "ok", "fail"}
        /\ page[c].fetch = "sent" /\ \A v \in Workers : conn[v] = conn[w] => v = w
        /\ pc[w] = "read" => AsNew(c, job[w].tr)
    BY <1>2 DEF ConnInv
  <2>2. QueryStep(w)
    BY <2>1 DEF Serve, UpdateStep, UpdateInsert, UpdateFound, UpdateLock, UpdateDelete,
       UpdateBuild, UpdateAbort, UpdateUnlock, UpdateOkay, UpdateLog, UpdateAnswer, StatusStep,
       StatusManager, StatusTry, StatusRelease, StatusPoll, ListSize, MapRace
  <2>3. pc'[w] \in {"gettrace", "read", "ok", "fail"} /\ built' = built
    BY <1>0, <2>2
    DEF QueryStep, QueryManager, QueryTrace, QueryCrash, QueryRefuse, QueryAnswer
  <2>4. pc'[w] = "read" => job[w].mgr \in 1 .. made /\ job'[w].tr = trace[job[w].mgr]
    BY <1>0, <2>2 DEF QueryStep, QueryManager, QueryTrace, QueryCrash, QueryRefuse,
       QueryAnswer, NoJob, IInv, LocalsSet
  <2>5. pc'[w] = "ok" => pc[w] = "read" /\ job'[w].num = job[w].tr
    BY <1>0, <2>2 DEF QueryStep, QueryManager, QueryTrace, QueryCrash, QueryRefuse,
       QueryAnswer, NoJob
  <2>6. pc'[w] = "read" => AsNew(c, job[w].tr)'
    BY <2>3, <2>4, NewestIsAsNew DEF AsNew
  <2>7. pc'[w] = "ok" => AsNew(c, job[w].num)'
    BY <2>1, <2>3, <2>5 DEF AsNew
  <2>8. conn'[w] # <<c, "poll">>
    BY <1>2
  <2> QED BY <2>1, <2>3, <2>6, <2>7, <2>8 DEF Answers
<1> QED BY <1>1, <1>2 DEF Answers

\* A step of a request keeps connections and pages right.
LEMMA ServeKeeps ==
  ASSUME IInv, NewestInv, ConnInv, PageInv, alive, NEW w \in Workers, Serve(w), ~Crash,
         conn' = conn, page' = page
  PROVE  ConnInv' /\ PageInv'
<1>1. Next
  BY DEF Next
<1>2. lastChangeID <= lastChangeID' /\ built <= built'
  BY <1>1, CountsGrow
<1>3. /\ lastChangeID \in Nat /\ built \in Nat
      /\ lastChangeID' \in Nat /\ built' \in Nat
  BY <1>1, NextIInv DEF IInv, TypeOK
<1>4. alive' = alive /\ \A v \in Workers \ {w} : pc'[v] = pc[v] /\ job'[v] = job[v]
  BY ServeMovesOne
<1>5. \A c \in Clients : Answers(w, c)
  BY ServeAnswers
<1>6. ConnInv'
  <2>1. conn' \in [Workers -> (Clients \X {"poll", "data"}) \union {None}]
    BY DEF ConnInv
  <2>2. \A v \in {w} : (conn'[v] # None => alive') /\ \A c \in Clients : Answers(v, c)
    BY <1>4, <1>5
  <2>3. \A v \in Workers \ {w} :
          pc'[v] = pc[v] /\ job'[v] = job[v] /\ conn'[v] \in {conn[v], None}
    BY <1>4
  <2>4. \A c \in Clients, v \in Workers \ {w} :
           conn'[v] = <<c, "data">> =>
             /\ page'[c].last = page[c].last /\ page'[c].view = page[c].view
             /\ page'[c].fetch = page[c].fetch
    OBVIOUS
  <2>5. {w} \subseteq Workers /\ (alive => alive')
    BY <1>4
  <2> DEFINE M == {w}
  <2>6. /\ M \subseteq Workers
        /\ \A v \in Workers \ M :
             pc'[v] = pc[v] /\ job'[v] = job[v] /\ conn'[v] \in {conn[v], None}
        /\ \A c \in Clients, v \in Workers \ M :
             conn'[v] = <<c, "data">> =>
               /\ page'[c].last = page[c].last /\ page'[c].view = page[c].view
               /\ page'[c].fetch = page[c].fetch
        /\ \A v \in M : (conn'[v] # None => alive') /\ \A c \in Clients : Answers(v, c)
    BY <2>2, <2>3, <2>4, <2>5
  <2> HIDE DEF M
  <2> QED BY <1>2, <1>3, <2>1, <2>5, <2>6, ConnectionsStay
<1>7. PageInv'
  <2>1. \A c \in Clients : page[c].last \in Int /\ page[c].view \in Nat
    BY DEF PageInv, Pages
  <2> HIDE DEF Pages
  <2> QED BY <1>2, <1>3, <1>4, <2>1 DEF PageInv, ViewNotOlderThanChange
<1> QED BY <1>6, <1>7

\* A death of the server takes the connections; the pages stay as they are.
LEMMA CrashKeeps ==
  ASSUME PageInv, ~alive', conn' = [w \in Workers |-> None], page' = page
  PROVE  ConnInv' /\ PageInv'
<1>1. ConnInv'
  BY NoConnection DEF ConnInv
<1>2. PageInv'
  BY DEF PageInv, ViewNotOlderThanChange
<1> QED BY <1>1, <1>2

-----------------------------------------------------------------------------
(* Steps of the pages                                                      *)

\* ConnectionsStay, when one worker moves and the server counts nothing.
LEMMA OthersStay ==
  ASSUME IInv, ConnInv, NEW w \in Workers,
         conn' \in [Workers -> (Clients \X {"poll", "data"}) \union {None}],
         UNCHANGED <<alive, lastChangeID, built>>,
         \A v \in Workers \ {w} :
           pc'[v] = pc[v] /\ job'[v] = job[v] /\ conn'[v] \in {conn[v], None},
         \A c \in Clients, v \in Workers \ {w} :
           conn'[v] = <<c, "data">> =>
             /\ page'[c].last = page[c].last /\ page'[c].view = page[c].view
             /\ page'[c].fetch = page[c].fetch,
         conn'[w] # None => alive, \A c \in Clients : Answers(w, c)
  PROVE  ConnInv'
<1> DEFINE M == {w}
<1>1. lastChangeID \in Nat /\ built \in Nat
  BY DEF IInv, TypeOK
<1>2. /\ M \subseteq Workers /\ (alive => alive')
      /\ lastChangeID <= lastChangeID' /\ built <= built'
      /\ lastChangeID' \in Nat /\ built' \in Nat
      /\ \A v \in Workers \ M :
           pc'[v] = pc[v] /\ job'[v] = job[v] /\ conn'[v] \in {conn[v], None}
      /\ \A c \in Clients, v \in Workers \ M :
           conn'[v] = <<c, "data">> =>
             /\ page'[c].last = page[c].last /\ page'[c].view = page[c].view
             /\ page'[c].fetch = page[c].fetch
      /\ \A v \in M : (conn'[v] # None => alive') /\ \A c \in Clients : Answers(v, c)
  BY <1>1
<1> HIDE DEF M
<1> QED BY <1>2, ConnectionsStay

\* A poll is sent.
LEMMA PollSendKeeps ==
  ASSUME IInv, ConnInv, PageInv, alive, NEW c \in Clients, NEW w \in Workers, PollSend(c, w)
  PROVE  ConnInv' /\ PageInv'
<1> USE DEF Goto, Locals, data
<1>0. /\ pc \in [Workers -> PCs] /\ job \in [Workers -> Jobs]
      /\ conn \in [Workers -> (Clients \X {"poll", "data"}) \union {None}]
      /\ page \in [Clients -> Pages] /\ page[c] \in Pages
  BY DEF IInv, TypeOK, ConnInv, PageInv
<1>1. /\ conn' = [conn EXCEPT ![w] = <<c, "poll">>]
      /\ pc'[w] \in {"poll", "status"}
      /\ \A v \in Workers \ {w} : pc'[v] = pc[v] /\ job'[v] = job[v]
      /\ UNCHANGED <<alive, lastChangeID, built>>
  BY <1>0 DEF PollSend, StatusFind
<1> DEFINE p == [page[c] EXCEPT !.poll = "sent"]
<1>2. /\ p.last = page[c].last /\ p.view = page[c].view /\ p.good = page[c].good
      /\ p.fetch = page[c].fetch /\ p \in Pages
  BY <1>0 DEF Pages
<1>3. page' = [page EXCEPT ![c] = p]
  BY DEF PollSend
<1> HIDE DEF p
<1>4. PageInv'
  <2>1. MayBecome(c, p)
    BY <1>2 DEF MayBecome, PageInv, ViewNotOlderThanChange
  <2> QED BY <1>1, <1>3, <2>1, PagesStay
<1>5. ConnInv'
  <2>1. \A d \in Clients : Answers(w, d)
    BY <1>0, <1>1 DEF Answers
  <2>2. \A d \in Clients : /\ page'[d].last = page[d].last /\ page'[d].view = page[d].view
                           /\ page'[d].fetch = page[d].fetch
    BY <1>0, <1>2, <1>3
  <2>3. conn' \in [Workers -> (Clients \X {"poll", "data"}) \union {None}]
    BY <1>0, <1>1
  <2> QED BY <1>0, <1>1, <2>1, <2>2, <2>3, OthersStay
<1> QED BY <1>4, <1>5

\* A request for data is sent: it was due, so no other is on its way.
LEMMA FetchSendKeeps ==
  ASSUME IInv, ConnInv, PageInv, alive, NEW c \in Clients, NEW w \in Workers, FetchSend(c, w)
  PROVE  ConnInv' /\ PageInv'
<1> USE DEF Goto, Locals, Reply, data
<1>0. /\ pc \in [Workers -> PCs] /\ job \in [Workers -> Jobs]
      /\ conn \in [Workers -> (Clients \X {"poll", "data"}) \union {None}]
      /\ page \in [Clients -> Pages] /\ page[c] \in Pages
      /\ page[c].fetch = "due" /\ page[c].good
  BY DEF IInv, TypeOK, ConnInv, PageInv, FetchSend
<1>1. /\ conn' = [conn EXCEPT ![w] = <<c, "data">>]
      /\ pc'[w] \in {"query", "fail"}
      /\ \A v \in Workers \ {w} : pc'[v] = pc[v] /\ job'[v] = job[v]
      /\ UNCHANGED <<alive, lastChangeID, built>>
  BY <1>0 DEF FetchSend, QueryFind
<1> DEFINE p == [page[c] EXCEPT !.fetch = "sent"]
<1>2. /\ p.last = page[c].last /\ p.view = page[c].view /\ p.good = page[c].good
      /\ p.fetch = "sent" /\ p \in Pages
  BY <1>0 DEF Pages
<1>3. page' = [page EXCEPT ![c] = p]
  BY DEF FetchSend
<1> HIDE DEF p
<1>4. PageInv'
  <2>1. MayBecome(c, p)
    BY <1>0, <1>2 DEF MayBecome, PageInv
  <2> QED BY <1>1, <1>3, <2>1, PagesStay
<1>5. \A v \in Workers : conn[v] # <<c, "data">>
  BY <1>0 DEF ConnInv
<1>6. ConnInv'
  <2>1. ASSUME NEW d \in Clients
        PROVE  Answers(w, d)
    <3>1. CASE d = c
      BY <1>0, <1>1, <1>2, <1>3, <1>5, <3>1 DEF Answers
    <3>2. CASE d # c
      BY <1>0, <1>1, <3>2 DEF Answers
    <3> QED BY <3>1, <3>2
  <2>2. \A d \in Clients, v \in Workers \ {w} :
          conn'[v] = <<d, "data">> =>
            /\ page'[d].last = page[d].last /\ page'[d].view = page[d].view
            /\ page'[d].fetch = page[d].fetch
    BY <1>0, <1>1, <1>3, <1>5
  <2>3. conn' \in [Workers -> (Clients \X {"poll", "data"}) \union {None}]
    BY <1>0, <1>1
  <2> QED BY <1>0, <1>1, <2>1, <2>2, <2>3, OthersStay
<1> QED BY <1>4, <1>6

\* Data comes: it is as new as all the page has seen.
LEMMA FetchReturnKeeps ==
  ASSUME IInv, ConnInv, PageInv, alive, NEW c \in Clients, NEW w \in Workers,
         FetchReturn(c, w)
  PROVE  ConnInv' /\ PageInv'
<1> USE DEF Goto, data
<1>0. /\ pc \in [Workers -> PCs] /\ job \in [Workers -> Jobs] /\ job[w] \in Jobs
      /\ conn \in [Workers -> (Clients \X {"poll", "data"}) \union {None}]
      /\ page \in [Clients -> Pages] /\ page[c] \in Pages
      /\ conn[w] = <<c, "data">> /\ page[c].fetch = "sent" /\ page[c].good
      /\ \A v \in Workers : conn[v] = conn[w] => v = w
      /\ pc[w] = "ok" => AsNew(c, job[w].num)
  BY DEF IInv, TypeOK, ConnInv, PageInv, FetchReturn
<1>1. /\ conn' = [conn EXCEPT ![w] = None]
      /\ \A v \in Workers \ {w} : pc'[v] = pc[v] /\ job'[v] = job[v]
      /\ UNCHANGED <<alive, lastChangeID, built>>
  BY <1>0 DEF FetchReturn, Close, Drop
<1> DEFINE p == IF pc[w] = "ok" THEN [page[c] EXCEPT !.fetch = "done", !.view = job[w].num]
                                ELSE [page[c] EXCEPT !.fetch = "none"]
<1>2. /\ p \in Pages /\ p.last = page[c].last /\ p.good = page[c].good
      /\ \/ p.fetch = "done" /\ p.view = job[w].num /\ pc[w] = "ok"
         \/ p.fetch = "none" /\ p.view = page[c].view
  BY <1>0 DEF Pages, Jobs
<1>3. page' = [page EXCEPT ![c] = p]
  BY <1>0 DEF FetchReturn
<1> HIDE DEF p
<1>4. PageInv'
  <2>1. MayBecome(c, p)
    BY <1>0, <1>2 DEF MayBecome, PageInv, AsNew
  <2> QED BY <1>1, <1>3, <2>1, PagesStay
<1>5. ConnInv'
  <2>1. conn'[w] = None
    BY <1>0, <1>1
  <2>2. \A d \in Clients : Answers(w, d)
    BY <2>1, NoConnection DEF Answers
  <2>3. \A d \in Clients, v \in Workers \ {w} :
          conn'[v] = <<d, "data">> =>
            /\ page'[d].last = page[d].last /\ page'[d].view = page[d].view
            /\ page'[d].fetch = page[d].fetch
    BY <1>0, <1>1, <1>3
  <2>4. conn' \in [Workers -> (Clients \X {"poll", "data"}) \union {None}]
    BY <1>0, <1>1
  <2> QED BY <1>0, <1>1, <2>1, <2>2, <2>3, <2>4, OthersStay
<1> QED BY <1>4, <1>5

\* A poll returns: the page notes the counter, and a new one ends what was
\* under way.
LEMMA PollReturnKeeps ==
  ASSUME IInv, ConnInv, PageInv, alive, NEW c \in Clients, NEW w \in Workers,
         PollReturn(c, w)
  PROVE  ConnInv' /\ PageInv'
<1> USE DEF Goto, data
<1>0. /\ pc \in [Workers -> PCs] /\ job \in [Workers -> Jobs] /\ job[w] \in Jobs
      /\ conn \in [Workers -> (Clients \X {"poll", "data"}) \union {None}]
      /\ page \in [Clients -> Pages] /\ page[c] \in Pages
      /\ conn[w] = <<c, "poll">> /\ job[w].num <= lastChangeID
  BY DEF IInv, TypeOK, ConnInv, PageInv, PollReturn
<1>1. /\ \A v \in Workers \ {w} : pc'[v] = pc[v] /\ job'[v] = job[v]
      /\ UNCHANGED <<alive, lastChangeID, built>>
  BY <1>0 DEF PollReturn, Close
<1> DEFINE q == [page[c] EXCEPT !.last = job[w].num, !.shown = job[w].text, !.poll = "due"]
           p == HandlePoll(page[c], job[w].num, job[w].text)
<1>2. /\ q \in Pages /\ q.last = job[w].num /\ q.good = page[c].good
      /\ q.fetch = page[c].fetch /\ q.view = page[c].view
  <2>1. job[w].num \in Int /\ job[w].text \in Texts
    BY <1>0 DEF Jobs
  <2> QED BY <1>0, <2>1 DEF Pages
<1>3. \/ page[c].last = job[w].num /\ p = q
      \/ page[c].last # job[w].num /\ p = InitPage(q)
      \/ page[c].last # job[w].num /\ p = CleanPage(q)
  BY DEF HandlePoll
<1> HIDE DEF q
<1>4. page' = [page EXCEPT ![c] = p]
  BY DEF PollReturn
<1>5. /\ p \in Pages /\ p.last = job[w].num /\ p.view = page[c].view
      /\ \/ page[c].last = p.last /\ p.good = page[c].good /\ p.fetch = page[c].fetch
         \/ page[c].last # p.last /\ p.good /\ p.fetch = "due"
         \/ page[c].last # p.last /\ ~p.good /\ p.fetch \in {"none", "done"}
  <2> HIDE DEF p
  <2>1. CASE page[c].last = job[w].num /\ p = q
    BY <1>2, <2>1
  <2>2. CASE page[c].last # job[w].num /\ p = InitPage(q)
    BY <1>2, <2>2 DEF InitPage, Pages
  <2>3. CASE page[c].last # job[w].num /\ p = CleanPage(q)
    BY <1>2, <2>3 DEF CleanPage, Pages
  <2> QED BY <1>3, <2>1, <2>2, <2>3
<1> HIDE DEF p
<1>6. PageInv'
  <2>1. MayBecome(c, p)
    BY <1>0, <1>5 DEF MayBecome, PageInv, ViewNotOlderThanChange
  <2> QED BY <1>1, <1>4, <2>1, PagesStay
<1>7. /\ conn' \in [Workers -> (Clients \X {"poll", "data"}) \union {None}]
      /\ conn'[w] = None
      /\ \A v \in Workers \ {w} : conn'[v] \in {conn[v], None}
      /\ page[c].last # job[w].num => \A v \in Workers : conn'[v] # <<c, "data">>
  BY <1>0, NoConnection DEF PollReturn, Drop, Abort
<1>8. ConnInv'
  <2>1. \A d \in Clients : Answers(w, d)
    BY <1>7, NoConnection DEF Answers
  <2>2. ASSUME NEW d \in Clients, NEW v \in Workers \ {w}, conn'[v] = <<d, "data">>
        PROVE  /\ page'[d].last = page[d].last /\ page'[d].view = page[d].view
               /\ page'[d].fetch = page[d].fetch
    <3>1. CASE d # c
      BY <1>0, <1>4, <3>1
    <3>2. CASE d = c
      <4>1. page[c].last = p.last
        BY <1>5, <1>7, <2>2, <3>2
      <4> QED BY <1>0, <1>4, <1>5, <3>2, <4>1
    <3> QED BY <3>1, <3>2
  <2> QED BY <1>1, <1>7, <2>1, <2>2, OthersStay
<1> QED BY <1>6, <1>8

\* A step that moves no worker and changes only what page c shows, its timer,
\* and a request for data that is not under way any more.
LEMMA ErrorKeeps ==
  ASSUME IInv, ConnInv, PageInv, NEW c \in Clients, NEW p, p \in Pages,
         p.last = page[c].last, p.view = page[c].view, p.good = page[c].good,
         \/ p.fetch = page[c].fetch
         \/ p.fetch = "none" /\ \A v \in Workers : conn'[v] # <<c, "data">>,
         page' = [page EXCEPT ![c] = p], UNCHANGED vars,
         conn' \in [Workers -> (Clients \X {"poll", "data"}) \union {None}],
         \A v \in Workers : conn'[v] \in {conn[v], None}
  PROVE  ConnInv' /\ PageInv'
<1>0. /\ UNCHANGED <<alive, lastChangeID, built, pc, job>>
      /\ page \in [Clients -> Pages] /\ page[c] \in Pages
      /\ lastChangeID \in Nat /\ built \in Nat
  BY DEF vars, data, PageInv, IInv, TypeOK
<1>1. MayBecome(c, p)
  BY <1>0 DEF MayBecome, PageInv, ViewNotOlderThanChange
<1>2. PageInv'
  BY <1>0, <1>1, PagesStay
<1>3. ConnInv'
  <2> DEFINE M == {}
  <2>1. ASSUME NEW d \in Clients, NEW v \in Workers, conn'[v] = <<d, "data">>
        PROVE  /\ page'[d].last = page[d].last /\ page'[d].view = page[d].view
               /\ page'[d].fetch = page[d].fetch
    BY <1>0, <2>1
  <2>2. /\ M \subseteq Workers /\ (alive => alive')
        /\ lastChangeID <= lastChangeID' /\ built <= built'
        /\ lastChangeID' \in Nat /\ built' \in Nat
        /\ \A v \in Workers \ M :
             pc'[v] = pc[v] /\ job'[v] = job[v] /\ conn'[v] \in {conn[v], None}
        /\ \A d \in Clients, v \in Workers \ M :
             conn'[v] = <<d, "data">> =>
               /\ page'[d].last = page[d].last /\ page'[d].view = page[d].view
               /\ page'[d].fetch = page[d].fetch
        /\ \A v \in M : (conn'[v] # None => alive') /\ \A d \in Clients : Answers(v, d)
    BY <1>0, <2>1
  <2> HIDE DEF M
  <2> QED BY <2>2, ConnectionsStay
<1> QED BY <1>2, <1>3

\* A poll times out, or an error comes back.
LEMMA ErrorsKeep ==
  ASSUME IInv, ConnInv, PageInv, NEW c \in Clients,
         (\E w \in Workers : PollTimeout(c, w)) \/ PollError(c) \/ FetchError(c)
  PROVE  ConnInv' /\ PageInv'
<1>0. /\ page \in [Clients -> Pages] /\ page[c] \in Pages
      /\ conn \in [Workers -> (Clients \X {"poll", "data"}) \union {None}]
      /\ \A v \in Workers : conn[v] # None => alive
  BY DEF PageInv, ConnInv
<1>1. CASE (\E w \in Workers : PollTimeout(c, w)) \/ PollError(c)
  <2> DEFINE p == HandlePollError(page[c])
  <2>1. /\ p \in Pages /\ p.last = page[c].last /\ p.view = page[c].view
        /\ p.good = page[c].good /\ p.fetch = page[c].fetch
    BY <1>0 DEF HandlePollError, Pages
  <2>2. /\ page' = [page EXCEPT ![c] = p] /\ UNCHANGED vars
        /\ conn' \in [Workers -> (Clients \X {"poll", "data"}) \union {None}]
        /\ \A v \in Workers : conn'[v] \in {conn[v], None}
    BY <1>0, <1>1 DEF PollTimeout, PollError, Drop
  <2> HIDE DEF p
  <2> QED BY <2>1, <2>2, ErrorKeeps
<1>2. CASE FetchError(c)
  <2> DEFINE p == [page[c] EXCEPT !.fetch = "none"]
  <2>1. /\ p \in Pages /\ p.last = page[c].last /\ p.view = page[c].view
        /\ p.good = page[c].good /\ p.fetch = "none"
    BY <1>0 DEF Pages
  <2>2. page' = [page EXCEPT ![c] = p] /\ UNCHANGED vars /\ conn' = conn
    BY <1>2 DEF FetchError
  <2>3. \A v \in Workers : conn[v] # <<c, "data">>
    <3>1. CASE ~alive
      BY <1>0, <3>1, NoConnection
    <3>2. CASE page[c].fetch = "due"
      BY <3>2 DEF ConnInv
    <3>3. CASE Lost(c, "data")
      BY <3>3 DEF Lost
    <3> QED BY <1>2, <3>1, <3>2, <3>3 DEF FetchError
  <2> HIDE DEF p
  <2> QED BY <1>0, <2>1, <2>2, <2>3, ErrorKeeps
<1> QED BY <1>1, <1>2

\* An update is accepted, or a connection nobody waits for is closed: no page
\* notices.
LEMMA UnseenKeeps ==
  ASSUME IInv, ConnInv, PageInv, alive, NEW w \in Workers,
         ServerStep(DriverUpdate(w)) \/ Discard(w)
  PROVE  ConnInv' /\ PageInv'
<1> USE DEF Goto, data
<1>0. /\ pc \in [Workers -> PCs] /\ job \in [Workers -> Jobs]
      /\ conn \in [Workers -> (Clients \X {"poll", "data"}) \union {None}]
  BY DEF IInv, TypeOK, ConnInv
<1>1. /\ UNCHANGED <<alive, lastChangeID, built, page, conn>>
      /\ \A v \in Workers \ {w} : pc'[v] = pc[v] /\ job'[v] = job[v]
  <2>1. CASE Discard(w)
    BY <1>0, <2>1 DEF Discard, Close
  <2>2. CASE ServerStep(DriverUpdate(w))
    BY <1>0, <2>2 DEF ServerStep, DriverUpdate, UpdateFind
  <2> QED BY <2>1, <2>2
<1>2. \A c \in Clients : conn[w] # <<c, "poll">> /\ conn[w] # <<c, "data">>
  <2>1. CASE Discard(w)
    BY <2>1, NoConnection DEF Discard
  <2>2. CASE ServerStep(DriverUpdate(w))
    <3>1. pc[w] = "idle"
      BY <2>2 DEF ServerStep, DriverUpdate, UpdateFind
    <3> QED BY <3>1 DEF ConnInv
  <2> QED BY <2>1, <2>2
<1>3. \A c \in Clients : Answers(w, c)
  BY <1>1, <1>2 DEF Answers
<1>4. ConnInv'
  BY <1>0, <1>1, <1>3, OthersStay
<1>5. PageInv'
  BY <1>1 DEF PageInv, ViewNotOlderThanChange
<1> QED BY <1>4, <1>5

-----------------------------------------------------------------------------
(* Every step, for one executable in one life of the server                *)

\* A page does something.
LEMMA PageKeeps ==
  ASSUME IInv, ConnInv, PageInv, NEW c \in Clients, PageStep(c)
  PROVE  ConnInv' /\ PageInv'
BY PollSendKeeps, PollReturnKeeps, FetchSendKeeps, FetchReturnKeeps, ErrorsKeep DEF PageStep

\* A worker does something.
LEMMA WorkerKeeps ==
  ASSUME IInv, NewestInv, ConnInv, PageInv, NEW w \in Workers, WorkerStep(w)
  PROVE  ConnInv' /\ PageInv'
<1>1. alive
  BY DEF WorkerStep
<1>2. CASE ServerStep(DriverUpdate(w)) \/ Discard(w)
  BY <1>1, <1>2, UnseenKeeps
<1>3. CASE ServerStep(Serve(w)) /\ Crash
  <2>1. ~alive' /\ conn' = [v \in Workers |-> None] /\ page' = page
    BY <1>3 DEF ServerStep, Crash
  <2> QED BY <2>1, CrashKeeps
<1>4. CASE ServerStep(Serve(w)) /\ ~Crash
  <2>1. Serve(w) /\ page' = page
    BY <1>4 DEF ServerStep
  <2>2. alive'
    BY <1>1, <1>4, <2>1, ServeMovesOne
  <2>3. conn' = conn
    BY <1>4, <2>2 DEF ServerStep
  <2> QED BY <1>1, <1>4, <2>1, <2>3, ServeKeeps
<1> QED BY <1>2, <1>3, <1>4 DEF WorkerStep

\* Every step: the server is not killed, nor does it come back.
LEMMA SysNextKeeps ==
  ASSUME IInv, PollInv, InsertsAlone, InsertsAlone', MaxBoots = 0,
         NEW e, Execs = {e}, [SysNext]_sysVars
  PROVE  PollInv'
<1>1. [Next]_vars
  BY ServerSteps
<1>2. ReachInv'
  BY <1>1, NextReach DEF PollInv
<1>3. NewestInv'
  BY <1>1, NewestStays DEF PollInv
<1>4. CASE \E c \in Clients : PageStep(c)
  BY <1>4, <1>2, <1>3, PageKeeps DEF PollInv
<1>5. CASE \E w \in Workers : WorkerStep(w)
  BY <1>5, <1>2, <1>3, WorkerKeeps DEF PollInv
<1>6. CASE ServerStep(Kill \/ Restart)
  <2>1. boots = 0
    BY DEF IInv, TypeOK
  <2> QED BY <1>6, <2>1 DEF ServerStep, Kill, Restart
<1>7. CASE UNCHANGED sysVars
  <2>1. ConnInv'
    BY <1>7 DEF sysVars, vars, data, PollInv, ConnInv, AsNew
  <2>2. PageInv'
    BY <1>7 DEF sysVars, vars, data, PollInv, PageInv, ViewNotOlderThanChange
  <2> QED BY <1>2, <1>3, <2>1, <2>2 DEF PollInv
<1> QED BY <1>4, <1>5, <1>6, <1>7 DEF SysNext

\* The pages have just been opened, the server has just been started.
LEMMA SysInitPoll ==
  SysInit => PollInv
<1> SUFFICES ASSUME SysInit
             PROVE  PollInv
  OBVIOUS
<1>1. ReachInv
  BY FreshReach DEF SysInit, Init, Fresh
<1>2. NewestInv
  BY DEF SysInit, Init, NewestInv, Null
<1>3. ConnInv
  BY NoConnection DEF SysInit, ConnInv
<1>4. PageInv
  <2>1. NewPage \in Pages
    BY DEF NewPage, Pages, Texts
  <2>2. \A c \in Clients : page[c] = NewPage
    BY DEF SysInit
  <2>3. lastChangeID = 0 /\ built = 0
    BY DEF SysInit, Init
  <2>4. page \in [Clients -> Pages]
    BY <2>1 DEF SysInit
  <2> QED BY <2>2, <2>3, <2>4 DEF PageInv, ViewNotOlderThanChange, NewPage
<1> QED BY <1>1, <1>2, <1>3, <1>4 DEF PollInv

\* In one life of the server and with one executable, the pages and their
\* connections stay tied to what the server has, unless inserts overlap.
THEOREM PollInductive ==
  ASSUME MaxBoots = 0, NEW e, Execs = {e}
  PROVE  SysSpec /\ []InsertsAlone => []PollInv
<1>1. IInv /\ PollInv /\ InsertsAlone /\ InsertsAlone' /\ [SysNext]_sysVars
        => PollInv'
  BY SysNextKeeps
<1> QED BY <1>1, SysInitPoll, ServerUnderPages, Inductive, PTL DEF SysSpec

\* A page whose data has arrived shows a trace at least as new as the change
\* that made it fetch, for any number of pages, workers, updates and drivers,
\* unless the first two updates both miss the executable in _dms.
THEOREM DataIsNew ==
  ASSUME MaxBoots = 0, NEW e, Execs = {e}
  PROVE  SysSpec /\ []InsertsAlone => []ViewNotOlderThanChange
<1>1. PollInv => ViewNotOlderThanChange
  BY DEF PollInv, PageInv
<1> QED BY <1>1, PollInductive, PTL

\* What a page displays changes in FetchReturn only: it is good then, and the
\* trace that comes is as new as the one it shows.
LEMMA ViewMoves ==
  ASSUME IInv, PollInv, [SysNext]_sysVars, NEW c \in Clients,
         page'[c].view # page[c].view
  PROVE  page[c].good /\ page'[c].view > page[c].view
<1>0. page \in [Clients -> Pages]
  BY DEF PollInv, PageInv
<1>1. PICK d \in Clients : PageStep(d)
  BY DEF SysNext, WorkerStep, ServerStep, Discard, sysVars
<1>2. \A p \in Pages : \A id, text : HandlePoll(p, id, text).view = p.view
  BY DEF HandlePoll, InitPage, CleanPage, Pages
<1>3. \A p \in Pages : HandlePollError(p).view = p.view
  BY DEF HandlePollError, Pages
<1>4. PICK w \in Workers : FetchReturn(d, w)
  <2>1. ASSUME NEW w \in Workers, PollSend(d, w) \/ FetchSend(d, w)
        PROVE  FALSE
    <3>1. \/ page' = [page EXCEPT ![d] = [page[d] EXCEPT !.poll = "sent"]]
          \/ page' = [page EXCEPT ![d] = [page[d] EXCEPT !.fetch = "sent"]]
      BY <1>0, <2>1 DEF PollSend, FetchSend
    <3>2. page[d] \in Pages
      BY <1>0
    <3>3. /\ [page[d] EXCEPT !.poll = "sent"].view = page[d].view
          /\ [page[d] EXCEPT !.fetch = "sent"].view = page[d].view
      BY <3>2 DEF Pages
    <3> QED BY <1>0, <3>1, <3>3
  <2>2. ASSUME NEW w \in Workers, PollReturn(d, w)
        PROVE  FALSE
    BY <1>0, <1>2, <2>2 DEF PollReturn
  <2>3. ASSUME (\E w \in Workers : PollTimeout(d, w)) \/ PollError(d)
        PROVE  FALSE
    <3>1. page' = [page EXCEPT ![d] = HandlePollError(page[d])]
      BY <2>3 DEF PollTimeout, PollError
    <3>2. page[d] \in Pages
      BY <1>0
    <3> QED BY <1>0, <1>3, <3>1, <3>2
  <2>4. ASSUME FetchError(d)
        PROVE  FALSE
    BY <1>0, <2>4 DEF FetchError, Pages
  <2> QED BY <1>1, <2>1, <2>2, <2>3, <2>4 DEF PageStep
<1>5. c = d /\ pc[w] = "ok" /\ page'[c].view = job[w].num
  BY <1>0, <1>4 DEF FetchReturn, Pages
<1>6. conn[w] = <<c, "data">> /\ page[c].good /\ AsNew(c, job[w].num)
  BY <1>4, <1>5 DEF FetchReturn, PollInv, ConnInv, PageInv
<1>7. job[w].num \in Nat /\ page[c].view \in Nat
  BY <1>0 DEF IInv, TypeOK, Jobs, Pages
<1> QED BY <1>5, <1>6, <1>7 DEF AsNew

\* What a page displays is never replaced by an older trace, and by none while
\* the page is not good, for any number of pages, workers, updates and drivers,
\* unless the first two updates both miss the executable in _dms.
THEOREM DataAdvances ==
  ASSUME MaxBoots = 0, NEW e, Execs = {e}
  PROVE  SysSpec /\ []InsertsAlone => ViewOnlyAdvances
<1>1. IInv /\ PollInv /\ [SysNext]_sysVars =>
        [\A c \in Clients :
           page'[c].view # page[c].view =>
             page[c].good /\ page'[c].view > page[c].view]_sysVars
  BY ViewMoves
<1> QED BY <1>1, PollInductive, ServerUnderPages, Inductive, PTL
        DEF SysSpec, ViewOnlyAdvances
=============================================================================
