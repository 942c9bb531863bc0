----------------------------- MODULE PollSystem -----------------------------
(***************************************************************************)
(* Browser pages that watch an executable, on top of PervertServer.        *)
(*                                                                         *)
(* A page polls /f/status.  The answer carries the change counter and      *)
(* GOOD, BUSY or an error text; only when the counter differs from the one *)
(* it saw last does the page act: pv.init() fetches the data again,        *)
(* pv.clean() aborts what is under way.  Of the requests init() sends, the *)
(* one for /f/counts, which the others wait for, stands for all.           *)
(*                                                                         *)
(* A request that waits for an idle worker is one that is still to be      *)
(* sent; an aborted or timed-out one is still served, but its answer has   *)
(* nobody to go to.                                                        *)
(***************************************************************************)
EXTENDS PervertServer

CONSTANTS
  Clients,   \* open pages
  Watched    \* the executable in the address of each page

ASSUME WatchedAssumption == Watched \in [Clients -> Execs]
ASSUME ClientsAssumption == None \notin Clients \X {"poll", "data"}

VARIABLES
  page,   \* of each page, what its script knows
  conn    \* of each worker, the page and request it answers, or None

sysVars == <<vars, page, conn>>

\* A page that has just been opened: lastChangeID, currentStatus and __good; the
\* doPoll timer is "due", or its request is "sent"; of /f/counts, that none is
\* wanted, one is due or sent, or "done": its answer is cached; view is the
\* trace whose data is displayed.
NewPage == [last |-> -1, shown |-> "BUSY", good |-> FALSE, poll |-> "due",
            fetch |-> "none", view |-> 0]

SysInit ==
  /\ Init
  /\ page = [c \in Clients |-> NewPage]
  /\ conn = [w \in Workers |-> None]

-----------------------------------------------------------------------------
(* The script of a page                                                    *)

\* Mutant: the DB and its cache are kept.
InitPageKeepsDB(p) ==
  [p EXCEPT !.good = TRUE, !.fetch = IF @ = "done" THEN "done" ELSE "due"]

\* pv.init(): abort, a new DB, __good, and the requests of the "init" event.
InitPage(p) == [p EXCEPT !.good = TRUE, !.fetch = "due"]

\* pv.clean(): __good is off, what is under way is aborted.
CleanPage(p) ==
  [p EXCEPT !.good = FALSE, !.fetch = IF @ = "done" THEN "done" ELSE "none"]

\* handlePollResult on a success.
HandlePoll(p, id, text) ==
  LET q == [p EXCEPT !.last = id, !.shown = text, !.poll = "due"] IN
  IF p.last = id THEN q
  ELSE IF text = "GOOD" THEN InitPage(q) ELSE CleanPage(q)

\* Mutant: the timer is not set again.
HandlePollErrorStops(p) == [p EXCEPT !.shown = "Backend Unavailable", !.poll = "off"]

\* handlePollResult on an error.
HandlePollError(p) == [p EXCEPT !.shown = "Backend Unavailable", !.poll = "due"]

\* Mutant: what is under way is not aborted.
AbortNothing(c, f) == f

\* DB.abort(): the answer of the data request goes nowhere.
Abort(c, f) == [w \in Workers |-> IF f[w] = <<c, "data">> THEN None ELSE f[w]]

Drop(w) == [conn EXCEPT ![w] = None]
Lost(c, what) == \A w \in Workers : conn[w] # <<c, what>>

PollSend(c, w) ==
  /\ page[c].poll = "due"
  /\ StatusFind(w, Watched[c])
  /\ conn' = [conn EXCEPT ![w] = <<c, "poll">>]
  /\ page' = [page EXCEPT ![c].poll = "sent"]

PollReturn(c, w) ==
  /\ conn[w] = <<c, "poll">>
  /\ pc[w] = "ok"
  /\ page' = [page EXCEPT ![c] = HandlePoll(page[c], job[w].num, job[w].text)]
  /\ conn' = IF page[c].last = job[w].num THEN Drop(w) ELSE Abort(c, Drop(w))
  /\ Close(w)

\* timeout: 3000.  The worker does not know.
PollTimeout(c, w) ==
  /\ conn[w] = <<c, "poll">>
  /\ page' = [page EXCEPT ![c] = HandlePollError(page[c])]
  /\ conn' = Drop(w)
  /\ UNCHANGED vars

\* There is no server, or it died with the request.
PollError(c) ==
  /\ \/ page[c].poll = "due" /\ ~alive
     \/ page[c].poll = "sent" /\ Lost(c, "poll")
  /\ page' = [page EXCEPT ![c] = HandlePollError(page[c])]
  /\ UNCHANGED <<vars, conn>>

FetchSend(c, w) ==
  /\ page[c].fetch = "due"
  /\ QueryFind(w, Watched[c], "counts")
  /\ conn' = [conn EXCEPT ![w] = <<c, "data">>]
  /\ page' = [page EXCEPT ![c].fetch = "sent"]

\* success: the views draw what came.  error: it is logged, and not retried.
FetchReturn(c, w) ==
  /\ conn[w] = <<c, "data">>
  /\ pc[w] \in Answered
  /\ page' = IF pc[w] = "ok"
              THEN [page EXCEPT ![c].fetch = "done", ![c].view = job[w].num]
              ELSE [page EXCEPT ![c].fetch = "none"]
  /\ conn' = Drop(w)
  /\ Close(w)

FetchError(c) ==
  /\ \/ page[c].fetch = "due" /\ ~alive
     \/ page[c].fetch = "sent" /\ Lost(c, "data")
  /\ page' = [page EXCEPT ![c].fetch = "none"]
  /\ UNCHANGED <<vars, conn>>

\* A connection nobody waits for any more.
Discard(w) == conn[w] = None /\ Close(w) /\ UNCHANGED <<page, conn>>

\* A step of the server; connections do not outlive it.
ServerStep(A) ==
  /\ A
  /\ conn' = IF alive' THEN conn ELSE [w \in Workers |-> None]
  /\ UNCHANGED page

DriverUpdate(w) == \E e \in Execs : UpdateFind(w, e)

PageStep(c) ==
  \/ /\ alive
     /\ \E w \in Workers : \/ PollSend(c, w) \/ PollReturn(c, w) \/ PollTimeout(c, w)
                           \/ FetchSend(c, w) \/ FetchReturn(c, w)
  \/ PollError(c)
  \/ FetchError(c)

WorkerStep(w) ==
  alive /\ (ServerStep(Serve(w)) \/ ServerStep(DriverUpdate(w)) \/ Discard(w))

SysNext ==
  \/ \E c \in Clients : PageStep(c)
  \/ \E w \in Workers : WorkerStep(w)
  \/ ServerStep(Kill \/ Restart)

SysSpec == SysInit /\ [][SysNext]_sysVars

\* The behaviours in which no two updates insert a manager at once; otherwise
\* they overlap as they like.
AloneSpec == SysInit /\ [][SysNext /\ InsertsAlone']_sysVars

(* The server's threads as in PervertServer.  A page's timers fire and its *)
(* events are handled (WF); a request that keeps finding every worker busy *)
(* is accepted in the end, for mongoose queues connections in order, and   *)
(* an answer that keeps arriving is not always 3 s late (SF).              *)
SysFairness ==
  /\ \A w \in Workers :
       /\ WF_sysVars(alive /\ (ServerStep(Serve(w)) \/ Discard(w)))
       /\ SF_sysVars(alive /\ ServerStep(UpdateLock(w)))
  /\ \A c \in Clients :
       /\ SF_sysVars(alive /\ \E w \in Workers : PollSend(c, w))
       /\ SF_sysVars(alive /\ \E w \in Workers : PollReturn(c, w))
       /\ SF_sysVars(alive /\ \E w \in Workers : FetchSend(c, w))
       /\ WF_sysVars(alive /\ \E w \in Workers : FetchReturn(c, w))
       /\ WF_sysVars(PollError(c) \/ FetchError(c))

FairSysSpec == SysSpec /\ SysFairness

-----------------------------------------------------------------------------
(* What a page may rely on                                                 *)

\* A page whose data has arrived shows a trace at least as new as the change
\* that made it fetch.  For one executable, one life of the server, and updates
\* that do not insert two managers at once (InsertsAlone).
ViewNotOlderThanChange ==
  \A c \in Clients :
    page[c].good /\ page[c].fetch = "done" => page[c].view >= page[c].last

\* What is displayed is never replaced by an older trace, and only changes
\* while the page is good: an aborted request never draws.
ViewOnlyAdvances ==
  [][\A c \in Clients :
       page'[c].view # page[c].view =>
         page[c].good /\ page'[c].view > page[c].view]_sysVars

PollTimesOut == \E c \in Clients, w \in Workers : PollTimeout(c, w)

\* A page never misses the last change: once the updates are over it has seen
\* the final counter, unless the server died or every poll takes over 3 s.
PagesCatchUp ==
  \/ <>[](~alive)
  \/ []<><<PollTimesOut>>_sysVars
  \/ <>[](\A c \in Clients : page[c].last = lastChangeID)

\* A page that keeps saying "Debugging ..." (it is told GOOD) has asked for the
\* data.  index.html:75 takes a new number, and no other, for a state transition.
GoodPagesLoad ==
  \/ <>[](~alive)
  \/ []<><<PollTimesOut>>_sysVars
  \/ <>[](\A c \in Clients : page[c].shown = "GOOD" => page[c].good)

-----------------------------------------------------------------------------
(* What ViewNotOlderThanChange and ViewOnlyAdvances rest on                *)

\* There is one manager, and it has the newest trace.
NewestInv ==
  /\ made <= 1
  /\ \A d \in Managers : trace[d] = IF d = 1 THEN built ELSE Null

\* Trace t is as new as what page c displays and as the change it has seen.
AsNew(c, t) == page[c].last <= t /\ page[c].view <= t /\ t <= built

\* Who answers a page, and with what.
ConnInv ==
  /\ conn \in [Workers -> (Clients \X {"poll", "data"}) \union {None}]
  /\ \A w \in Workers, c \in Clients :
       /\ conn[w] # None => alive
       /\ conn[w] = <<c, "poll">> =>
            /\ pc[w] \in {"status", "try", "release", "poll", "ok"}
            /\ pc[w] = "ok" => job[w].num <= lastChangeID
       /\ conn[w] = <<c, "data">> =>
            /\ page[c].fetch = "sent" /\ \A v \in Workers : conn[v] = conn[w] => v = w
            /\ pc[w] \in {"query", "gettrace", "read", "ok", "fail"}
            /\ pc[w] = "read" => AsNew(c, job[w].tr)
            /\ pc[w] = "ok" => AsNew(c, job[w].num)

Pages ==
  [last : Int, shown : Texts \union {"Backend Unavailable"}, good : BOOLEAN,
   poll : {"due", "sent"}, fetch : {"none", "due", "sent", "done"}, view : Nat]

PageInv ==
  /\ page \in [Clients -> Pages]
  /\ \A c \in Clients :
       /\ alive => page[c].last <= lastChangeID /\ page[c].view <= built
       /\ page[c].fetch \in {"due", "sent"} => page[c].good
  /\ ViewNotOlderThanChange

\* With IInv, these are inductive for one executable and one life of the server
\* in which inserts do not overlap.
PollInv == ReachInv /\ NewestInv /\ ConnInv /\ PageInv
=============================================================================
