------------------------------ MODULE Frontend ------------------------------
(***************************************************************************)
(* One page of the web front end: the cache of the data it asked for (DB), *)
(* the frame it is at and the playback (ViewState), and the views that     *)
(* draw.                                                                   *)
(*                                                                         *)
(* JavaScript runs one callback at a time, so a callback is one step, with *)
(* every event it fires and every listener that hears it.  Requests are    *)
(* answered in any order, or fail.  The server is what TraceStore says of  *)
(* it: traces come one after the other, and each is announced by the       *)
(* number a page polls some time after it can be read.                     *)
(*                                                                         *)
(* The views of f_context, f_memscatter, f_memderiv and f_memhisto do the  *)
(* same with their answers; "context" stands for them.                     *)
(***************************************************************************)
EXTENDS Integers, Sequences, Bags, SequencesExt

CONSTANTS
  Events,     \* number of events of each trace there will be
  MaxFlying,  \* bound: requests under way when the user or the timer acts
  MaxWaiting  \* bound: ... and continuations of f_counts

ASSUME FrontAssumption ==
  /\ Events \in Seq(Nat) /\ Events # <<>>
  /\ MaxFlying \in Nat /\ MaxWaiting \in Nat

VARIABLES
  cell,     \* the trace the server has
  counted,  \* the number it tells
  last,     \* lastChangeID of the page
  page      \* the objects of pervert.js

frontVars == <<cell, counted, last, page>>

Traces == 1 .. Len(Events)
Frames == {0} \union UNION {0 .. Events[g] - 1 : g \in Traces}
Views == {"grid", "mem", "context"}
Requests == [what : Views \union {"counts"}, frame : Frames, since : Traces]
Nothing == [frame |-> 0, gen |-> 0]

\* Continuations of f_counts: the controls learn the range, or a view draws.
SetRange == [view |-> "controls", frame |-> 0, gen |-> 0]
Drawing(v, f, g) == [view |-> v, frame |-> f, gen |-> g]

Pages(flights) ==
  [good    : BOOLEAN,                    \* __good
   counts  : Traces \union {0},          \* __f_counts: of which trace, or null
   pending : BOOLEAN,                    \* __f_counts_pending
   waiting : Seq([view : Views \union {"controls"}, frame : Frames, gen : Traces \union {0}]),
   mem     : [Frames -> Traces \union {0}],  \* __f_mem_status
   context : [Frames -> Traces \union {0}],  \* __f_context
   current : Frames,                     \* __currentFrame
   max     : Frames \union {-1},         \* __maxFrame
   slider  : Frames \union {-1},         \* its maximum; -1: nothing to slide
   playing : BOOLEAN,                    \* __playing
   button  : {"play", "pause"},          \* what the button shows
   timers  : Nat,                        \* intervals that run
   handle  : BOOLEAN,                    \* __playingTimer is one of them
   flying  : flights,                    \* what is asked, how often
   drawn   : [Views -> [frame : Frames, gen : Traces \union {0}]]]

PageTypeOK(p) ==
  /\ p \in Pages({p.flying})
  /\ IsABag(p.flying) /\ BagToSet(p.flying) \subseteq Requests

FrontTypeOK ==
  /\ cell \in Traces /\ counted \in Traces
  /\ last \in Traces \union {-1}
  /\ PageTypeOK(page)

NoData == [f \in Frames |-> 0]

FrontInit ==
  /\ cell = 1 /\ counted = 1 /\ last = -1
  /\ page = [good |-> FALSE, counts |-> 0, pending |-> FALSE, waiting |-> <<>>,
             mem |-> NoData, context |-> NoData, flying |-> EmptyBag,
             current |-> 0, max |-> 0, slider |-> -1,
             playing |-> FALSE, button |-> "play", timers |-> 0, handle |-> FALSE,
             drawn |-> [v \in Views |-> Nothing]]

-----------------------------------------------------------------------------
(* DB                                                                      *)

Ask(p, what, f) ==
  [p EXCEPT !.flying = @ (+) SetToBag({[what |-> what, frame |-> f, since |-> cell]})]
Draw(p, v, f, g) == [p EXCEPT !.drawn[v] = [frame |-> f, gen |-> g]]

\* f_counts, while it has no answer.
FCounts(p, cont) ==
  LET q == [p EXCEPT !.waiting = Append(@, cont), !.pending = TRUE] IN
  IF p.pending THEN q ELSE Ask(q, "counts", 0)

\* The answer of f_mem_status is there: it is drawn when the counts are.
GotMemStatus(p, v, f, g) ==
  IF p.counts # 0 THEN Draw(p, v, f, g) ELSE FCounts(p, Drawing(v, f, g))

FMemStatus(p, v, f) ==
  IF p.mem[f] # 0 THEN GotMemStatus(p, v, f, p.mem[f]) ELSE Ask(p, v, f)

FContext(p, f) ==
  IF p.context[f] # 0 THEN Draw(p, "context", f, p.context[f]) ELSE Ask(p, "context", f)

\* Mutant: what is under way goes on.
AbortNothing(p) == p

\* jqXHRQueue.abort: every request fails at once; f_counts forgets who waits.
Abort(p) ==
  [p EXCEPT !.flying = EmptyBag,
            !.waiting = IF p.pending THEN <<>> ELSE @,
            !.pending = FALSE]

-----------------------------------------------------------------------------
(* ViewState                                                               *)

\* Mutants: an interval is taken to run; it runs on.
PauseBlind(p) == [p EXCEPT !.playing = FALSE, !.button = "play", !.timers = @ - 1]
PauseDeaf(p) == [p EXCEPT !.playing = FALSE, !.button = "play"]

\* setPlaying(false)
Pause(p) ==
  [p EXCEPT !.playing = FALSE, !.button = "play",
            !.timers = IF p.handle THEN @ - 1 ELSE @, !.handle = FALSE]

\* "frameslider_change": the views get what they draw.
ShowFrame(p, f) == FContext(FMemStatus([p EXCEPT !.current = f], "mem", f), f)

\* setCurrentFrame
SetCurrentFrame(p, f) == IF f > p.max \/ f < 0 THEN Pause(p) ELSE ShowFrame(p, f)

\* setPlaying(true)
Play(p) ==
  LET q == [p EXCEPT !.playing = TRUE, !.button = "pause"]
      r == IF q.current = q.max THEN SetCurrentFrame(q, 0) ELSE q IN
  [r EXCEPT !.timers = @ + 1, !.handle = TRUE]

\* The controls' continuation: the slider is made anew, and starts at 0.
RangeKnown(p) ==
  SetCurrentFrame([p EXCEPT !.max = Events[p.counts] - 1, !.slider = Events[p.counts] - 1], 0)

Continue(c, p) ==
  IF c.view = "controls" THEN RangeKnown(p) ELSE Draw(p, c.view, c.frame, c.gen)

-----------------------------------------------------------------------------
(* The polling script                                                      *)

\* Mutant: the DB is kept.
InitPageKeepsDB(p) ==
  FMemStatus([Abort(p) EXCEPT !.good = TRUE], "grid", 0)

\* pv.init: a new DB, and the listeners of "init" ask.
InitPage(p) ==
  LET q == [Abort(p) EXCEPT !.good = TRUE, !.counts = 0, !.pending = FALSE, !.waiting = <<>>,
                            !.mem = NoData, !.context = NoData] IN
  FMemStatus(FCounts(q, SetRange), "grid", 0)

CleanPage(p) == [Abort(p) EXCEPT !.good = FALSE]

\* handlePollResult, for a number it has not seen.
Poll(text) ==
  /\ last # counted
  /\ last' = counted
  /\ page' = IF text = "GOOD" THEN InitPage(page) ELSE CleanPage(page)
  /\ UNCHANGED <<cell, counted>>

\* An update, and its announcement.
Build ==
  /\ cell < Len(Events) /\ counted = cell
  /\ cell' = cell + 1
  /\ UNCHANGED <<counted, last, page>>

Announce ==
  /\ counted' = cell
  /\ UNCHANGED <<cell, last, page>>

-----------------------------------------------------------------------------
(* Answers                                                                 *)

Arrived(r) == [page EXCEPT !.flying = @ (-) SetToBag({r})]
Step(p) == page' = p /\ UNCHANGED <<cell, counted, last>>

\* Who waits for the counts goes on, in the order of asking.
Continued(p) ==
  LET after[n \in 0 .. Len(p.waiting)] ==
        IF n = 0 THEN p ELSE Continue(p.waiting[n], after[n - 1])
  IN after[Len(p.waiting)]

\* success and complete of f_counts
AnswerCounts(r, g) ==
  /\ r.what = "counts"
  /\ LET p == Continued([Arrived(r) EXCEPT !.counts = g])
     IN Step([p EXCEPT !.waiting = <<>>, !.pending = FALSE])

\* A frame the trace does not have is a status 500.
AnswerMemStatus(r, g) ==
  /\ r.what \in {"mem", "grid"}
  /\ r.frame < Events[g]
  /\ Step(GotMemStatus([Arrived(r) EXCEPT !.mem[r.frame] = g], r.what, r.frame, g))

AnswerContext(r, g) ==
  /\ r.what = "context"
  /\ r.frame < Events[g]
  /\ Step(Draw([Arrived(r) EXCEPT !.context[r.frame] = g], "context", r.frame, g))

\* The server reads its trace at some time between the request and the answer.
Answer ==
  \E r \in BagToSet(page.flying) : \E g \in r.since .. cell :
    AnswerCounts(r, g) \/ AnswerMemStatus(r, g) \/ AnswerContext(r, g)

\* Mutant: complete leaves f_counts pending.
FailPending(r) ==
  Step(IF r.what = "counts" THEN [Arrived(r) EXCEPT !.waiting = <<>>] ELSE Arrived(r))

\* error: it is logged.  f_counts forgets who waits.
Fail(r) ==
  Step(IF r.what = "counts" THEN [Arrived(r) EXCEPT !.waiting = <<>>, !.pending = FALSE]
                            ELSE Arrived(r))

-----------------------------------------------------------------------------
(* The user                                                                *)

Calm == BagCardinality(page.flying) <= MaxFlying /\ Len(page.waiting) <= MaxWaiting

KeyStep(amount) ==
  /\ page.good /\ Calm
  /\ Step(SetCurrentFrame(page, page.current + amount))

\* The key "p" toggles; the button goes by what it shows.
KeyPlay ==
  /\ page.good /\ Calm
  /\ Step(IF page.playing THEN Pause(page) ELSE Play(page))

ClickPlay ==
  /\ page.good /\ Calm
  /\ Step(IF page.button = "play" THEN Play(page) ELSE Pause(page))

\* The slider asks nobody whether the page is good.
Slide(f) ==
  /\ f <= page.slider /\ Calm
  /\ Step(SetCurrentFrame(page, f))

\* Mutant: after the last frame playback starts over.
TickWraps ==
  /\ page.timers > 0 /\ Calm
  /\ Step(SetCurrentFrame(page, (page.current + 1) % (page.max + 1)))

\* The interval of 100 ms.
Tick ==
  /\ page.timers > 0 /\ Calm
  /\ Step(SetCurrentFrame(page, page.current + 1))

User ==
  \/ \E amount \in {-1, 1} : KeyStep(amount)
  \/ KeyPlay \/ ClickPlay
  \/ \E f \in Frames : Slide(f)

FrontNext ==
  \/ \E text \in {"GOOD", "BUSY"} : Poll(text)
  \/ Build \/ Announce
  \/ Answer
  \/ \E r \in BagToSet(page.flying) : Fail(r)
  \/ User
  \/ Tick

FrontSpec == FrontInit /\ [][FrontNext]_frontVars

(* The browser handles what arrives, and its timers; the server answers or  *)
(* the request fails.  The user need not do anything.                       *)
FairFrontSpec ==
  /\ FrontSpec
  /\ WF_frontVars(Answer \/ \E r \in BagToSet(page.flying) : Fail(r))
  /\ WF_frontVars(Tick)

-----------------------------------------------------------------------------
(* What the page promises                                                  *)

Cached(p) == {p.counts} \union {p.mem[f] : f \in Frames} \union {p.context[f] : f \in Frames}

\* The cache of a good page holds no answer older than the change the page
\* has seen: once it has seen the newest, all its data is of the newest trace.
CacheIsFresh ==
  page.good => \A g \in Cached(page) \ {0} : last <= g /\ g <= cell

\* Nothing older than the change it has seen is drawn by a good page: what
\* was asked before is aborted, and its answer goes nowhere.
DrawsAreFresh ==
  [][\A v \in Views :
       page.good /\ page'.good /\ last' = last /\ page'.drawn[v] # page.drawn[v]
         => page'.drawn[v].gen >= last]_frontVars

\* pervert.js:95: f_counts is "safe to be called to your heart's delight".
\* There is one request at a time, and nobody waits without one.
AskedOnce(p) ==
  LET asked == {r \in BagToSet(p.flying) : r.what = "counts"} IN
  /\ p.pending <=> asked # {}
  /\ \A r, s \in asked : r = s /\ p.flying[r] = 1
  /\ p.waiting # <<>> => p.pending
CountsAskedOnce == AskedOnce(page)

\* An interval runs if and only if the page plays, never two; the button says
\* so, whoever started or stopped it.
Timed(p) ==
  /\ p.timers = IF p.playing THEN 1 ELSE 0
  /\ p.button = IF p.playing THEN "pause" ELSE "play"
OneTimer == Timed(page)

\* Of a page that has seen change l while the server has trace c: what is under
\* way will bring data that is new enough, what it has is of traces there were,
\* and a good page that waits for the counts waits with new data.
Current(p, l, c) ==
  /\ \A r \in BagToSet(p.flying) : l <= r.since /\ r.since <= c
  /\ \A g \in Cached(p) : g <= c /\ (p.good /\ g # 0 => l <= g)
  /\ p.good => \A i \in DOMAIN p.waiting :
       p.waiting[i].view = "controls" \/ l <= p.waiting[i].gen

\* Together these are inductive.
FrontInv ==
  /\ FrontTypeOK /\ CountsAskedOnce /\ OneTimer
  /\ page.handle = page.playing
  /\ last <= counted /\ counted <= cell
  /\ Current(page, last, cell)

\* The user does what the timer would not have done just then: a step by key or
\* slider to the very frame that comes next anyway is no excuse.
UserMoves == User /\ ~Tick

\* Playback comes to its end, also over a change to a shorter trace, unless the
\* user interferes again and again; the timer alone does not play for ever.
PlaybackEnds == []<>(~page.playing) \/ []<><<UserMoves>>_frontVars

\* pervert.js:204: the ViewState "keeps everything happy and up to date".  When
\* nothing is under way, the memory view of a good page that has the data of
\* the current frame shows the current frame.
ViewIsCurrent ==
  page.good /\ page.flying = EmptyBag /\ page.mem[page.current] # 0 /\ page.counts # 0 =>
    page.drawn["mem"].frame = page.current
=============================================================================
