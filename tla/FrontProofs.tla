---------------------------- MODULE FrontProofs ----------------------------
(***************************************************************************)
(* Proofs about Frontend, for any traces and any number of requests and    *)
(* continuations.                                                          *)
(*                                                                         *)
(* FrontInv is inductive.  A callback is one step that calls many          *)
(* functions, so each function has a lemma that says what it leaves true   *)
(* of the page it is given (Goes, SameTimer); a step puts them together.   *)
(* Between the counts' arrival and the last continuation the promises of   *)
(* CountsAskedOnce are broken: but as the counts are there, nobody asks    *)
(* for them (SameCounts).                                                  *)
(***************************************************************************)
EXTENDS Frontend, BasicLemmas

\* What FrontInv says of a page, but for the counts and the timer.
PageOK(p, l) == PageTypeOK(p) /\ Current(p, l, cell)

\* What q has drawn since it was p is not older than change l.
DrawnFresh(p, q, l) ==
  p.good => \A v \in Views : q.drawn[v] # p.drawn[v] => l <= q.drawn[v].gen

\* The requests for the counts.
CountAsks(p) == {r \in BagToSet(p.flying) : r.what = "counts"}

\* Nobody has asked for the counts, or waits for them, who did not before.
SameCounts(p, q) ==
  /\ q.pending = p.pending /\ q.waiting = p.waiting
  /\ CountAsks(q) = CountAsks(p)
  /\ \A r \in CountAsks(p) : q.flying[r] = p.flying[r]

\* A function that makes q of p leaves the promises true.
Goes(p, q, l) ==
  /\ PageOK(q, l) /\ DrawnFresh(p, q, l)
  /\ q.counts = p.counts /\ q.good = p.good
  /\ AskedOnce(p) => AskedOnce(q)
  /\ p.counts # 0 => SameCounts(p, q)

\* The timer is right, and nothing has touched it.
Timely(p) == Timed(p) /\ p.handle = p.playing
SameTimer(p, q) ==
  /\ q.playing = p.playing /\ q.button = p.button /\ q.timers = p.timers
  /\ q.handle = p.handle /\ q.max = p.max

\* Traces are numbered from 1, and frames from 0; frames up to a frame are frames.
LEMMA NumberFacts ==
  /\ Len(Events) \in Nat \ {0} /\ Traces \subseteq Nat \ {0} /\ 0 \in Frames /\ Frames \subseteq Nat
  /\ \A g \in Traces : Events[g] \in Nat /\ Events[g] - 1 \in Frames \union {-1}
  /\ \A m \in Frames : 0 .. m \subseteq Frames
<1>1. Len(Events) \in Nat \ {0} /\ Traces \subseteq Nat \ {0} 
  BY FrontAssumption DEF Traces
<1>2. \A g \in Traces : Events[g] \in Nat
  BY FrontAssumption DEF Traces
<1>3. \A g \in Traces : Events[g] # 0 => Events[g] - 1 \in 0 .. Events[g] - 1
  BY <1>2
<1> QED BY <1>1, <1>2, <1>3 DEF Frames

\* One copy is added to a bag.
LEMMA BagAdd ==
  ASSUME NEW B, IsABag(B), NEW r, NEW C, C = B (+) SetToBag({r})
  PROVE  /\ IsABag(C) /\ BagToSet(C) = BagToSet(B) \union {r}
         /\ r \notin BagToSet(B) => C[r] = 1
         /\ \A s \in BagToSet(B) : s # r => C[s] = B[s]
<1>1. DOMAIN C = DOMAIN B \union {r}
  BY DEF SetToBag, (+)
<1>2. \A s \in DOMAIN B : B[s] \in Nat /\ B[s] > 0
  BY DEF IsABag
<1>3. \A s \in DOMAIN C : C[s] = (IF s \in DOMAIN B THEN B[s] ELSE 0) + (IF s = r THEN 1 ELSE 0)
  BY DEF SetToBag, (+)
<1>4. \A s \in DOMAIN C : C[s] \in {n \in Nat : n > 0}
  BY <1>1, <1>2, <1>3
<1>5. C = [s \in DOMAIN C |-> C[s]]
  BY DEF SetToBag, (+)
<1>6. IsABag(C)
  BY <1>4, <1>5 DEF IsABag
<1> QED BY <1>1, <1>2, <1>3, <1>6 DEF BagToSet

\* One copy is taken from a bag.
LEMMA BagTake ==
  ASSUME NEW B, IsABag(B), NEW r, NEW C, C = B (-) SetToBag({r})
  PROVE  /\ IsABag(C) /\ BagToSet(C) \union BagToSet(B) = BagToSet(B)
         /\ \A s \in BagToSet(B) : s # r => s \in BagToSet(C) /\ C[s] = B[s]
         /\ r \in BagToSet(B) /\ B[r] = 1 => r \notin BagToSet(C)
<1> DEFINE D == [s \in DOMAIN B |-> IF s \in {r} THEN B[s] - SetToBag({r})[s] ELSE B[s]]
<1>0. DOMAIN SetToBag({r}) = {r}
  BY DEF SetToBag
<1>1. C = [s \in {d \in DOMAIN D : D[d] > 0} |-> D[s]]
  BY <1>0 DEF (-)
<1>2. \A s \in DOMAIN B : B[s] \in Nat /\ B[s] > 0
  BY DEF IsABag
<1>3. \A s \in DOMAIN B : D[s] = IF s = r THEN B[s] - 1 ELSE B[s]
  BY DEF SetToBag
<1>4. DOMAIN D = DOMAIN B
  OBVIOUS
<1> HIDE DEF D
<1>5. \A s \in DOMAIN C : C[s] \in {n \in Nat : n > 0}
  BY <1>1, <1>2, <1>3, <1>4
<1>6. C = [s \in DOMAIN C |-> C[s]]
  BY <1>1
<1>7. IsABag(C)
  BY <1>5, <1>6 DEF IsABag
<1>8. DOMAIN C \subseteq DOMAIN B
  BY <1>1, <1>4
<1>9. BagToSet(C) \union BagToSet(B) = BagToSet(B)
  BY <1>8 DEF BagToSet
<1> QED BY <1>1, <1>2, <1>3, <1>4, <1>7, <1>9 DEF BagToSet

\* One more request.
LEMMA AskAdds ==
  ASSUME cell \in Traces, NEW l \in Int, l <= cell,
         NEW p, PageOK(p, l), NEW what \in Views \union {"counts"}, NEW f \in Frames,
         NEW q, q = Ask(p, what, f), NEW r, r = [what |-> what, frame |-> f, since |-> cell]
  PROVE  /\ PageOK(q, l) /\ SameTimer(p, q)
         /\ q.good = p.good /\ q.counts = p.counts /\ q.pending = p.pending
         /\ q.waiting = p.waiting /\ q.drawn = p.drawn
         /\ BagToSet(q.flying) = BagToSet(p.flying) \union {r}
         /\ r \notin BagToSet(p.flying) => q.flying[r] = 1
         /\ \A s \in BagToSet(p.flying) : s # r => q.flying[s] = p.flying[s]
<1> DEFINE F == p.flying
           B == F (+) SetToBag({r})
<1>1. r \in Requests /\ r.what = what /\ r.since = cell
  BY DEF Requests
<1>2. q = [p EXCEPT !.flying = B]
  BY DEF Ask
<1>3. IsABag(F) /\ B = F (+) SetToBag({r})
  BY DEF PageOK, PageTypeOK
<1> HIDE DEF B
<1>4. /\ IsABag(B) /\ BagToSet(B) = BagToSet(F) \union {r}
      /\ r \notin BagToSet(F) => B[r] = 1
      /\ \A s \in BagToSet(F) : s # r => B[s] = F[s]
  <2> HIDE DEF F
  <2>1. IsABag(B) /\ BagToSet(B) = BagToSet(F) \union {r}
    BY <1>3, BagAdd
  <2>2. r \notin BagToSet(F) => B[r] = 1
    BY <1>3, BagAdd
  <2>3. ASSUME NEW s \in BagToSet(F), s # r PROVE B[s] = F[s]
    BY ONLY <1>3, <2>3, BagAdd
  <2> QED BY <2>1, <2>2, <2>3
<1>5. /\ q.flying = B /\ q.good = p.good /\ q.counts = p.counts /\ q.pending = p.pending
      /\ q.waiting = p.waiting /\ q.mem = p.mem /\ q.context = p.context /\ q.drawn = p.drawn
      /\ q.playing = p.playing /\ q.button = p.button /\ q.timers = p.timers
      /\ q.handle = p.handle /\ q.max = p.max
  BY <1>2 DEF PageOK, PageTypeOK, Pages
<1>6. q \in Pages({q.flying})
  BY <1>2, <1>5 DEF PageOK, PageTypeOK, Pages
<1>7. PageTypeOK(q)
  BY <1>1, <1>4, <1>5, <1>6 DEF PageOK, PageTypeOK
<1>8. cell \in Int
  BY NumberFacts
<1>9. Current(q, l, cell)
  BY <1>1, <1>4, <1>5, <1>8 DEF PageOK, Current, Cached
<1> QED BY <1>4, <1>5, <1>7, <1>9 DEF PageOK, SameTimer

\* ... for data
LEMMA AskGoes ==
  ASSUME cell \in Traces, NEW l \in Int, l <= cell,
         NEW p, PageOK(p, l), NEW what \in Views, NEW f \in Frames
  PROVE  Goes(p, Ask(p, what, f), l) /\ SameTimer(p, Ask(p, what, f))
<1> DEFINE r == [what |-> what, frame |-> f, since |-> cell]
           q == Ask(p, what, f)
<1>0. q = Ask(p, what, f) /\ r = [what |-> what, frame |-> f, since |-> cell]
  OBVIOUS
<1>2. r.what # "counts"
  BY DEF Views
<1> HIDE DEF q, r
<1>1. /\ PageOK(q, l) /\ SameTimer(p, q)
      /\ q.good = p.good /\ q.counts = p.counts /\ q.pending = p.pending
      /\ q.waiting = p.waiting /\ q.drawn = p.drawn
      /\ BagToSet(q.flying) = BagToSet(p.flying) \union {r}
      /\ \A s \in BagToSet(p.flying) : s # r => q.flying[s] = p.flying[s]
  BY <1>0, AskAdds
<1>3. SameCounts(p, q)
  BY <1>1, <1>2 DEF SameCounts, CountAsks
<1>4. AskedOnce(p) => AskedOnce(q)
  BY <1>1, <1>3 DEF SameCounts, CountAsks, AskedOnce
<1>5. Goes(p, q, l)
  BY <1>1, <1>3, <1>4 DEF Goes, DrawnFresh
<1> QED BY <1>1, <1>5 DEF q

\* What may wait for the counts.
Continuations == [view : Views \union {"controls"}, frame : Frames, gen : Traces \union {0}]

\* ... for the counts.
LEMMA FCountsGoes ==
  ASSUME cell \in Traces, NEW l \in Int, l <= cell,
         NEW p, PageOK(p, l), p.counts = 0,
         NEW cont \in Continuations, p.good => cont.view = "controls" \/ l <= cont.gen
  PROVE  Goes(p, FCounts(p, cont), l) /\ SameTimer(p, FCounts(p, cont))
<1> DEFINE w == Append(p.waiting, cont)
           q == [p EXCEPT !.waiting = w, !.pending = TRUE]
           r == [what |-> "counts", frame |-> 0, since |-> cell]
           s == Ask(q, "counts", 0)
<1>1. FCounts(p, cont) = IF p.pending THEN q ELSE s
  BY DEF FCounts
<1>2. p.waiting \in Seq(Continuations) /\ p.pending \in BOOLEAN
  BY DEF PageOK, PageTypeOK, Pages, Continuations
<1>3. /\ w \in Seq(Continuations) /\ w # <<>>
      /\ \A i \in DOMAIN w : w[i] = cont \/ (i \in DOMAIN p.waiting /\ w[i] = p.waiting[i])
  BY <1>2
<1> HIDE DEF w
<1>4. /\ q.flying = p.flying /\ q.good = p.good /\ q.counts = p.counts /\ q.pending = TRUE
      /\ q.waiting = w /\ q.mem = p.mem /\ q.context = p.context /\ q.drawn = p.drawn
      /\ q.playing = p.playing /\ q.button = p.button /\ q.timers = p.timers
      /\ q.handle = p.handle /\ q.max = p.max
  BY DEF PageOK, PageTypeOK, Pages
<1>5. q \in Pages({q.flying})
  BY <1>3, <1>4 DEF PageOK, PageTypeOK, Pages, Continuations
<1> HIDE DEF q
<1>6. PageTypeOK(q)
  BY <1>4, <1>5 DEF PageOK, PageTypeOK
<1>7. Current(q, l, cell)
  BY <1>3, <1>4 DEF PageOK, Current, Cached
<1>8. PageOK(q, l) /\ SameTimer(p, q)
  BY <1>4, <1>6, <1>7 DEF PageOK, SameTimer
<1>9. CASE p.pending
  <2>1. AskedOnce(p) => AskedOnce(q)
    BY <1>4, <1>9 DEF AskedOnce
  <2> QED BY <1>1, <1>4, <1>8, <1>9, <2>1 DEF Goes, DrawnFresh
<1>10. CASE ~p.pending
  <2>1. 0 \in Frames
    BY NumberFacts
  <2>0. s = Ask(q, "counts", 0) /\ r = [what |-> "counts", frame |-> 0, since |-> cell]
    OBVIOUS
  <2>3. r.what = "counts"
    OBVIOUS
  <2> HIDE DEF s, r
  <2>2. /\ PageOK(s, l) /\ SameTimer(q, s)
        /\ s.good = q.good /\ s.counts = q.counts /\ s.pending = q.pending
        /\ s.waiting = q.waiting /\ s.drawn = q.drawn
        /\ BagToSet(s.flying) = BagToSet(q.flying) \union {r}
        /\ r \notin BagToSet(q.flying) => s.flying[r] = 1
    BY <1>8, <2>0, <2>1, AskAdds
  <2>4. AskedOnce(p) => AskedOnce(s)
    <3> SUFFICES ASSUME AskedOnce(p) PROVE AskedOnce(s)
      OBVIOUS
    <3>1. \A x \in BagToSet(p.flying) : x.what # "counts"
      BY <1>10 DEF AskedOnce
    <3>2. r \notin BagToSet(q.flying)
      BY <1>4, <2>3, <3>1
    <3>3. {x \in BagToSet(s.flying) : x.what = "counts"} = {r}
      BY <1>4, <2>2, <2>3, <3>1
    <3>4. s.pending = TRUE /\ s.flying[r] = 1
      BY <1>4, <2>2, <3>2
    <3> QED BY <3>3, <3>4 DEF AskedOnce
  <2>5. SameTimer(p, s)
    BY <1>8, <2>2 DEF SameTimer
  <2> QED BY <1>1, <1>4, <1>10, <2>2, <2>4, <2>5 DEF Goes, DrawnFresh
<1> QED BY <1>2, <1>9, <1>10

\* A view draws data that is new enough.
LEMMA DrawGoes ==
  ASSUME cell \in Traces, NEW l \in Int, l <= cell, NEW p, PageOK(p, l),
         NEW v \in Views, NEW f \in Frames, NEW g \in Traces \union {0}, p.good => l <= g
  PROVE  Goes(p, Draw(p, v, f, g), l) /\ SameTimer(p, Draw(p, v, f, g))
<1> DEFINE d == [frame |-> f, gen |-> g]
           e == [p.drawn EXCEPT ![v] = d]
           q == Draw(p, v, f, g)
<1>1. q = [p EXCEPT !.drawn = e]
  BY DEF Draw
<1>2. p.drawn \in [Views -> [frame : Frames, gen : Traces \union {0}]]
  BY DEF PageOK, PageTypeOK, Pages
<1>3. e \in [Views -> [frame : Frames, gen : Traces \union {0}]]
  BY <1>2
<1>4. \A x \in Views : e[x] # p.drawn[x] => e[x].gen = g
  BY <1>2
<1> HIDE DEF e
<1>5. /\ q.flying = p.flying /\ q.good = p.good /\ q.counts = p.counts /\ q.pending = p.pending
      /\ q.waiting = p.waiting /\ q.mem = p.mem /\ q.context = p.context /\ q.drawn = e
      /\ q.playing = p.playing /\ q.button = p.button /\ q.timers = p.timers
      /\ q.handle = p.handle /\ q.max = p.max
  BY <1>1 DEF PageOK, PageTypeOK, Pages
<1>6. q \in Pages({q.flying})
  BY <1>1, <1>3, <1>5 DEF PageOK, PageTypeOK, Pages
<1> HIDE DEF q
<1>7. PageTypeOK(q)
  BY <1>5, <1>6 DEF PageOK, PageTypeOK
<1>8. Current(q, l, cell)
  BY <1>5 DEF PageOK, Current, Cached
<1>9. DrawnFresh(p, q, l) /\ SameTimer(p, q) /\ PageOK(q, l)
  BY <1>4, <1>5, <1>7, <1>8 DEF DrawnFresh, SameTimer, PageOK
<1>10. SameCounts(p, q) /\ (AskedOnce(p) => AskedOnce(q))
  BY <1>5 DEF SameCounts, CountAsks, AskedOnce
<1> QED BY <1>5, <1>9, <1>10 DEF Goes, q

\* What goes on, goes on.
LEMMA GoesOn ==
  ASSUME NEW l, NEW p, NEW q, NEW s, Goes(p, q, l), Goes(q, s, l)
  PROVE  Goes(p, s, l)
<1>1. DrawnFresh(p, s, l)
  BY DEF Goes, DrawnFresh
<1>2. p.counts # 0 => SameCounts(p, s)
  BY DEF Goes, SameCounts
<1> QED BY <1>1, <1>2 DEF Goes

-----------------------------------------------------------------------------
(* The DB and the views                                                    *)

\* A timer left alone twice is left alone.
LEMMA SameTimerOn ==
  ASSUME NEW p, NEW q, NEW s, SameTimer(p, q), SameTimer(q, s)
  PROVE  SameTimer(p, s)
BY DEF SameTimer

\* What the page has of the answers is new enough to draw.
LEMMA CachedIsCurrent ==
  ASSUME NEW l, NEW p, PageOK(p, l), NEW f \in Frames
  PROVE  /\ p.mem[f] \in Traces \union {0} /\ p.context[f] \in Traces \union {0}
         /\ p.good /\ p.mem[f] # 0 => l <= p.mem[f]
         /\ p.good /\ p.context[f] # 0 => l <= p.context[f]
<1>1. p.mem \in [Frames -> Traces \union {0}] /\ p.context \in [Frames -> Traces \union {0}]
  BY DEF PageOK, PageTypeOK, Pages
<1>2. p.mem[f] \in Cached(p) /\ p.context[f] \in Cached(p)
  BY DEF Cached
<1> QED BY <1>1, <1>2 DEF PageOK, Current

\* The data of a frame is there, and is drawn now or when the counts are.
LEMMA GotMemStatusGoes ==
  ASSUME cell \in Traces, NEW l \in Int, l <= cell, NEW p, PageOK(p, l),
         NEW v \in Views, NEW f \in Frames, NEW g \in Traces, p.good => l <= g
  PROVE  Goes(p, GotMemStatus(p, v, f, g), l) /\ SameTimer(p, GotMemStatus(p, v, f, g))
<1>1. CASE p.counts # 0
  BY <1>1, DrawGoes DEF GotMemStatus
<1>2. CASE p.counts = 0
  <2> DEFINE cont == Drawing(v, f, g)
  <2>1. cont \in Continuations /\ cont.gen = g
    BY DEF Drawing, Continuations
  <2> HIDE DEF cont
  <2>2. Goes(p, FCounts(p, cont), l) /\ SameTimer(p, FCounts(p, cont))
    BY <1>2, <2>1, FCountsGoes
  <2> QED BY <1>2, <2>2 DEF GotMemStatus, cont
<1> QED BY <1>1, <1>2

\* ... from the cache, or it is asked for;
LEMMA FMemStatusGoes ==
  ASSUME cell \in Traces, NEW l \in Int, l <= cell, NEW p, PageOK(p, l),
         NEW v \in Views, NEW f \in Frames
  PROVE  Goes(p, FMemStatus(p, v, f), l) /\ SameTimer(p, FMemStatus(p, v, f))
<1>1. CASE p.mem[f] # 0
  <2> DEFINE g == p.mem[f]
  <2>1. g \in Traces /\ (p.good => l <= g)
    BY <1>1, CachedIsCurrent
  <2> HIDE DEF g
  <2>2. Goes(p, GotMemStatus(p, v, f, g), l) /\ SameTimer(p, GotMemStatus(p, v, f, g))
    BY <2>1, GotMemStatusGoes
  <2> QED BY <1>1, <2>2 DEF FMemStatus, g
<1>2. CASE p.mem[f] = 0
  BY <1>2, AskGoes DEF FMemStatus
<1> QED BY <1>1, <1>2

\* and so for the contexts.
LEMMA FContextGoes ==
  ASSUME cell \in Traces, NEW l \in Int, l <= cell, NEW p, PageOK(p, l), NEW f \in Frames
  PROVE  Goes(p, FContext(p, f), l) /\ SameTimer(p, FContext(p, f))
<1>0. "context" \in Views
  BY DEF Views
<1>1. CASE p.context[f] # 0
  <2> DEFINE g == p.context[f]
  <2>1. g \in Traces \union {0} /\ (p.good => l <= g)
    BY <1>1, CachedIsCurrent
  <2> HIDE DEF g
  <2>2. Goes(p, Draw(p, "context", f, g), l) /\ SameTimer(p, Draw(p, "context", f, g))
    BY <1>0, <2>1, DrawGoes
  <2> QED BY <1>1, <2>2 DEF FContext, g
<1>2. CASE p.context[f] = 0
  BY <1>0, <1>2, AskGoes DEF FContext
<1> QED BY <1>1, <1>2

\* Fields that no promise is about.
LEMMA ControlsGo ==
  ASSUME NEW l, NEW p, PageOK(p, l), NEW q, PageTypeOK(q),
         q.flying = p.flying, q.good = p.good, q.counts = p.counts, q.pending = p.pending,
         q.waiting = p.waiting, q.mem = p.mem, q.context = p.context, q.drawn = p.drawn
  PROVE  Goes(p, q, l)
<1>1. PageOK(q, l)
  BY DEF PageOK, Current, Cached
<1> QED BY <1>1 DEF Goes, DrawnFresh, SameCounts, CountAsks, AskedOnce

\* All views are given a frame.
LEMMA ShowFrameGoes ==
  ASSUME cell \in Traces, NEW l \in Int, l <= cell, NEW p, PageOK(p, l), NEW f \in Frames
  PROVE  Goes(p, ShowFrame(p, f), l) /\ SameTimer(p, ShowFrame(p, f))
<1> DEFINE q == [p EXCEPT !.current = f]
           r == FMemStatus(q, "mem", f)
<1>0. "mem" \in Views
  BY DEF Views
<1>1. /\ q.flying = p.flying /\ q.good = p.good /\ q.counts = p.counts /\ q.pending = p.pending
      /\ q.waiting = p.waiting /\ q.mem = p.mem /\ q.context = p.context /\ q.drawn = p.drawn
      /\ q.playing = p.playing /\ q.button = p.button /\ q.timers = p.timers
      /\ q.handle = p.handle /\ q.max = p.max
  BY DEF PageOK, PageTypeOK, Pages
<1>2. q \in Pages({q.flying})
  BY <1>1 DEF PageOK, PageTypeOK, Pages
<1>3. ShowFrame(p, f) = FContext(r, f)
  BY DEF ShowFrame
<1> HIDE DEF q
<1>4. Goes(p, q, l) /\ SameTimer(p, q)
  <2>1. PageTypeOK(q)
    BY <1>1, <1>2 DEF PageOK, PageTypeOK
  <2> QED BY <1>1, <2>1, ControlsGo DEF SameTimer
<1>5. Goes(q, r, l) /\ SameTimer(q, r)
  BY <1>0, <1>4, FMemStatusGoes DEF Goes
<1> HIDE DEF r
<1>6. Goes(r, FContext(r, f), l) /\ SameTimer(r, FContext(r, f))
  BY <1>5, FContextGoes DEF Goes
<1> QED BY <1>3, <1>4, <1>5, <1>6, GoesOn, SameTimerOn

-----------------------------------------------------------------------------
(* ViewState                                                               *)

\* A page whose timer is right stops it.
LEMMA PauseGoes ==
  ASSUME NEW l, NEW p, PageOK(p, l), Timely(p)
  PROVE  Goes(p, Pause(p), l) /\ Timely(Pause(p)) /\ ~Pause(p).playing
<1> DEFINE n == IF p.handle THEN p.timers - 1 ELSE p.timers
           q == [p EXCEPT !.playing = FALSE, !.button = "play", !.timers = n, !.handle = FALSE]
<1>1. Pause(p) = q
  BY DEF Pause, PageOK, PageTypeOK, Pages
<1>2. p.handle \in BOOLEAN /\ p.playing \in BOOLEAN
  BY DEF PageOK, PageTypeOK, Pages
<1>3. n = 0
  BY <1>2 DEF Timely, Timed
<1> HIDE DEF n
<1>4. /\ q.flying = p.flying /\ q.good = p.good /\ q.counts = p.counts /\ q.pending = p.pending
      /\ q.waiting = p.waiting /\ q.mem = p.mem /\ q.context = p.context /\ q.drawn = p.drawn
      /\ q.playing = FALSE /\ q.button = "play" /\ q.timers = n
      /\ q.handle = FALSE /\ q.max = p.max
  BY DEF PageOK, PageTypeOK, Pages
<1>5. q \in Pages({q.flying})
  BY <1>3, <1>4 DEF PageOK, PageTypeOK, Pages
<1> HIDE DEF q
<1>6. PageTypeOK(q)
  BY <1>4, <1>5 DEF PageOK, PageTypeOK
<1>7. Goes(p, q, l)
  BY <1>4, <1>6, ControlsGo
<1>8. Timely(q)
  BY <1>3, <1>4 DEF Timely, Timed
<1> QED BY <1>1, <1>4, <1>7, <1>8

\* A frame is shown, or the playback is at its end.
LEMMA SetCurrentFrameGoes ==
  ASSUME cell \in Traces, NEW l \in Int, l <= cell, NEW p, PageOK(p, l), Timely(p), NEW f \in Int
  PROVE  Goes(p, SetCurrentFrame(p, f), l) /\ Timely(SetCurrentFrame(p, f))
<1>1. CASE f > p.max \/ f < 0
  BY <1>1, PauseGoes DEF SetCurrentFrame
<1>2. CASE ~(f > p.max \/ f < 0)
  <2>1. p.max \in Frames \union {-1}
    BY DEF PageOK, PageTypeOK, Pages
  <2>2. \A m \in Frames : m \in Nat /\ 0 .. m \subseteq Frames
    BY NumberFacts
  <2>3. f \in Frames
    BY <1>2, <2>1, <2>2
  <2>4. Goes(p, ShowFrame(p, f), l) /\ SameTimer(p, ShowFrame(p, f))
    BY <2>3, ShowFrameGoes
  <2>5. Timely(ShowFrame(p, f))
    BY <2>4 DEF SameTimer, Timely, Timed
  <2> QED BY <1>2, <2>4, <2>5 DEF SetCurrentFrame
<1> QED BY <1>1, <1>2

\* A page that does not play starts to.
LEMMA PlayGoes ==
  ASSUME cell \in Traces, NEW l \in Int, l <= cell, NEW p, PageOK(p, l), Timely(p), ~p.playing
  PROVE  Goes(p, Play(p), l) /\ Timely(Play(p))
<1> DEFINE q == [p EXCEPT !.playing = TRUE, !.button = "pause"]
           r == IF q.current = q.max THEN SetCurrentFrame(q, 0) ELSE q
           n == r.timers + 1
           s == [r EXCEPT !.timers = n, !.handle = TRUE]
<1>1. Play(p) = [r EXCEPT !.timers = @ + 1, !.handle = TRUE]
  BY DEF Play
<1>2. p.timers = 0 /\ p.current \in Frames /\ p.max \in Frames \union {-1}
  BY DEF Timely, Timed, PageOK, PageTypeOK, Pages
<1>3. /\ q.flying = p.flying /\ q.good = p.good /\ q.counts = p.counts /\ q.pending = p.pending
      /\ q.waiting = p.waiting /\ q.mem = p.mem /\ q.context = p.context /\ q.drawn = p.drawn
      /\ q.playing = TRUE /\ q.button = "pause" /\ q.timers = 0
      /\ q.handle = p.handle /\ q.max = p.max /\ q.current = p.current
  BY <1>2 DEF PageOK, PageTypeOK, Pages
<1>4. q \in Pages({q.flying})
  BY <1>3 DEF PageOK, PageTypeOK, Pages
<1> HIDE DEF q
<1>5. PageTypeOK(q)
  BY <1>3, <1>4 DEF PageOK, PageTypeOK
<1>6. Goes(p, q, l)
  BY <1>3, <1>5, ControlsGo
<1>7. Goes(q, r, l) /\ SameTimer(q, r)
  <2>1. CASE q.current = q.max
    <3>0. 0 \in Frames /\ \A m \in Frames : m \in Nat
      BY NumberFacts
    <3>1. ~(0 > q.max \/ 0 < 0) /\ 0 \in Frames
      BY <1>2, <1>3, <2>1, <3>0
    <3>2. r = ShowFrame(q, 0)
      BY <2>1, <3>1 DEF SetCurrentFrame
    <3> HIDE DEF r
    <3> QED BY <1>6, <3>1, <3>2, ShowFrameGoes DEF Goes
  <2>2. CASE q.current # q.max
    BY <1>5, <1>6, <2>2, ControlsGo DEF Goes, SameTimer
  <2> QED BY <2>1, <2>2
<1> HIDE DEF r
<1>8. PageOK(r, l)
  BY <1>7 DEF Goes
<1>9. n = 1 /\ r.playing = TRUE /\ r.button = "pause"
  BY <1>3, <1>7 DEF SameTimer
<1> HIDE DEF n
<1>10. /\ s.flying = r.flying /\ s.good = r.good /\ s.counts = r.counts /\ s.pending = r.pending
      /\ s.waiting = r.waiting /\ s.mem = r.mem /\ s.context = r.context /\ s.drawn = r.drawn
      /\ s.playing = TRUE /\ s.button = "pause" /\ s.timers = 1
      /\ s.handle = TRUE
  BY <1>8, <1>9 DEF PageOK, PageTypeOK, Pages
<1>11. s \in Pages({s.flying})
  BY <1>8, <1>9, <1>10 DEF PageOK, PageTypeOK, Pages
<1>12. Play(p) = s
  BY <1>1, <1>8 DEF PageOK, PageTypeOK, Pages, n
<1> HIDE DEF s
<1>13. PageTypeOK(s)
  BY <1>8, <1>10, <1>11 DEF PageOK, PageTypeOK
<1>14. Goes(r, s, l)
  BY <1>8, <1>10, <1>13, ControlsGo
<1>15. Goes(p, s, l)
  BY <1>6, <1>7, <1>14, GoesOn
<1>16. Timely(s)
  BY <1>10 DEF Timely, Timed
<1> QED BY <1>12, <1>15, <1>16

\* The controls learn the range.
LEMMA RangeKnownGoes ==
  ASSUME cell \in Traces, NEW l \in Int, l <= cell, NEW p, PageOK(p, l), Timely(p), p.counts # 0
  PROVE  Goes(p, RangeKnown(p), l) /\ Timely(RangeKnown(p))
<1> DEFINE m == Events[p.counts] - 1
           q == [p EXCEPT !.max = m, !.slider = m]
<1>1. p.counts \in Traces
  BY DEF PageOK, PageTypeOK, Pages
<1>2. m \in Frames \union {-1}
  BY <1>1, NumberFacts
<1>3. RangeKnown(p) = SetCurrentFrame(q, 0)
  BY DEF RangeKnown
<1> HIDE DEF m
<1>4. /\ q.flying = p.flying /\ q.good = p.good /\ q.counts = p.counts /\ q.pending = p.pending
      /\ q.waiting = p.waiting /\ q.mem = p.mem /\ q.context = p.context /\ q.drawn = p.drawn
      /\ q.playing = p.playing /\ q.button = p.button /\ q.timers = p.timers
      /\ q.handle = p.handle
  BY DEF PageOK, PageTypeOK, Pages
<1>5. q \in Pages({q.flying})
  BY <1>2, <1>4 DEF PageOK, PageTypeOK, Pages
<1> HIDE DEF q
<1>6. PageTypeOK(q)
  BY <1>4, <1>5 DEF PageOK, PageTypeOK
<1>7. Goes(p, q, l)
  BY <1>4, <1>6, ControlsGo
<1>8. Timely(q)
  BY <1>4 DEF Timely, Timed
<1>9. Goes(q, SetCurrentFrame(q, 0), l) /\ Timely(SetCurrentFrame(q, 0))
  BY <1>7, <1>8, SetCurrentFrameGoes DEF Goes
<1> QED BY <1>3, <1>7, <1>9, GoesOn

-----------------------------------------------------------------------------
(* The continuations, one after the other                                  *)

\* One continuation.
LEMMA ContinueGoes ==
  ASSUME cell \in Traces, NEW l \in Int, l <= cell, NEW p, PageOK(p, l), Timely(p), p.counts # 0,
         NEW c \in Continuations, p.good => c.view = "controls" \/ l <= c.gen
  PROVE  Goes(p, Continue(c, p), l) /\ Timely(Continue(c, p))
<1>1. CASE c.view = "controls"
  BY <1>1, RangeKnownGoes DEF Continue
<1>2. CASE c.view # "controls"
  <2> DEFINE v == c.view
             f == c.frame
             g == c.gen
  <2>1. v \in Views /\ f \in Frames /\ g \in Traces \union {0} /\ (p.good => l <= g)
    BY <1>2 DEF Continuations
  <2> HIDE DEF v, f, g
  <2>2. Goes(p, Draw(p, v, f, g), l) /\ SameTimer(p, Draw(p, v, f, g))
    BY <2>1, DrawGoes
  <2>3. Continue(c, p) = Draw(p, v, f, g)
    BY <1>2 DEF Continue, v, f, g
  <2>4. Timely(Draw(p, v, f, g))
    BY <2>2 DEF SameTimer, Timely, Timed
  <2> QED BY <2>2, <2>3, <2>4
<1> QED BY <1>1, <1>2

\* The pages after 0, 1, ... k continuations.
IsAfter(f, p, k) ==
  f = [n \in 0 .. k |-> IF n = 0 THEN p ELSE Continue(p.waiting[n], f[n - 1])]

\* The function that Continued is defined by is there.
LEMMA AfterExists ==
  ASSUME NEW p, NEW k \in Nat
  PROVE  \E f : IsAfter(f, p, k)
<1> DEFINE S == {n \in 0 .. k : ~ \E f : IsAfter(f, p, n)}
<1>1. SUFFICES ASSUME S # {} PROVE FALSE
  OBVIOUS
<1> DEFINE m == Min(S)
<1>2. m \in S /\ \A n \in S : m <= n
  BY <1>1, LeastOfNats
<1> HIDE DEF m
<1>3. CASE m = 0
  <2> DEFINE f == [n \in 0 .. 0 |-> p]
  <2>1. IsAfter(f, p, 0)
    BY DEF IsAfter
  <2> QED BY <1>2, <1>3, <2>1
<1>4. CASE m # 0
  <2>1. m - 1 \in 0 .. k /\ m - 1 \notin S
    BY <1>2, <1>4
  <2>2. PICK f : IsAfter(f, p, m - 1)
    BY <2>1
  <2> DEFINE g == [n \in 0 .. m |-> IF n = m THEN Continue(p.waiting[m], f[m - 1]) ELSE f[n]]
  <2>3. \A n \in 0 .. m - 1 : f[n] = IF n = 0 THEN p ELSE Continue(p.waiting[n], f[n - 1])
    BY <2>2 DEF IsAfter
  <2>4. m \in Nat
    BY <1>2
  <2>5. ASSUME NEW n \in 0 .. m
        PROVE  g[n] = IF n = 0 THEN p ELSE Continue(p.waiting[n], g[n - 1])
    <3>1. CASE n = m
      <4>1. g[n - 1] = f[m - 1]
        BY <1>4, <2>4, <3>1
      <4>2. g[n] = Continue(p.waiting[m], f[m - 1])
        BY <2>4, <3>1
      <4> QED BY <1>4, <3>1, <4>1, <4>2
    <3>2. CASE n # m
      <4>1. n \in 0 .. m - 1 /\ g[n] = f[n]
        BY <2>4, <3>2
      <4>2. CASE n = 0
        BY <2>3, <4>1, <4>2
      <4>3. CASE n # 0
        <5>1. n - 1 \in 0 .. m /\ n - 1 # m
          BY <2>4, <4>1, <4>3
        <5>2. g[n - 1] = f[n - 1]
          BY <5>1
        <5> QED BY <2>3, <4>1, <4>3, <5>2
      <4> QED BY <4>2, <4>3
    <3> QED BY <3>1, <3>2
  <2>6. DOMAIN g = 0 .. m
    OBVIOUS
  <2>7. g = [n \in DOMAIN g |-> g[n]]
    OBVIOUS
  <2> HIDE DEF g
  <2>8. IsAfter(g, p, m)
    BY <2>5, <2>6, <2>7 DEF IsAfter
  <2> QED BY <1>2, <2>8
<1> QED BY <1>3, <1>4

\* All of them: the least one that went wrong would have had a good page.
LEMMA ContinuedGoes ==
  ASSUME cell \in Traces, NEW l \in Int, l <= cell, NEW p, PageOK(p, l), Timely(p), p.counts # 0
  PROVE  Goes(p, Continued(p), l) /\ Timely(Continued(p))
<1> DEFINE w == p.waiting
           k == Len(w)
           f == CHOOSE f : IsAfter(f, p, k)
<1>1. w \in Seq(Continuations)
  BY DEF PageOK, PageTypeOK, Pages, Continuations
<1>2. k \in Nat /\ \A n \in 1 .. k : w[n] \in Continuations /\ n \in DOMAIN w
  BY <1>1
<1>3. Continued(p) = f[k]
  BY DEF Continued, IsAfter
<1>4. IsAfter(f, p, k)
  BY <1>2, AfterExists
<1> HIDE DEF f
<1>5. \A n \in 0 .. k : f[n] = IF n = 0 THEN p ELSE Continue(w[n], f[n - 1])
  BY <1>4 DEF IsAfter
<1> HIDE DEF k, w
<1> DEFINE G(q) == Goes(p, q, l) /\ Timely(q)
           S == {n \in 0 .. k : ~G(f[n])}
<1>6. S = {}
  <2>1. SUFFICES ASSUME S # {} PROVE FALSE
    OBVIOUS
  <2> DEFINE m == Min(S)
  <2>2. m \in S /\ \A n \in S : m <= n
    BY <1>2, <2>1, LeastOfNats
  <2> HIDE DEF m
  <2>3. CASE m = 0
    <3>1. f[m] = p
      BY <1>2, <1>5, <2>3
    <3>2. Goes(p, p, l)
      BY ControlsGo DEF PageOK
    <3> QED BY <2>2, <3>1, <3>2
  <2>4. CASE m # 0
    <3>1. m \in 1 .. k /\ m - 1 \in 0 .. k /\ m - 1 \notin S
      BY <1>2, <2>2, <2>4
    <3> DEFINE q == f[m - 1]
               c == w[m]
    <3>2. G(q)
      BY <3>1
    <3>3. f[m] = Continue(c, q)
      BY <1>5, <2>4, <3>1
    <3> HIDE DEF q, c, S
    <3>4. c \in Continuations /\ PageOK(q, l) /\ q.counts # 0 /\ q.good = p.good
      BY <1>2, <3>1, <3>2 DEF Goes, c
    <3>5. p.good => c.view = "controls" \/ l <= c.gen
      BY <1>2, <3>1 DEF PageOK, Current, w, c
    <3>6. Goes(q, Continue(c, q), l) /\ Timely(Continue(c, q))
      BY <3>2, <3>4, <3>5, ContinueGoes
    <3>7. G(Continue(c, q))
      BY <3>2, <3>6, GoesOn
    <3> QED BY <2>2, <3>3, <3>7 DEF S
  <2> QED BY <2>3, <2>4
<1> QED BY <1>2, <1>3, <1>6

-----------------------------------------------------------------------------
(* The steps of the page                                                   *)

\* What FrontInv says of a page.
FrontOK(p, l) == PageOK(p, l) /\ AskedOnce(p) /\ Timely(p)

\* The functions of a step together.
LEMMA GoesWell ==
  ASSUME NEW l, NEW p, FrontOK(p, l), NEW q, Goes(p, q, l), Timely(q)
  PROVE  FrontOK(q, l) /\ DrawnFresh(p, q, l)
BY DEF FrontOK, Goes

\* Nothing is under way in the empty bag.
LEMMA EmptyIsBag == IsABag(EmptyBag) /\ BagToSet(EmptyBag) = {}
<1>1. EmptyBag = [e \in {} |-> 1]
  BY DEF EmptyBag, SetToBag
<1> QED BY <1>1 DEF IsABag, BagToSet

\* The page is told of a change, and the data it fetches is of that change.
LEMMA InitPageOK ==
  ASSUME cell \in Traces, NEW l \in Int, NEW m \in Int, m <= cell, NEW p, FrontOK(p, l)
  PROVE  FrontOK(InitPage(p), m)
<1> DEFINE q == [Abort(p) EXCEPT !.good = TRUE, !.counts = 0, !.pending = FALSE, !.waiting = <<>>,
                                 !.mem = NoData, !.context = NoData]
           s == FCounts(q, SetRange)
<1>1. InitPage(p) = FMemStatus(s, "grid", 0)
  BY DEF InitPage
<1>2. /\ q.flying = EmptyBag /\ q.good = TRUE /\ q.counts = 0 /\ q.pending = FALSE
      /\ q.waiting = <<>> /\ q.mem = NoData /\ q.context = NoData
      /\ q.playing = p.playing /\ q.button = p.button /\ q.timers = p.timers
      /\ q.handle = p.handle
  BY DEF FrontOK, PageOK, PageTypeOK, Pages, Abort
<1>3. NoData \in [Frames -> Traces \union {0}] /\ <<>> \in Seq(Continuations)
  BY DEF NoData
<1>4. q \in Pages({q.flying})
  BY <1>2, <1>3, ZenonT(30) DEF FrontOK, PageOK, PageTypeOK, Pages, Abort, Continuations
<1> HIDE DEF q
<1>5. PageTypeOK(q)
  BY <1>2, <1>4, EmptyIsBag DEF PageTypeOK
<1>6. Cached(q) = {0}
  BY <1>2, NumberFacts DEF Cached, NoData
<1>7. Current(q, m, cell)
  BY <1>2, <1>6, EmptyIsBag, NumberFacts DEF Current
<1>8. FrontOK(q, m)
  BY <1>2, <1>5, <1>7, EmptyIsBag DEF FrontOK, PageOK, AskedOnce, Timely, Timed
<1>9. SetRange \in Continuations /\ SetRange.view = "controls"
  BY NumberFacts DEF SetRange, Continuations
<1>10. Goes(q, s, m) /\ SameTimer(q, s)
  BY <1>2, <1>8, <1>9, FCountsGoes DEF FrontOK
<1> HIDE DEF s
<1>11. "grid" \in Views /\ 0 \in Frames
  BY NumberFacts DEF Views
<1>12. Goes(s, FMemStatus(s, "grid", 0), m) /\ SameTimer(s, FMemStatus(s, "grid", 0))
  BY <1>10, <1>11, FMemStatusGoes DEF Goes
<1> QED BY <1>1, <1>8, <1>10, <1>12 DEF FrontOK, Goes, SameTimer, Timely, Timed

\* The page is told that there is nothing to show.
LEMMA CleanPageOK ==
  ASSUME cell \in Traces, NEW l \in Int, NEW m \in Int, NEW p, FrontOK(p, l)
  PROVE  FrontOK(CleanPage(p), m)
<1> DEFINE q == CleanPage(p)
<1>1. p.pending \in BOOLEAN /\ (p.waiting # <<>> => p.pending)
  BY DEF FrontOK, PageOK, PageTypeOK, Pages, AskedOnce
<1>2. /\ q.flying = EmptyBag /\ q.good = FALSE /\ q.counts = p.counts /\ q.pending = FALSE
      /\ q.waiting = <<>> /\ q.mem = p.mem /\ q.context = p.context
      /\ q.playing = p.playing /\ q.button = p.button /\ q.timers = p.timers
      /\ q.handle = p.handle
  BY <1>1 DEF FrontOK, PageOK, PageTypeOK, Pages, CleanPage, Abort
<1>3. <<>> \in Seq(Continuations)
  OBVIOUS
<1>4. q \in Pages({q.flying})
  BY <1>2, <1>3 DEF FrontOK, PageOK, PageTypeOK, Pages, CleanPage, Abort, Continuations
<1> HIDE DEF q
<1>5. PageTypeOK(q)
  BY <1>2, <1>4, EmptyIsBag DEF PageTypeOK
<1>6. Current(q, m, cell)
  BY <1>2, EmptyIsBag DEF FrontOK, PageOK, Current, Cached
<1> QED BY <1>2, <1>5, <1>6, EmptyIsBag DEF FrontOK, PageOK, AskedOnce, Timely, Timed, q

\* An answer is there, or a request has failed.
LEMMA ArrivedFacts ==
  ASSUME FrontOK(page, last), NEW r \in BagToSet(page.flying), NEW q, q = Arrived(r)
  PROVE  /\ r \in Requests /\ last <= r.since /\ r.since <= cell
         /\ PageOK(q, last) /\ Timely(q)
         /\ q.good = page.good /\ q.drawn = page.drawn
         /\ q.waiting = page.waiting /\ q.pending = page.pending
         /\ r.what # "counts" => AskedOnce(q)
         /\ r.what = "counts" => CountAsks(q) = {}
<1> DEFINE F == page.flying
           B == F (-) SetToBag({r})
<1>1. IsABag(F) /\ B = F (-) SetToBag({r}) /\ r \in BagToSet(F)
  BY DEF FrontOK, PageOK, PageTypeOK
<1>2. q = [page EXCEPT !.flying = B]
  BY DEF Arrived
<1> HIDE DEF B
<1>3. /\ IsABag(B) /\ BagToSet(B) \subseteq BagToSet(F)
      /\ \A s \in BagToSet(F) : s # r => s \in BagToSet(B) /\ B[s] = F[s]
      /\ F[r] = 1 => r \notin BagToSet(B)
  <2> HIDE DEF F
  <2>0. IsABag(B)
    BY ONLY <1>1, BagTake
  <2>1. BagToSet(B) \union BagToSet(F) = BagToSet(F)
    BY ONLY <1>1, BagTake
  <2>2. F[r] = 1 => r \notin BagToSet(B)
    BY ONLY <1>1, BagTake
  <2>3. ASSUME NEW s \in BagToSet(F), s # r PROVE s \in BagToSet(B) /\ B[s] = F[s]
    BY ONLY <1>1, <2>3, BagTake
  <2> QED BY <2>0, <2>1, <2>2, <2>3
<1>4. /\ q.flying = B /\ q.good = page.good /\ q.counts = page.counts /\ q.pending = page.pending
      /\ q.waiting = page.waiting /\ q.mem = page.mem /\ q.context = page.context
      /\ q.drawn = page.drawn /\ q.playing = page.playing /\ q.button = page.button
      /\ q.timers = page.timers /\ q.handle = page.handle
  BY <1>2 DEF FrontOK, PageOK, PageTypeOK, Pages
<1>5. q \in Pages({q.flying})
  BY <1>2, <1>4 DEF FrontOK, PageOK, PageTypeOK, Pages
<1>6. PageTypeOK(q)
  BY <1>3, <1>4, <1>5 DEF FrontOK, PageOK, PageTypeOK
<1>7. Current(q, last, cell)
  BY <1>3, <1>4 DEF FrontOK, PageOK, Current, Cached
<1>8. Timely(q)
  BY <1>4 DEF FrontOK, Timely, Timed
<1>9. r \in Requests /\ last <= r.since /\ r.since <= cell
  BY DEF FrontOK, PageOK, PageTypeOK, Current
<1>10. r.what # "counts" => AskedOnce(q)
  <2>1. r.what # "counts" => CountAsks(q) = CountAsks(page) /\ \A s \in CountAsks(page) : B[s] = F[s]
    BY <1>3, <1>4 DEF CountAsks
  <2> QED BY <1>4, <2>1 DEF FrontOK, AskedOnce, CountAsks
<1>11. r.what = "counts" => CountAsks(q) = {}
  BY <1>3, <1>4 DEF FrontOK, AskedOnce, CountAsks
<1> QED BY <1>4, <1>6, <1>7, <1>8, <1>9, <1>10, <1>11 DEF PageOK

\* What a step of the page must keep: it is not told of a change.
StepOK == FrontOK(page', last) /\ DrawnFresh(page, page', last)

\* The counts are there, and with them those who waited for them.
LEMMA AnswerCountsGoes ==
  ASSUME cell \in Traces, last \in Int, last <= cell, FrontOK(page, last),
         NEW r \in BagToSet(page.flying), NEW g \in r.since .. cell, AnswerCounts(r, g)
  PROVE  StepOK
<1> DEFINE q == Arrived(r)
           s == [q EXCEPT !.counts = g]
           t == Continued(s)
           u == [t EXCEPT !.waiting = <<>>, !.pending = FALSE]
<1>0. q = Arrived(r)
  OBVIOUS
<1>1. r.what = "counts" /\ page' = u
  BY DEF AnswerCounts, Step
<1> HIDE DEF q
<1>2. /\ r \in Requests /\ last <= r.since
      /\ PageOK(q, last) /\ Timely(q)
      /\ q.good = page.good /\ q.drawn = page.drawn /\ CountAsks(q) = {}
  BY <1>0, <1>1, ArrivedFacts
<1>3. g \in Traces /\ g # 0 /\ last <= g /\ g <= cell
  BY <1>2, NumberFacts DEF Requests, Traces
<1>4. /\ s.flying = q.flying /\ s.good = q.good /\ s.counts = g /\ s.pending = q.pending
      /\ s.waiting = q.waiting /\ s.mem = q.mem /\ s.context = q.context /\ s.drawn = q.drawn
      /\ s.playing = q.playing /\ s.button = q.button /\ s.timers = q.timers
      /\ s.handle = q.handle
  BY <1>2 DEF PageOK, PageTypeOK, Pages
<1>5. s \in Pages({s.flying})
  BY <1>2, <1>3, <1>4 DEF PageOK, PageTypeOK, Pages
<1> HIDE DEF s
<1>6. PageTypeOK(s)
  BY <1>2, <1>4, <1>5 DEF PageOK, PageTypeOK
<1>7. Current(s, last, cell)
  BY <1>2, <1>3, <1>4 DEF PageOK, Current, Cached
<1>8. PageOK(s, last) /\ Timely(s) /\ s.counts # 0 /\ CountAsks(s) = {}
  BY <1>2, <1>3, <1>4, <1>6, <1>7 DEF PageOK, Timely, Timed, CountAsks
<1>9. Goes(s, t, last) /\ Timely(t)
  BY <1>8, ContinuedGoes
<1> HIDE DEF t
<1>10. PageOK(t, last) /\ CountAsks(t) = {} /\ t.good = s.good /\ DrawnFresh(s, t, last)
  BY <1>8, <1>9 DEF Goes, SameCounts
<1>11. /\ u.flying = t.flying /\ u.good = t.good /\ u.counts = t.counts /\ u.pending = FALSE
       /\ u.waiting = <<>> /\ u.mem = t.mem /\ u.context = t.context /\ u.drawn = t.drawn
       /\ u.playing = t.playing /\ u.button = t.button /\ u.timers = t.timers
       /\ u.handle = t.handle
  BY <1>10 DEF PageOK, PageTypeOK, Pages
<1>12. <<>> \in Seq(Continuations)
  OBVIOUS
<1>13. u \in Pages({u.flying})
  BY <1>10, <1>11, <1>12 DEF PageOK, PageTypeOK, Pages, Continuations
<1> HIDE DEF u
<1>14. PageTypeOK(u)
  BY <1>10, <1>11, <1>13 DEF PageOK, PageTypeOK
<1>15. Current(u, last, cell)
  BY <1>10, <1>11 DEF PageOK, Current, Cached
<1>16. AskedOnce(u) /\ Timely(u)
  BY <1>9, <1>10, <1>11 DEF AskedOnce, CountAsks, Timely, Timed
<1>17. DrawnFresh(page, u, last)
  BY <1>2, <1>4, <1>10, <1>11 DEF DrawnFresh
<1> QED BY <1>1, <1>14, <1>15, <1>16, <1>17 DEF StepOK, FrontOK, PageOK

\* Data of a frame is there, and is drawn, or waits for the counts.
LEMMA AnswerMemStatusGoes ==
  ASSUME cell \in Traces, last \in Int, last <= cell, FrontOK(page, last),
         NEW r \in BagToSet(page.flying), NEW g \in r.since .. cell, AnswerMemStatus(r, g)
  PROVE  StepOK
<1> DEFINE q == Arrived(r)
           v == r.what
           f == r.frame
           e == [q.mem EXCEPT ![f] = g]
           s == [q EXCEPT !.mem = e]
<1>0. q = Arrived(r)
  OBVIOUS
<1>1. r.what \in {"mem", "grid"}
      /\ page' = GotMemStatus([Arrived(r) EXCEPT !.mem[r.frame] = g], r.what, r.frame, g)
  BY DEF AnswerMemStatus, Step
<1> HIDE DEF q
<1>2. /\ r \in Requests /\ last <= r.since
      /\ PageOK(q, last) /\ Timely(q) /\ AskedOnce(q)
      /\ q.good = page.good /\ q.drawn = page.drawn
  BY <1>0, <1>1, ArrivedFacts
<1>3. g \in Traces /\ last <= g /\ g <= cell
  BY <1>2, NumberFacts DEF Requests, Traces
<1>4. v \in Views /\ f \in Frames /\ q.mem \in [Frames -> Traces \union {0}]
  BY <1>1, <1>2 DEF Requests, Views, PageOK, PageTypeOK, Pages
<1>5. page' = GotMemStatus(s, v, f, g)
  BY <1>0, <1>1, <1>2, <1>4 DEF PageOK, PageTypeOK, Pages
<1>6. e \in [Frames -> Traces \union {0}] /\ \A x \in Frames : e[x] = g \/ e[x] = q.mem[x]
  BY <1>3, <1>4
<1> HIDE DEF e, v, f
<1>7. /\ s.flying = q.flying /\ s.good = q.good /\ s.counts = q.counts /\ s.pending = q.pending
      /\ s.waiting = q.waiting /\ s.mem = e /\ s.context = q.context /\ s.drawn = q.drawn
      /\ s.playing = q.playing /\ s.button = q.button /\ s.timers = q.timers
      /\ s.handle = q.handle
  BY <1>2 DEF PageOK, PageTypeOK, Pages
<1>8. s \in Pages({s.flying})
  BY <1>2, <1>6, <1>7 DEF PageOK, PageTypeOK, Pages
<1> HIDE DEF s
<1>9. PageTypeOK(s)
  BY <1>2, <1>7, <1>8 DEF PageOK, PageTypeOK
<1>10. Current(s, last, cell)
  BY <1>2, <1>3, <1>6, <1>7 DEF PageOK, Current, Cached
<1>11. FrontOK(s, last)
  BY <1>2, <1>7, <1>9, <1>10 DEF FrontOK, PageOK, Timely, Timed, AskedOnce
<1>12. Goes(s, page', last) /\ SameTimer(s, page')
  BY <1>3, <1>4, <1>5, <1>11, GotMemStatusGoes DEF FrontOK
<1>13. FrontOK(page', last) /\ DrawnFresh(s, page', last)
  BY <1>11, <1>12 DEF FrontOK, Goes, SameTimer, Timely, Timed
<1>14. DrawnFresh(page, page', last)
  BY <1>2, <1>7, <1>13 DEF DrawnFresh
<1> QED BY <1>13, <1>14 DEF StepOK

\* A context is there, and is drawn.
LEMMA AnswerContextGoes ==
  ASSUME cell \in Traces, last \in Int, last <= cell, FrontOK(page, last),
         NEW r \in BagToSet(page.flying), NEW g \in r.since .. cell, AnswerContext(r, g)
  PROVE  StepOK
<1> DEFINE q == Arrived(r)
           f == r.frame
           e == [q.context EXCEPT ![f] = g]
           s == [q EXCEPT !.context = e]
<1>0. q = Arrived(r)
  OBVIOUS
<1>1. r.what = "context"
      /\ page' = Draw([Arrived(r) EXCEPT !.context[r.frame] = g], "context", r.frame, g)
  BY DEF AnswerContext, Step
<1> HIDE DEF q
<1>2. /\ r \in Requests /\ last <= r.since
      /\ PageOK(q, last) /\ Timely(q) /\ AskedOnce(q)
      /\ q.good = page.good /\ q.drawn = page.drawn
  BY <1>0, <1>1, ArrivedFacts
<1>3. g \in Traces /\ last <= g /\ g <= cell
  BY <1>2, NumberFacts DEF Requests, Traces
<1>4. "context" \in Views /\ f \in Frames /\ q.context \in [Frames -> Traces \union {0}]
  BY <1>2 DEF Requests, Views, PageOK, PageTypeOK, Pages
<1>5. page' = Draw(s, "context", f, g)
  BY <1>0, <1>1, <1>2, <1>4 DEF PageOK, PageTypeOK, Pages
<1>6. e \in [Frames -> Traces \union {0}] /\ \A x \in Frames : e[x] = g \/ e[x] = q.context[x]
  BY <1>3, <1>4
<1> HIDE DEF e, f
<1>7. /\ s.flying = q.flying /\ s.good = q.good /\ s.counts = q.counts /\ s.pending = q.pending
      /\ s.waiting = q.waiting /\ s.mem = q.mem /\ s.context = e /\ s.drawn = q.drawn
      /\ s.playing = q.playing /\ s.button = q.button /\ s.timers = q.timers
      /\ s.handle = q.handle
  BY <1>2 DEF PageOK, PageTypeOK, Pages
<1>8. s \in Pages({s.flying})
  BY <1>2, <1>6, <1>7 DEF PageOK, PageTypeOK, Pages
<1> HIDE DEF s
<1>9. PageTypeOK(s)
  BY <1>2, <1>7, <1>8 DEF PageOK, PageTypeOK
<1>10. Current(s, last, cell)
  BY <1>2, <1>3, <1>6, <1>7 DEF PageOK, Current, Cached
<1>11. FrontOK(s, last)
  BY <1>2, <1>7, <1>9, <1>10 DEF FrontOK, PageOK, Timely, Timed, AskedOnce
<1>12. Goes(s, page', last) /\ SameTimer(s, page')
  BY <1>3, <1>4, <1>5, <1>11, DrawGoes DEF FrontOK
<1>13. FrontOK(page', last) /\ DrawnFresh(s, page', last)
  BY <1>11, <1>12 DEF FrontOK, Goes, SameTimer, Timely, Timed
<1>14. DrawnFresh(page, page', last)
  BY <1>2, <1>7, <1>13 DEF DrawnFresh
<1> QED BY <1>13, <1>14 DEF StepOK

\* A request fails.
LEMMA FailGoes ==
  ASSUME cell \in Traces, last \in Int, last <= cell, FrontOK(page, last),
         NEW r \in BagToSet(page.flying), Fail(r)
  PROVE  StepOK
<1> DEFINE q == Arrived(r)
           u == [q EXCEPT !.waiting = <<>>, !.pending = FALSE]
<1>0. q = Arrived(r)
  OBVIOUS
<1>1. page' = IF r.what = "counts" THEN u ELSE q
  BY DEF Fail, Step
<1> HIDE DEF q
<1>2. /\ PageOK(q, last) /\ Timely(q)
      /\ q.good = page.good /\ q.drawn = page.drawn
      /\ r.what # "counts" => AskedOnce(q)
      /\ r.what = "counts" => CountAsks(q) = {}
  BY <1>0, ArrivedFacts
<1>3. CASE r.what # "counts"
  BY <1>1, <1>2, <1>3 DEF StepOK, FrontOK, DrawnFresh
<1>4. CASE r.what = "counts"
  <2>1. /\ u.flying = q.flying /\ u.good = q.good /\ u.counts = q.counts /\ u.pending = FALSE
        /\ u.waiting = <<>> /\ u.mem = q.mem /\ u.context = q.context /\ u.drawn = q.drawn
        /\ u.playing = q.playing /\ u.button = q.button /\ u.timers = q.timers
        /\ u.handle = q.handle
    BY <1>2 DEF PageOK, PageTypeOK, Pages
  <2>2. <<>> \in Seq(Continuations)
    OBVIOUS
  <2>3. u \in Pages({u.flying})
    BY <1>2, <2>1, <2>2 DEF PageOK, PageTypeOK, Pages, Continuations
  <2> HIDE DEF u
  <2>4. PageTypeOK(u)
    BY <1>2, <2>1, <2>3 DEF PageOK, PageTypeOK
  <2>5. Current(u, last, cell)
    BY <1>2, <2>1 DEF PageOK, Current, Cached
  <2>6. AskedOnce(u) /\ Timely(u) /\ DrawnFresh(page, u, last)
    BY <1>2, <1>4, <2>1 DEF AskedOnce, CountAsks, Timely, Timed, DrawnFresh
  <2> QED BY <1>1, <1>4, <2>4, <2>5, <2>6 DEF StepOK, FrontOK, PageOK
<1> QED BY <1>3, <1>4

\* The controls and the timer.
LEMMA ControlsGood ==
  ASSUME cell \in Traces, last \in Int, last <= cell, FrontOK(page, last), User \/ Tick
  PROVE  StepOK
<1>1. page.current \in Int /\ page.playing \in BOOLEAN
  BY NumberFacts DEF FrontOK, PageOK, PageTypeOK, Pages
<1>2. \A f \in Int : LET q == SetCurrentFrame(page, f) IN
        FrontOK(q, last) /\ DrawnFresh(page, q, last)
  BY SetCurrentFrameGoes, GoesWell DEF FrontOK
<1>3. FrontOK(Pause(page), last) /\ DrawnFresh(page, Pause(page), last)
  BY PauseGoes, GoesWell DEF FrontOK
<1>4. ~page.playing => FrontOK(Play(page), last) /\ DrawnFresh(page, Play(page), last)
  BY PlayGoes, GoesWell DEF FrontOK
<1>5. CASE \E amount \in {-1, 1} : KeyStep(amount)
  <2>1. \E f \in Int : page' = SetCurrentFrame(page, f)
    BY <1>1, <1>5 DEF KeyStep, Step
  <2> QED BY <1>2, <2>1 DEF StepOK
<1>6. CASE KeyPlay
  BY <1>3, <1>4, <1>6 DEF KeyPlay, Step, StepOK
<1>7. CASE ClickPlay
  <2>1. page.button = "play" => ~page.playing
    BY DEF FrontOK, Timely, Timed
  <2> QED BY <1>3, <1>4, <1>7, <2>1 DEF ClickPlay, Step, StepOK
<1>8. CASE \E f \in Frames : Slide(f)
  <2>1. \E f \in Int : page' = SetCurrentFrame(page, f)
    BY <1>8, NumberFacts DEF Slide, Step
  <2> QED BY <1>2, <2>1 DEF StepOK
<1>9. CASE Tick
  <2>1. \E f \in Int : page' = SetCurrentFrame(page, f)
    BY <1>1, <1>9 DEF Tick, Step
  <2> QED BY <1>2, <2>1 DEF StepOK
<1> QED BY <1>5, <1>6, <1>7, <1>8, <1>9 DEF User

-----------------------------------------------------------------------------
(* The theorems                                                            *)

\* FrontInv in the terms of the lemmas above.
LEMMA FrontInvIs ==
  FrontInv <=> /\ cell \in Traces /\ counted \in Traces /\ last \in Traces \union {-1}
               /\ last <= counted /\ counted <= cell
               /\ FrontOK(page, last)
BY DEF FrontInv, FrontTypeOK, CountsAskedOnce, OneTimer, FrontOK, PageOK, Timely

\* A page that has just been loaded.
LEMMA FrontInitInv == FrontInit => FrontInv
<1> SUFFICES ASSUME FrontInit PROVE FrontInv
  OBVIOUS
<1>1. 1 \in Traces /\ 0 \in Frames /\ <<>> \in Seq(Continuations)
  BY NumberFacts DEF Traces
<1>2. cell = 1 /\ counted = 1 /\ last = -1
  BY DEF FrontInit
<1>3. NoData \in [Frames -> Traces \union {0}]
  BY DEF NoData
<1>4. [v \in Views |-> Nothing] \in [Views -> [frame : Frames, gen : Traces \union {0}]]
  BY <1>1 DEF Nothing
<1>5. page \in Pages({page.flying})
  BY <1>1, <1>3, <1>4 DEF FrontInit, Pages, Continuations
<1>6. PageTypeOK(page)
  BY <1>5, EmptyIsBag DEF FrontInit, PageTypeOK
<1>7. Cached(page) = {0}
  BY <1>1 DEF FrontInit, Cached, NoData
<1>8. Current(page, last, cell)
  <2>1. page.good = FALSE /\ BagToSet(page.flying) = {}
    BY EmptyIsBag DEF FrontInit
  <2> QED BY <1>2, <1>7, <2>1 DEF Current
<1>9. AskedOnce(page) /\ Timely(page)
  BY EmptyIsBag DEF FrontInit, AskedOnce, Timely, Timed
<1> QED BY <1>1, <1>2, <1>6, <1>8, <1>9, FrontInvIs DEF FrontOK, PageOK

\* The page goes on with a change it has seen, and a change of the server only
\* makes more data possible.
LEMMA FrontStep ==
  ASSUME FrontInv, [FrontNext]_frontVars
  PROVE  FrontInv' /\ (last' = last => DrawnFresh(page, page', last))
<1>1. /\ cell \in Traces /\ counted \in Traces /\ last \in Traces \union {-1}
      /\ last <= counted /\ counted <= cell
      /\ FrontOK(page, last)
  BY FrontInvIs
<1>2. cell \in Int /\ counted \in Int /\ last \in Int /\ last <= cell
  BY <1>1, NumberFacts
<1>3. CASE \E text \in {"GOOD", "BUSY"} : Poll(text)
  <2>1. /\ last' = counted /\ last' # last /\ cell' = cell /\ counted' = counted
        /\ page' = InitPage(page) \/ page' = CleanPage(page)
    BY <1>3 DEF Poll
  <2>2. FrontOK(page', counted)
    BY <1>1, <1>2, <2>1, InitPageOK, CleanPageOK
  <2>3. AskedOnce(page') /\ Timely(page') /\ PageTypeOK(page') /\ Current(page', counted, cell)
    BY <2>2 DEF FrontOK, PageOK
  <2> QED BY <1>1, <1>2, <2>1, <2>3
          DEF FrontInv, FrontTypeOK, CountsAskedOnce, OneTimer, Timely
<1>4. CASE Build
  <2>1. /\ cell' = cell + 1 /\ cell' \in Traces
        /\ last' = last /\ counted' = counted /\ page' = page
    BY <1>1, <1>2, <1>4, NumberFacts DEF Build, Traces
  <2>2. \A g \in Cached(page) : g \in Int
    BY <1>1, NumberFacts DEF FrontOK, PageOK, PageTypeOK, Pages, Cached
  <2>3. \A r \in BagToSet(page.flying) : r.since \in Int
    <3>1. BagToSet(page.flying) \subseteq Requests
      BY <1>1 DEF FrontOK, PageOK, PageTypeOK
    <3>2. \A r \in Requests : r.since \in Traces
      BY DEF Requests
    <3>3. \A g \in Traces : g \in Int
      BY NumberFacts
    <3> QED BY <3>1, <3>2, <3>3
  <2>4. Current(page, last, cell')
    BY <1>1, <1>2, <2>1, <2>2, <2>3 DEF FrontOK, PageOK, Current
  <2>5. AskedOnce(page) /\ Timely(page) /\ PageTypeOK(page)
    BY <1>1 DEF FrontOK, PageOK
  <2> QED BY <1>1, <1>2, <2>1, <2>4, <2>5
          DEF FrontInv, FrontTypeOK, CountsAskedOnce, OneTimer, Timely, DrawnFresh
<1>5. CASE Announce
  <2>1. cell' = cell /\ last' = last /\ counted' = cell /\ page' = page
    BY <1>5 DEF Announce
  <2> QED BY <1>1, <1>2, <2>1
          DEF FrontInv, FrontTypeOK, CountsAskedOnce, OneTimer, DrawnFresh
<1>6. CASE StepOK /\ UNCHANGED <<cell, counted, last>>
  <2>1. /\ cell' = cell /\ counted' = counted /\ last' = last
        /\ DrawnFresh(page, page', last)
    BY <1>6 DEF StepOK
  <2>2. AskedOnce(page') /\ Timely(page') /\ PageTypeOK(page') /\ Current(page', last, cell)
    BY <1>6 DEF StepOK, FrontOK, PageOK
  <2> QED BY <1>1, <2>1, <2>2
          DEF FrontInv, FrontTypeOK, CountsAskedOnce, OneTimer, Timely
<1>7. CASE Answer
  <2>0. PICK r \in BagToSet(page.flying) : \E g \in r.since .. cell :
          AnswerCounts(r, g) \/ AnswerMemStatus(r, g) \/ AnswerContext(r, g)
    BY <1>7 DEF Answer
  <2>1. PICK g \in r.since .. cell :
          AnswerCounts(r, g) \/ AnswerMemStatus(r, g) \/ AnswerContext(r, g)
    BY <2>0
  <2>2. UNCHANGED <<cell, counted, last>>
    BY <2>1 DEF AnswerCounts, AnswerMemStatus, AnswerContext, Step
  <2>3. StepOK
    BY <1>1, <1>2, <2>1, AnswerCountsGoes, AnswerMemStatusGoes, AnswerContextGoes
  <2> QED BY <1>6, <2>2, <2>3
<1>8. CASE \E r \in BagToSet(page.flying) : Fail(r)
  <2>1. UNCHANGED <<cell, counted, last>>
    BY <1>8 DEF Fail, Step
  <2> QED BY <1>1, <1>2, <1>6, <1>8, <2>1, FailGoes
<1>9. CASE User \/ Tick
  <2>1. UNCHANGED <<cell, counted, last>>
    BY <1>9 DEF User, KeyStep, KeyPlay, ClickPlay, Slide, Tick, Step
  <2> QED BY <1>1, <1>2, <1>6, <1>9, <2>1, ControlsGood
<1>10. CASE UNCHANGED frontVars
  BY <1>10 DEF frontVars, FrontInv, FrontTypeOK, CountsAskedOnce, OneTimer, DrawnFresh
<1> QED BY <1>3, <1>4, <1>5, <1>7, <1>8, <1>9, <1>10 DEF FrontNext

\* FrontInv holds for any traces, and any number of requests and continuations.
THEOREM FrontInvariant == FrontSpec => []FrontInv
<1>1. FrontInv /\ [FrontNext]_frontVars => FrontInv'
  BY FrontStep
<1> QED BY FrontInitInv, <1>1, PTL DEF FrontSpec

\* f_counts has one request at a time, and nobody waits without one.
THEOREM CountsAreAskedOnce == FrontSpec => []CountsAskedOnce
<1>1. FrontInv => CountsAskedOnce
  BY DEF FrontInv
<1> QED BY <1>1, FrontInvariant, PTL

\* One interval runs while the page plays, none else, and the button says so.
THEOREM TimerIsOne == FrontSpec => []OneTimer
<1>1. FrontInv => OneTimer
  BY DEF FrontInv
<1> QED BY <1>1, FrontInvariant, PTL

\* The data of a good page is at least as new as the change it has seen.
THEOREM CacheStaysFresh == FrontSpec => []CacheIsFresh
<1>1. FrontInv => CacheIsFresh
  BY DEF FrontInv, CacheIsFresh, Current
<1> QED BY <1>1, FrontInvariant, PTL

\* And so is what it draws.
THEOREM DrawingsAreFresh == FrontSpec => DrawsAreFresh
<1> DEFINE A == \A v \in Views :
       page.good /\ page'.good /\ last' = last /\ page'.drawn[v] # page.drawn[v]
         => page'.drawn[v].gen >= last
<1>1. FrontInv /\ FrontInv' /\ [FrontNext]_frontVars => [A]_frontVars
  <2> SUFFICES ASSUME FrontInv, FrontInv', [FrontNext]_frontVars, NEW v \in Views,
                      page.good, last' = last, page'.drawn[v] # page.drawn[v]
               PROVE  page'.drawn[v].gen >= last
    OBVIOUS
  <2>1. last <= page'.drawn[v].gen
    BY FrontStep DEF DrawnFresh
  <2>2. page'.drawn[v].gen \in Traces \union {0} /\ last \in Traces \union {-1}
    BY DEF FrontInv, FrontTypeOK, PageTypeOK, Pages
  <2> QED BY <2>1, <2>2, NumberFacts
<1> QED BY FrontInvariant, <1>1, PTL DEF FrontSpec, DrawsAreFresh
=============================================================================
