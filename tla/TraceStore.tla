----------------------------- MODULE TraceStore -----------------------------
(***************************************************************************)
(* What PervertLayer and its DataManagers promise, without threads, locks  *)
(* or pointers: a store of analysed traces.  A cell is built from scratch  *)
(* by one builder at a time; what comes out is a generation that was never *)
(* there before; and a finished build is announced once, by adding one to  *)
(* a number that clients watch.  Whoever asks whether a cell is good is    *)
(* told so only while it is not being rebuilt.  All of it may be lost at   *)
(* once, never in part.                                                    *)
(***************************************************************************)
EXTENDS Integers

CONSTANTS Cells, Empty

VARIABLES
  up,        \* the store is there
  cell,      \* of each cell, its generation, or Empty
  building,  \* the cells that are being rebuilt
  newest,    \* the latest generation there has been
  finished,  \* builds that have yet to be announced
  announced, \* builds that were
  vouched    \* cells that somebody is just being told are good

store == <<cell, building, newest, finished, announced, vouched>>

Blank ==
  /\ cell = [d \in Cells |-> Empty]
  /\ building = {}
  /\ newest = 0
  /\ finished = 0
  /\ announced = 0
  /\ vouched = {}

Init == up = TRUE /\ Blank

Begin(d) ==
  /\ d \notin building \union vouched
  /\ building' = building \union {d}
  /\ UNCHANGED <<up, cell, newest, finished, announced, vouched>>

Finish(d) ==
  /\ d \in building
  /\ newest' = newest + 1
  /\ cell' = [cell EXCEPT ![d] = newest']
  /\ building' = building \ {d}
  /\ finished' = finished + 1
  /\ UNCHANGED <<up, announced, vouched>>

Announce ==
  /\ finished > 0
  /\ finished' = finished - 1
  /\ announced' = announced + 1
  /\ UNCHANGED <<up, cell, building, newest, vouched>>

Vouch(d) ==
  /\ d \notin building \union vouched
  /\ vouched' = vouched \union {d}
  /\ UNCHANGED <<up, cell, building, newest, finished, announced>>

Vouched(d) ==
  /\ d \in vouched
  /\ vouched' = vouched \ {d}
  /\ UNCHANGED <<up, cell, building, newest, finished, announced>>

Lose == up /\ up' = FALSE /\ Blank'

Return == ~up /\ up' = TRUE /\ UNCHANGED store

Next ==
  \/ \E d \in Cells : Begin(d) \/ Finish(d) \/ Vouch(d) \/ Vouched(d)
  \/ Announce
  \/ Lose
  \/ Return

Spec == Init /\ [][Next]_<<up, store>>
=============================================================================
