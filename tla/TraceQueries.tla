---------------------------- MODULE TraceQueries ----------------------------
(***************************************************************************)
(* What the request handlers of PervertLayer compute from a Trace that is  *)
(* done: they read it and change nothing.                                  *)
(***************************************************************************)
EXTENDS TraceIndex

IsAccess(i) == events[i].type \in {"R", "W"}

\* The last accesses up to the frame, as many as fit into the window.
Shown(frame, window) ==
  {i \in 1 .. frame :
     IsAccess(i) /\ Cardinality({j \in i + 1 .. frame : IsAccess(j)}) < window}

Contains(m, a) == events[m].arg1 <= a /\ a < events[m].arg2

\* Mutant: an access is checked against the regions of its own time.
MemStatusThen(frame, window) ==
  [regions |-> {<<events[m].arg1, events[m].arg2>> : m \in validRegions[frame]},
   mask    |-> [i \in Shown(frame, window) |->
                  \E m \in validRegions[i] : Contains(m, events[i].arg1)]]

\* f_mem_status: the regions valid at the frame, and for each access in the
\* window whether it is to one of them.
MemStatus(frame, window) ==
  [regions |-> {<<events[m].arg1, events[m].arg2>> : m \in validRegions[frame]},
   mask    |-> [i \in Shown(frame, window) |->
                  \E m \in validRegions[frame] : Contains(m, events[i].arg1)]]

-----------------------------------------------------------------------------
\* The memory view shows the truth about the original addresses, although it
\* is computed from remapped ones: an access is valid if and only if what it
\* touched is allocated at the frame, and the regions are the blocks then
\* allocated, each with its size.
MemStatusIsTrue ==
  phase = "done" =>
    \A frame \in DOMAIN events :
      LET live == LiveAfter(file, frame)
          s == MemStatus(frame, Len(events)) IN
      /\ \A i \in 1 .. frame :
           file[i].type \in {"R", "W"} =>
             (s.mask[i] <=> \E m \in live : /\ file[m].arg1 <= file[i].arg1
                                            /\ file[i].arg1 < file[m].arg2)
      /\ \A m \in live : \E r \in s.regions : r[2] - r[1] = file[m].arg2 - file[m].arg1
      /\ Cardinality(s.regions) = Cardinality({file[m].arg1 : m \in live})
=============================================================================
