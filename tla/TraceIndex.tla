----------------------------- MODULE TraceIndex -----------------------------
(***************************************************************************)
(* The constructor of Trace: the trace file is parsed, the valid regions   *)
(* at each event are listed, and the addresses are remapped so that the    *)
(* allocated regions lie close together without any two cache lines being  *)
(* merged or split.                                                        *)
(*                                                                         *)
(* One step per iteration of the loops that carry state from one turn to   *)
(* the next; a loop that treats every element for itself is one step.      *)
(* Addresses are small enough not to wrap around.                          *)
(***************************************************************************)
EXTENDS TraceFormat, FiniteSets, FiniteSetsExt, Functions

CONSTANT CacheLine   \* cacheLine_

ASSUME CacheLineAssumption == CacheLine \in Nat \ {0}

VARIABLES
  file,         \* the lines of the file
  phase,        \* where the constructor is
  events,       \* events_
  open,         \* validRegions of indexTraceFile: event by address
  validRegions, \* validRegions_
  counts,       \* regions: begins minus ends, by address
  todo,         \* keys the iterator of the current loop has yet to visit
  nOpen,        \* the number of nested regions we're within
  firstOpen,    \* the beginning of the outer-most region
  merged,       \* mergedRegions: end, by begin
  offsets,      \* offsets: address in mapped space, by begin
  lastEndO,     \* end of the previous region in original space
  maxAddress    \* maxAddress_

indexVars == <<open, validRegions>>
sweepVars == <<counts, nOpen, firstOpen, merged>>
layoutVars == <<offsets, lastEndO, maxAddress>>
traceVars == <<file, phase, events, indexVars, todo, sweepVars, layoutVars>>

Empty == <<>>

TraceInit ==
  /\ file = <<>>
  /\ phase = "wait"
  /\ events = <<>>
  /\ open = Empty /\ validRegions = <<>>
  /\ todo = {}
  /\ counts = Empty /\ nOpen = 0 /\ firstOpen = 0 /\ merged = Empty
  /\ offsets = Empty /\ lastEndO = 0 /\ maxAddress = 0

-----------------------------------------------------------------------------
(* Parsing                                                                 *)

\* The constructor is called when the tracer wrote file f.
Load(f) ==
  /\ phase = "wait"
  /\ file' = f
  /\ phase' = "parse"
  /\ UNCHANGED <<events, indexVars, todo, sweepVars, layoutVars>>

UpToEnd(f) == SubSeq(f, 1, Min(OfType(f, "E")) - 1)

\* parseTraceFile: up to the "E" record.
ParseFile ==
  /\ phase = "parse"
  /\ OfType(file, "E") # {}
  /\ events' = UpToEnd(file)
  /\ phase' = "index"
  /\ UNCHANGED <<file, indexVars, todo, sweepVars, layoutVars>>

\* A file cannot be opened: there are no events.
ParseFails ==
  /\ phase = "parse"
  /\ phase' = "index"
  /\ UNCHANGED <<file, events, indexVars, todo, sweepVars, layoutVars>>

\* parseContext: of a context without any known location, all are popped and
\* then what the empty vector has at its back is read.  The process may die of
\* that, or the loop find something there that is not "UNKNOWN", and go on.
ParseCrashes ==
  /\ phase = "parse"
  /\ file # <<>> /\ file[1].type # "E"
  /\ phase' = "crashed"
  /\ UNCHANGED <<file, events, indexVars, todo, sweepVars, layoutVars>>

\* Without an "E" the last record is parsed again and again.
ParseDiverges ==
  /\ phase = "parse"
  /\ OfType(file, "E") = {}
  /\ phase' = "diverged"
  /\ UNCHANGED <<file, events, indexVars, todo, sweepVars, layoutVars>>

-----------------------------------------------------------------------------
(* indexTraceFile                                                          *)

At == Len(validRegions) + 1
Event == events[At]
Duplicate == Event.type = "M" /\ Event.arg1 \in DOMAIN open

\* Mutant: a FREE is indexed by type only.
OpenAfterMallocs == IF Event.type = "M" THEN With(open, Event.arg1, At) ELSE open

\* The open regions after the event.
OpenAfter ==
  CASE Event.type = "M" -> With(open, Event.arg1, At)
    [] Event.type = "F" -> Without(open, Event.arg1)
    [] OTHER            -> open

IndexEvent ==
  /\ phase = "index"
  /\ At \in DOMAIN events
  /\ ~Duplicate
  /\ open' = OpenAfter
  /\ validRegions' = Append(validRegions, Range(open'))
  /\ UNCHANGED <<file, phase, events, todo, sweepVars, layoutVars>>

\* assert(... && "Duplicate malloc!")
IndexAborts ==
  /\ phase = "index"
  /\ At \in DOMAIN events
  /\ Duplicate
  /\ phase' = "aborted"
  /\ UNCHANGED <<file, events, indexVars, todo, sweepVars, layoutVars>>

-----------------------------------------------------------------------------
(* remapAddresses                                                          *)

Begins(a) == Cardinality({i \in OfType(events, "M") : events[i].arg1 = a})
Ends(a)   == Cardinality({i \in OfType(events, "M") : events[i].arg2 = a})
Bounds == UNION {{events[i].arg1, events[i].arg2} : i \in OfType(events, "M")}

\* Mutant: the count of an address is set by its last end, not decremented.
CountOverwritten(a) == IF Ends(a) > 0 THEN -1 ELSE Begins(a)

Count(a) == Begins(a) - Ends(a)

CountRegions ==
  /\ phase = "index"
  /\ At \notin DOMAIN events
  /\ counts' = [a \in Bounds |-> Count(a)]
  /\ todo' = Bounds
  /\ phase' = "sweep"
  /\ UNCHANGED <<file, events, indexVars, nOpen, firstOpen, merged, layoutVars>>

\* Mutant: firstOpen is taken at every bound.
SweepBoundForgets ==
  LET a == Min(todo) IN
  /\ phase = "sweep"
  /\ todo # {}
  /\ todo' = todo \ {a}
  /\ firstOpen' = a
  /\ nOpen' = nOpen + counts[a]
  /\ merged' = IF nOpen' = 0 THEN With(merged, firstOpen', a) ELSE merged
  /\ UNCHANGED <<file, phase, events, indexVars, counts, layoutVars>>

\* The next begin or end: the region that is open goes on, or ends here.
SweepBound ==
  LET a == Min(todo) IN
  /\ phase = "sweep"
  /\ todo # {}
  /\ todo' = todo \ {a}
  /\ firstOpen' = IF nOpen = 0 THEN a ELSE firstOpen
  /\ nOpen' = nOpen + counts[a]
  /\ merged' = IF nOpen' = 0 THEN With(merged, firstOpen', a) ELSE merged
  /\ UNCHANGED <<file, phase, events, indexVars, counts, layoutVars>>

\* Of an empty map, begin() is read all the same: any value may come.
SweepDone ==
  /\ phase = "sweep"
  /\ todo = {}
  /\ phase' = "layout"
  /\ todo' = DOMAIN merged
  /\ IF DOMAIN merged = {} THEN lastEndO' \in 0 .. CacheLine - 1
                            ELSE lastEndO' = Min(DOMAIN merged)
  /\ maxAddress' = lastEndO' % CacheLine
  /\ UNCHANGED <<file, events, indexVars, sweepVars, offsets>>

\* Mutants: lines are told apart by the offset only; or never, and gaps stay.
PaddingByOffset(b) ==
  IF b % CacheLine >= lastEndO % CacheLine
    THEN (b % CacheLine) - (lastEndO % CacheLine)
    ELSE CacheLine + (b % CacheLine) - (lastEndO % CacheLine)
PaddingUnwrapped(b) == b - lastEndO

\* How far after the previous region the one at b is put: on the same line as
\* before, or on the next.
Padding(b) ==
  IF b % CacheLine >= lastEndO % CacheLine /\ b - lastEndO < CacheLine
    THEN b - lastEndO
    ELSE CacheLine + (b % CacheLine) - (lastEndO % CacheLine)

\* Mutant: maxAddress_ is where the last region begins.
LayoutRegionShort ==
  LET b == Min(todo) IN
  /\ phase = "layout"
  /\ todo # {}
  /\ todo' = todo \ {b}
  /\ offsets' = With(offsets, b, maxAddress + Padding(b))
  /\ maxAddress' = offsets'[b]
  /\ lastEndO' = merged[b]
  /\ UNCHANGED <<file, phase, events, indexVars, sweepVars>>

LayoutRegion ==
  LET b == Min(todo) IN
  /\ phase = "layout"
  /\ todo # {}
  /\ todo' = todo \ {b}
  /\ offsets' = With(offsets, b, maxAddress + Padding(b))
  /\ maxAddress' = offsets'[b] + merged[b] - b
  /\ lastEndO' = merged[b]
  /\ UNCHANGED <<file, phase, events, indexVars, sweepVars>>

\* remapAddress: the first region that contains the address, end included.
RegionOf(a) == Min({b \in DOMAIN merged : b <= a /\ a <= merged[b]})
InRegion(a) == \E b \in DOMAIN merged : b <= a /\ a <= merged[b]
RemapAddress(a) == a - RegionOf(a) + offsets[RegionOf(a)]

\* What an event's arguments refer to.
Args(e) == IF e.type = "M" THEN {e.arg1, e.arg2} ELSE {e.arg1}

RemapEvent(e) ==
  [e EXCEPT !.arg1 = RemapAddress(@),
            !.arg2 = IF e.type = "M" THEN RemapAddress(@) ELSE @]

RemapEvents ==
  /\ phase = "layout"
  /\ todo = {}
  /\ \A i \in DOMAIN events : \A a \in Args(events[i]) : InRegion(a)
  /\ events' = [i \in DOMAIN events |-> RemapEvent(events[i])]
  /\ phase' = "done"
  /\ UNCHANGED <<file, indexVars, todo, sweepVars, layoutVars>>

\* assert(false && "Control should never reach here!")
RemapAborts ==
  /\ phase = "layout"
  /\ todo = {}
  /\ \E i \in DOMAIN events : \E a \in Args(events[i]) : ~InRegion(a)
  /\ phase' = "aborted"
  /\ UNCHANGED <<file, events, indexVars, todo, sweepVars, layoutVars>>

Construct ==
  \/ ParseFile \/ ParseFails \/ ParseCrashes \/ ParseDiverges
  \/ IndexEvent \/ IndexAborts
  \/ CountRegions \/ SweepBound \/ SweepDone \/ LayoutRegion
  \/ RemapEvents \/ RemapAborts

-----------------------------------------------------------------------------
(* What a Trace promises                                                   *)

Phases == {"wait", "parse", "index", "sweep", "layout", "done", "aborted",
           "crashed", "diverged"}

TraceTypeOK ==
  /\ file \in Seq(Recs) /\ events \in Seq(Recs)
  /\ phase \in Phases
  /\ \A a \in DOMAIN open : open[a] \in DOMAIN events
  /\ validRegions \in Seq(SUBSET DOMAIN events)
  /\ DOMAIN counts \subseteq Nat /\ todo \subseteq DOMAIN counts
  /\ \A a \in DOMAIN counts : counts[a] \in Int
  /\ nOpen \in Nat /\ firstOpen \in Nat
  /\ DOMAIN offsets \subseteq DOMAIN merged /\ DOMAIN merged \subseteq DOMAIN counts
  /\ \A b \in DOMAIN merged : merged[b] \in DOMAIN counts
  /\ \A b \in DOMAIN offsets : offsets[b] \in Nat
  /\ lastEndO \in Nat /\ maxAddress \in Nat

\* The merged regions are the connected pieces of the memory that was ever
\* allocated: none misses a block or joins what no block joins.
RegionsArePieces ==
  phase = "layout" =>
    /\ \A i \in OfType(events, "M") : \E b \in DOMAIN merged :
         b <= events[i].arg1 /\ events[i].arg2 <= merged[b]
    /\ \A b \in DOMAIN merged :
         /\ b \in Bounds /\ merged[b] \in Bounds
         /\ \A c \in b + 1 .. merged[b] : \E i \in OfType(events, "M") :
              events[i].arg1 < c /\ c <= events[i].arg2
         /\ \A c \in DOMAIN merged : b < c => merged[b] < c

\* The addresses that have their place in mapped space, and their lines.
Placed == UNION {b .. merged[b] : b \in DOMAIN offsets}
Line(a) == a \div CacheLine

\* The remapping keeps the order of addresses; two of them share a cache line
\* after it if and only if they did before, and each sits at its place in it.
LinesKept ==
  /\ \A a, b \in Placed : a < b => RemapAddress(a) < RemapAddress(b)
  /\ \A a, b \in Placed : Line(RemapAddress(a)) = Line(RemapAddress(b)) <=> Line(a) = Line(b)
  /\ \A a \in Placed : RemapAddress(a) % CacheLine = a % CacheLine

\* The remapped memory has no unused lines, from line 0 to the last.
NoLineWasted ==
  Placed # {} =>
    {Line(RemapAddress(a)) : a \in Placed} = 0 .. Line(maxAddress)

\* trace.h:67: "The maximum address ever allocated", as an exclusive end.
MaxAddressIsEnd ==
  phase = "done" =>
    /\ \A i \in OfType(events, "M") : events[i].arg2 <= maxAddress
    /\ events # <<>> => \E i \in OfType(events, "M") : events[i].arg2 = maxAddress

\* Records that allocate no region twice and have no address outside them all.
WellFormed(f) ==
  \A i \in DOMAIN f :
    /\ f[i].type = "M" => \A k \in LiveAfter(f, i - 1) : f[k].arg1 # f[i].arg1
    /\ \E k \in OfType(f, "M") : f[k].arg1 <= f[i].arg1 /\ f[i].arg1 <= f[k].arg2

\* The assertions of the constructor fail on ill-formed files only: how the
\* blocks of a good one lie makes no difference.
AbortsOnlyIllFormed == phase = "aborted" => ~WellFormed(UpToEnd(file))

\* No assertion fails: not "Duplicate malloc!", nor an address in no region.
NeverAborts == phase # "aborted"
=============================================================================
