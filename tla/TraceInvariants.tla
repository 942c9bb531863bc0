--------------------------- MODULE TraceInvariants --------------------------
(***************************************************************************)
(* What the promises of TraceIndex, TraceQueries and TraceSystem rest on:  *)
(* an invariant of the constructor of Trace that is inductive, for every   *)
(* file, and every length of a cache line.  It has a part for each of its  *)
(* loops.                                                                  *)
(***************************************************************************)
EXTENDS TraceSystem

\* What parseTraceFile has read, before any of it was remapped.
Read == IF events = <<>> THEN <<>> ELSE UpToEnd(file)
Blocks == OfType(Read, "M")

NotIndexed == {"wait", "parse", "crashed", "diverged"}

ParseInv ==
  /\ Sane(file)
  /\ phase \in NotIndexed => events = <<>>
  /\ events # <<>> => OfType(file, "E") # {}
  /\ events = IF phase = "done" THEN [i \in DOMAIN Read |-> RemapEvent(Read[i])] ELSE Read
  /\ phase = "done" => \A i \in DOMAIN Read : \A a \in Args(Read[i]) : InRegion(a)

\* The regions listed at an event are those allocated after it, of which no
\* two have the same address; open is the last of these lists.
IndexInv ==
  /\ phase \in NotIndexed => validRegions = <<>>
  /\ Len(validRegions) <= Len(Read)
  /\ phase \in {"sweep", "layout", "done"} => Len(validRegions) = Len(Read)
  /\ \A n \in DOMAIN validRegions : validRegions[n] = LiveAfter(Read, n)
  /\ Range(open) = LiveAfter(Read, Len(validRegions))
  /\ \A a \in DOMAIN open : Read[open[a]].arg1 = a
  /\ \A n \in DOMAIN validRegions : \A k, l \in LiveAfter(Read, n) :
       Read[k].arg1 = Read[l].arg1 => k = l

\* The blocks that begin, or end, at a bound the sweep has passed.
Begun == {i \in Blocks : Read[i].arg1 \notin todo}
Ended == {i \in Blocks : Read[i].arg2 \notin todo}

\* Some block joins the address to the one before.
Joined(c) == \E i \in Blocks : Read[i].arg1 < c /\ c <= Read[i].arg2

\* The merged regions lie apart, and no address in one is without a block.
MergedInv ==
  /\ \A b \in DOMAIN merged : b \in Nat /\ merged[b] \in Nat /\ b <= merged[b]
  /\ \A b, c \in DOMAIN merged : b < c => merged[b] < c
  /\ phase # "done" => DOMAIN merged \subseteq Bounds
  /\ \A b \in DOMAIN merged : /\ \E i \in Blocks : Read[i].arg2 = merged[b]
                              /\ \A c \in b + 1 .. merged[b] : Joined(c)

\* nOpen is the number of blocks that have begun and not ended; all that have
\* begun are in a merged region, or in the one that is open.
SweepInv ==
  /\ phase \in NotIndexed \union {"index"} =>
       DOMAIN merged = {} /\ todo = {} /\ nOpen = 0
  /\ phase = "sweep" =>
       /\ counts = [a \in Bounds |-> Count(a)] /\ todo \subseteq Bounds
       /\ \A a \in Bounds \ todo, b \in todo : a < b
       /\ nOpen = Cardinality(Begun) - Cardinality(Ended)
       /\ \A b \in DOMAIN merged, a \in todo : merged[b] < a
       /\ nOpen # 0 =>
            /\ firstOpen \in Bounds \ todo
            /\ \A b \in DOMAIN merged : merged[b] < firstOpen
            /\ \A a \in Bounds \ todo : \A c \in firstOpen + 1 .. a : Joined(c)
       /\ \A i \in Begun :
            \/ \E b \in DOMAIN merged : b <= Read[i].arg1 /\ Read[i].arg2 <= merged[b]
            \/ nOpen # 0 /\ firstOpen <= Read[i].arg1
  /\ phase \in {"layout", "done"} =>
       \A i \in Blocks : \E b \in DOMAIN merged :
         b <= Read[i].arg1 /\ Read[i].arg2 <= merged[b]

\* The regions are placed in order, the first at its place in line 0.
LayoutInv ==
  /\ phase \notin {"layout", "done", "aborted"} => DOMAIN offsets = {}
  /\ DOMAIN offsets \subseteq DOMAIN merged
  /\ phase = "layout" =>
       /\ todo = DOMAIN merged \ DOMAIN offsets
       /\ \A b \in DOMAIN offsets, c \in todo : b < c
       /\ DOMAIN offsets = {} /\ todo # {} =>
            lastEndO = Min(todo) /\ maxAddress = lastEndO % CacheLine
  /\ phase = "done" => DOMAIN offsets = DOMAIN merged

\* The end of the last region that is placed lies at maxAddress; up to there,
\* it is lastEndO's line that goes on in maxAddress's, and no line is left out.
PlacedInv ==
  /\ lastEndO \in Nat /\ maxAddress \in Nat /\ maxAddress % CacheLine = lastEndO % CacheLine
  /\ \A b \in DOMAIN offsets : offsets[b] \in Nat
  /\ DOMAIN offsets # {} =>
       \E b \in DOMAIN offsets :
         lastEndO = merged[b] /\ maxAddress = offsets[b] + merged[b] - b
  /\ \A a \in Placed :
       /\ a <= lastEndO /\ RemapAddress(a) <= maxAddress
       /\ Line(RemapAddress(a)) = Line(maxAddress) <=> Line(a) = Line(lastEndO)
  /\ LinesKept /\ NoLineWasted

TraceInv ==
  /\ TraceTypeOK
  /\ ParseInv /\ IndexInv /\ MergedInv /\ SweepInv /\ LayoutInv /\ PlacedInv

\* An assertion has failed on an ill-formed file.
AbortInv == phase = "aborted" => OfType(file, "E") # {} /\ ~WellFormed(UpToEnd(file))

-----------------------------------------------------------------------------
\* What the tracer has written allocates just the regions it has recorded;
\* and it has not written on after its "E".
WrittenInv ==
  /\ Sane(trace)
  /\ \A i \in OfType(trace, "E") : ended /\ i = Len(trace)
  /\ {trace[i].arg1 : i \in LiveAfter(trace, Len(trace))} = DOMAIN records
  /\ \A b \in DOMAIN records : \E i \in LiveAfter(trace, Len(trace)) :
       trace[i].arg1 = b /\ trace[i].arg2 = records[b]

TracerInv == TracerTypeOK /\ WrittenInv /\ AccessesAreInside

\* All of these together are inductive.
PipeInv == TracerInv /\ TraceInv /\ AbortInv

\* No two threads are within malloc at once, as when there is but one.
OneInside == \A s, t \in Threads : inside[s] /\ inside[t] => s = t

\* A file without an ill-formed record, at whatever point its "E" comes.
WellWritten(f) ==
  \A i \in DOMAIN f : f[i].type # "E" =>
    /\ f[i].type = "M" => \A k \in LiveAfter(f, i - 1) : f[k].arg1 # f[i].arg1
    /\ \E k \in OfType(f, "M") :
         k <= i /\ f[k].arg1 <= f[i].arg1 /\ f[i].arg1 <= f[k].arg2

\* Then it is its own request that a thread in malloc finds, and all records
\* of a program whose blocks are seen are good.
SeenInv ==
  /\ \A t \in Threads : inside[t] => want[t] = request
  /\ RecordsAreActive
  /\ Seen => WellWritten(trace)

\* So the constructor of Trace gets through what such a program leaves.
SeenNeverAborts == Seen /\ file = trace => NeverAborts
=============================================================================
