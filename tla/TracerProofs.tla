---------------------------- MODULE TracerProofs ---------------------------
(***************************************************************************)
(* Proofs about the whole way from the traced program to its analysed      *)
(* trace, for all programs, threads, bounds, and trace files of others.    *)
(***************************************************************************)
EXTENDS TraceProofs

-----------------------------------------------------------------------------
(* The file that is being written                                          *)

LEMMA LiveAre ==
  ASSUME NEW f \in Seq(Recs), NEW n \in Nat, NEW i \in LiveAfter(f, n)
  PROVE  i \in DOMAIN f /\ i \in 1 .. n /\ i \in OfType(f, "M") /\ f[i].type = "M"
<1>1. DOMAIN f = 1 .. Len(f) /\ Len(f) \in Nat
  BY LenProperties
<1> QED BY <1>1 DEF LiveAfter, OfType

\* What was allocated before the last record is not changed by it.
LEMMA LiveBefore ==
  ASSUME NEW f \in Seq(Recs), NEW e \in Recs, NEW g, g = Append(f, e), NEW n \in 0 .. Len(f)
  PROVE  LiveAfter(g, n) = LiveAfter(f, n)
<1>1. /\ Len(f) \in Nat /\ g \in Seq(Recs) /\ Len(g) = Len(f) + 1
      /\ \A i \in 1 .. Len(f) : g[i] = f[i]
  BY AppendProperties, LenProperties
<1>2. n \in Nat /\ n <= Len(f) /\ n <= Len(g) /\ \A i \in 1 .. n : g[i] = f[i]
  BY <1>1
<1> QED BY <1>1, <1>2, LiveOfPrefix

\* One more record: what was allocated is so still, but for what it frees.
LEMMA LiveAppended ==
  ASSUME NEW f \in Seq(Recs), NEW e \in Recs
  PROVE  LET g == Append(f, e)
             live == LiveAfter(f, Len(f)) IN
         /\ g \in Seq(Recs) /\ Len(g) = Len(f) + 1 /\ g[Len(g)] = e
         /\ \A i \in DOMAIN f : i \in DOMAIN g /\ g[i] = f[i]
         /\ \A n \in 0 .. Len(f) : LiveAfter(g, n) = LiveAfter(f, n)
         /\ LiveAfter(g, Len(g)) =
              IF e.type = "M" THEN live \union {Len(g)}
              ELSE {i \in live : e.type = "F" => f[i].arg1 # e.arg1}
<1> DEFINE g == Append(f, e)
<1>1. /\ Len(f) \in Nat /\ DOMAIN f = 1 .. Len(f)
      /\ g \in Seq(Recs) /\ Len(g) = Len(f) + 1 /\ g[Len(g)] = e
      /\ \A i \in 1 .. Len(f) : g[i] = f[i]
  BY LenProperties, AppendProperties
<1>2. DOMAIN g = 1 .. Len(g)
  BY <1>1, LenProperties
<1>3. \A i \in DOMAIN f : i \in DOMAIN g /\ g[i] = f[i]
  BY <1>1, <1>2
<1>4. ASSUME NEW n \in 0 .. Len(f) PROVE LiveAfter(g, n) = LiveAfter(f, n)
  BY LiveBefore
<1> HIDE DEF g
<1>5. LiveAfter(g, Len(f)) = LiveAfter(f, Len(f))
  BY <1>1, <1>4
<1>6. LiveAfter(g, Len(g)) =
        IF e.type = "M" THEN LiveAfter(f, Len(f)) \union {Len(g)}
        ELSE {i \in LiveAfter(f, Len(f)) : e.type = "F" => g[i].arg1 # e.arg1}
  <2>1. Len(f) + 1 <= Len(g) /\ Len(g) = Len(f) + 1
    BY <1>1
  <2>2. LiveAfter(g, Len(f) + 1) =
          IF g[Len(f) + 1].type = "M" THEN LiveAfter(g, Len(f)) \union {Len(f) + 1}
          ELSE {i \in LiveAfter(g, Len(f)) :
                  g[Len(f) + 1].type = "F" => g[i].arg1 # g[Len(f) + 1].arg1}
    BY <1>1, <2>1, LiveAfterNext
  <2> QED BY <1>1, <1>5, <2>1, <2>2
<1>7. \A i \in LiveAfter(f, Len(f)) : g[i] = f[i]
  BY <1>1, LiveAre
<1> QED BY <1>1, <1>3, <1>4, <1>6, <1>7 DEF g

\* One more record does not make an earlier access one outside of all regions.
LEMMA AccessesGoOn ==
  ASSUME NEW e \in Recs, trace \in Seq(Recs), trace' = Append(trace, e), AccessesAreInside,
         e.type \in {"R", "W"} =>
           \E i \in LiveAfter(trace, Len(trace)) :
             trace[i].arg1 <= e.arg1 /\ e.arg1 < trace[i].arg2
  PROVE  AccessesAreInside'
<1>1. Len(trace) \in Nat /\ DOMAIN trace = 1 .. Len(trace) /\ trace' \in Seq(Recs)
      /\ DOMAIN trace' = 1 .. Len(trace') /\ Len(trace') = Len(trace) + 1
  BY LenProperties, LiveAppended
<1>a. \A j \in DOMAIN trace : trace'[j] = trace[j]
  BY LiveAppended
<1>b. ASSUME NEW n \in 0 .. Len(trace) PROVE LiveAfter(trace', n) = LiveAfter(trace, n)
  BY LiveBefore
<1>2. ASSUME NEW j \in DOMAIN trace', trace'[j].type \in {"R", "W"}
      PROVE  \E i \in LiveAfter(trace', j) :
               trace'[i].arg1 <= trace'[j].arg1 /\ trace'[j].arg1 < trace'[i].arg2
  <2>1. CASE j \in DOMAIN trace
    <3>0. j \in 0 .. Len(trace) /\ j \in Nat
      BY <1>1, <2>1
    <3>1. trace'[j] = trace[j] /\ LiveAfter(trace', j) = LiveAfter(trace, j)
      BY <2>1, <3>0, <1>a, <1>b
    <3>2. PICK i \in LiveAfter(trace, j) :
            trace[i].arg1 <= trace[j].arg1 /\ trace[j].arg1 < trace[i].arg2
      BY <1>2, <2>1, <3>1 DEF AccessesAreInside
    <3>3. trace'[i] = trace[i]
      <4>1. j <= Len(trace)
        BY <3>0
      <4>2. i \in DOMAIN trace
        BY <1>1, <3>0, <3>2, <4>1, LiveAre
      <4> QED BY <1>a, <4>2
    <3> QED BY <3>1, <3>2, <3>3
  <2>2. CASE j \notin DOMAIN trace
    <3>1. j = Len(trace') /\ trace'[j] = e
      BY <1>1, <2>2, LiveAppended
    <3>2. PICK i \in LiveAfter(trace, Len(trace)) :
            trace[i].arg1 <= e.arg1 /\ e.arg1 < trace[i].arg2
      BY <1>2, <3>1
    <3>3. LiveAfter(trace', j) = LiveAfter(trace, Len(trace))
      <4>1. e.type # "M" /\ e.type # "F"
        BY <1>2, <3>1
      <4>2. LiveAfter(trace', Len(trace')) =
              {k \in LiveAfter(trace, Len(trace)) : e.type = "F" => trace[k].arg1 # e.arg1}
        BY <4>1, LiveAppended
      <4> QED BY <3>1, <4>1, <4>2
    <3>4. trace'[i] = trace[i]
      BY <1>1, <3>2, LiveAre, LiveAppended
    <3> QED BY <3>1, <3>2, <3>3, <3>4
  <2> QED BY <2>1, <2>2
<1> QED BY <1>2 DEF AccessesAreInside

\* The file is sane with one more record, and goes on only before its "E".
LEMMA SaneGoesOn ==
  ASSUME NEW e \in Recs, WrittenInv, trace' = Append(trace, e), ~ended,
         e.type = "M" => e.arg1 <= e.arg2, e.type = "E" => ended'
  PROVE  Sane(trace)' /\ \A i \in OfType(trace', "E") : ended' /\ i = Len(trace')
<1>1. /\ trace \in Seq(Recs) /\ DOMAIN trace = 1 .. Len(trace) /\ Len(trace) \in Nat
      /\ \A i \in DOMAIN trace : trace[i].type = "M" => trace[i].arg1 <= trace[i].arg2
      /\ \A i \in DOMAIN trace : trace[i].type # "E"
  BY LenProperties DEF WrittenInv, Sane, OfType
<1>2. /\ trace' \in Seq(Recs) /\ Len(trace') = Len(trace) + 1 /\ trace'[Len(trace')] = e
      /\ \A i \in DOMAIN trace : i \in DOMAIN trace' /\ trace'[i] = trace[i]
      /\ DOMAIN trace' = 1 .. Len(trace')
  BY <1>1, LiveAppended, LenProperties
<1>3. \A i \in DOMAIN trace' : i \in DOMAIN trace \/ i = Len(trace')
  BY <1>1, <1>2
<1>4. \A i \in DOMAIN trace' : trace'[i].type = "M" => trace'[i].arg1 <= trace'[i].arg2
  BY <1>1, <1>2, <1>3
<1>5. \A i \in DOMAIN trace' : trace'[i].type = "E" => i = Len(trace') /\ ended'
  BY <1>1, <1>2, <1>3
<1> QED BY <1>2, <1>4, <1>5 DEF Sane, OfType

LEMMA NothingWritten ==
  ASSUME TracerInv, UNCHANGED <<records, trace>>, ended => ended'
  PROVE  WrittenInv' /\ AccessesAreInside'
BY DEF TracerInv, WrittenInv, AccessesAreInside

LEMMA MallocWritten ==
  ASSUME TracerInv, ~ended, UNCHANGED ended, NEW a \in 0 .. MaxAddr, RecordMallocResult(a)
  PROVE  /\ WrittenInv' /\ AccessesAreInside'
         /\ DOMAIN records' \subseteq 0 .. MaxAddr /\ trace' \in Seq(Recs)
         /\ \A b \in DOMAIN records' : records'[b] - b \in Sizes
<1> DEFINE e == Rec("M", a, a + request)
<1>1. /\ MaxAddr \in Nat /\ MaxSize \in Nat /\ request \in Sizes /\ trace \in Seq(Recs)
      /\ DOMAIN records \subseteq 0 .. MaxAddr
      /\ \A b \in DOMAIN records : records[b] - b \in Sizes
  BY TracerBounds DEF TracerInv, TracerTypeOK
<1>2. /\ a \in Nat /\ request \in Nat /\ a + request \in Nat /\ a <= a + request
      /\ (a + request) - a \in Sizes
  BY <1>1 DEF Sizes
<1>3. /\ e \in Recs /\ e.type = "M" /\ e.arg1 = a /\ e.arg2 = a + request
      /\ trace' = Append(trace, e)
  BY <1>2 DEF Rec, Recs, RecordMallocResult
<1>4. /\ DOMAIN records' = DOMAIN records \union {a} /\ records'[a] = a + request
      /\ \A b \in DOMAIN records : b # a => records'[b] = records[b]
  BY DEF RecordMallocResult, With
<1> HIDE DEF e
<1>5. /\ trace' \in Seq(Recs) /\ trace'[Len(trace')] = e
      /\ LiveAfter(trace', Len(trace')) = LiveAfter(trace, Len(trace)) \union {Len(trace')}
      /\ Len(trace) \in Nat
  BY <1>1, <1>3, LiveAppended, LenProperties
<1>6. \A i \in LiveAfter(trace, Len(trace)) : trace'[i] = trace[i]
  BY <1>1, <1>3, <1>5, LiveAppended, LiveAre
<1>7. Sane(trace)' /\ \A i \in OfType(trace', "E") : ended' /\ i = Len(trace')
  BY <1>2, <1>3, SaneGoesOn DEF TracerInv
<1>8. {trace'[i].arg1 : i \in LiveAfter(trace', Len(trace'))} = DOMAIN records'
  <2>1. {trace'[i].arg1 : i \in LiveAfter(trace, Len(trace))} = DOMAIN records
    BY <1>6 DEF TracerInv, WrittenInv
  <2>2. trace'[Len(trace')].arg1 = a
    BY <1>3, <1>5
  <2> QED BY <1>4, <1>5, <2>1, <2>2
<1>9. ASSUME NEW b \in DOMAIN records'
      PROVE  \E i \in LiveAfter(trace', Len(trace')) :
               trace'[i].arg1 = b /\ trace'[i].arg2 = records'[b]
  <2>1. CASE b = a
    BY <1>3, <1>4, <1>5, <2>1
  <2>2. CASE b # a
    <3>1. b \in DOMAIN records /\ records'[b] = records[b]
      BY <1>4, <1>9, <2>2
    <3>2. PICK i \in LiveAfter(trace, Len(trace)) : trace[i].arg1 = b /\ trace[i].arg2 = records[b]
      BY <3>1 DEF TracerInv, WrittenInv
    <3> QED BY <1>5, <1>6, <3>1, <3>2
  <2> QED BY <2>1, <2>2
<1>10. AccessesAreInside'
  BY <1>1, <1>3, AccessesGoOn DEF TracerInv
<1>11. \A b \in DOMAIN records' : records'[b] - b \in Sizes
  BY <1>1, <1>2, <1>4
<1> QED BY <1>1, <1>4, <1>5, <1>7, <1>8, <1>9, <1>10, <1>11 DEF WrittenInv

LEMMA FreeWritten ==
  ASSUME TracerInv, ~ended, UNCHANGED ended, NEW a, RecordFree(a)
  PROVE  /\ WrittenInv' /\ AccessesAreInside'
         /\ DOMAIN records' \subseteq 0 .. MaxAddr /\ trace' \in Seq(Recs)
         /\ \A b \in DOMAIN records' : records'[b] - b \in Sizes
<1> DEFINE e == Rec("F", a, 0)
<1>1. /\ MaxAddr \in Nat /\ trace \in Seq(Recs)
      /\ DOMAIN records \subseteq 0 .. MaxAddr
      /\ \A b \in DOMAIN records : records[b] - b \in Sizes
  BY TracerBounds DEF TracerInv, TracerTypeOK
<1>2. CASE a \notin DOMAIN records
  BY <1>1, <1>2, NothingWritten DEF RecordFree
<1>3. CASE a \in DOMAIN records
  <2>1. a \in Nat
    BY <1>1, <1>3
  <2>2. e \in Recs /\ e.type = "F" /\ e.arg1 = a /\ trace' = Append(trace, e)
    BY <1>3, <2>1 DEF Rec, Recs, RecordFree
  <2>3. DOMAIN records' = DOMAIN records \ {a} /\ \A b \in DOMAIN records' : records'[b] = records[b]
    BY <1>3 DEF RecordFree, Without
  <2> HIDE DEF e
  <2>4. /\ trace' \in Seq(Recs) /\ Len(trace) \in Nat
        /\ LiveAfter(trace', Len(trace')) =
             {i \in LiveAfter(trace, Len(trace)) : trace[i].arg1 # a}
    <3>1. LiveAfter(trace', Len(trace')) =
             {i \in LiveAfter(trace, Len(trace)) : e.type = "F" => trace[i].arg1 # e.arg1}
      BY <1>1, <2>2, LiveAppended
    <3> QED BY <1>1, <2>2, <3>1, LiveAppended, LenProperties
  <2>5. \A i \in LiveAfter(trace, Len(trace)) : trace'[i] = trace[i]
    BY <1>1, <2>2, <2>4, LiveAppended, LiveAre
  <2>6. Sane(trace)' /\ \A i \in OfType(trace', "E") : ended' /\ i = Len(trace')
    BY <2>2, SaneGoesOn DEF TracerInv
  <2>7. {trace'[i].arg1 : i \in LiveAfter(trace', Len(trace'))} = DOMAIN records'
    BY <2>3, <2>4, <2>5 DEF TracerInv, WrittenInv
  <2>8. ASSUME NEW b \in DOMAIN records'
        PROVE  \E i \in LiveAfter(trace', Len(trace')) :
                 trace'[i].arg1 = b /\ trace'[i].arg2 = records'[b]
    <3>1. b \in DOMAIN records /\ records'[b] = records[b] /\ b # a
      BY <2>3, <2>8
    <3>2. PICK i \in LiveAfter(trace, Len(trace)) : trace[i].arg1 = b /\ trace[i].arg2 = records[b]
      BY <3>1 DEF TracerInv, WrittenInv
    <3> QED BY <2>4, <2>5, <3>1, <3>2
  <2>9. AccessesAreInside'
    BY <1>1, <2>2, AccessesGoOn DEF TracerInv
  <2> QED BY <1>1, <2>3, <2>4, <2>6, <2>7, <2>8, <2>9 DEF WrittenInv
<1> QED BY <1>2, <1>3

\* A record that allocates and frees nothing: of an access to a region, or "E".
LEMMA OtherWritten ==
  ASSUME TracerInv, ~ended, UNCHANGED records, NEW type \in {"R", "W", "E"}, NEW a \in Nat,
         trace' = Append(trace, Rec(type, a, 0)),
         IF type = "E" THEN ended' ELSE UNCHANGED ended /\ Traced(a)
  PROVE  WrittenInv' /\ AccessesAreInside' /\ trace' \in Seq(Recs)
<1> DEFINE e == Rec(type, a, 0)
<1>1. /\ trace \in Seq(Recs) /\ e \in Recs /\ e.type = type /\ e.arg1 = a
      /\ e.type # "M" /\ e.type # "F" /\ trace' = Append(trace, e)
  BY DEF TracerInv, TracerTypeOK, Rec, Recs
<1> HIDE DEF e
<1>2. /\ trace' \in Seq(Recs) /\ Len(trace) \in Nat
      /\ LiveAfter(trace', Len(trace')) = LiveAfter(trace, Len(trace))
  <2>1. LiveAfter(trace', Len(trace')) =
          IF e.type = "M" THEN LiveAfter(trace, Len(trace)) \union {Len(trace')}
          ELSE {i \in LiveAfter(trace, Len(trace)) : e.type = "F" => trace[i].arg1 # e.arg1}
    <3>1. trace \in Seq(Recs) /\ e \in Recs /\ trace' = Append(trace, e)
      BY <1>1
    <3> QED BY ONLY <3>1, LiveAppended
  <2>2. trace' \in Seq(Recs) /\ Len(trace) \in Nat
    BY <1>1, LiveAppended, LenProperties
  <2> QED BY <1>1, <2>1, <2>2
<1>3. \A i \in LiveAfter(trace, Len(trace)) : trace'[i] = trace[i]
  BY <1>1, <1>2, LiveAppended, LiveAre
<1>4. Sane(trace)' /\ \A i \in OfType(trace', "E") : ended' /\ i = Len(trace')
  BY <1>1, SaneGoesOn DEF TracerInv
<1>5. /\ {trace'[i].arg1 : i \in LiveAfter(trace', Len(trace'))} = DOMAIN records'
      /\ \A b \in DOMAIN records' : \E i \in LiveAfter(trace', Len(trace')) :
           trace'[i].arg1 = b /\ trace'[i].arg2 = records'[b]
  <2>1. {trace'[i].arg1 : i \in LiveAfter(trace, Len(trace))} = DOMAIN records
    BY <1>3 DEF TracerInv, WrittenInv
  <2>2. \A b \in DOMAIN records : \E i \in LiveAfter(trace, Len(trace)) :
           trace'[i].arg1 = b /\ trace'[i].arg2 = records[b]
    BY <1>3, ZenonT(30) DEF TracerInv, WrittenInv
  <2> QED BY <1>2, <2>1, <2>2
<1>6. type # "E" => \E i \in LiveAfter(trace, Len(trace)) :
                      trace[i].arg1 <= a /\ a < trace[i].arg2
  <2> SUFFICES ASSUME type # "E" PROVE \E i \in LiveAfter(trace, Len(trace)) :
                                         trace[i].arg1 <= a /\ a < trace[i].arg2
    OBVIOUS
  <2>1. PICK b \in DOMAIN records : b <= a /\ a < records[b]
    BY DEF Traced
  <2>2. \E i \in LiveAfter(trace, Len(trace)) : trace[i].arg1 = b /\ trace[i].arg2 = records[b]
    BY <2>1 DEF TracerInv, WrittenInv
  <2> QED BY <2>1, <2>2
<1>7. AccessesAreInside'
  BY <1>1, <1>6, AccessesGoOn DEF TracerInv
<1> QED BY <1>2, <1>4, <1>5, <1>7 DEF WrittenInv

-----------------------------------------------------------------------------
(* The steps of the tracer                                                 *)

LEMMA AskFits ==
  ASSUME TracerInv, NEW t \in Threads, NEW n \in Sizes, MallocEnter(t, n)
  PROVE  TracerInv'
<1>1. TracerTypeOK'
  BY DEF TracerInv, TracerTypeOK, MallocEnter
<1>2. WrittenInv' /\ AccessesAreInside'
  BY NothingWritten DEF MallocEnter
<1> QED BY <1>1, <1>2 DEF TracerInv

LEMMA ReturnFits ==
  ASSUME TracerInv, NEW t \in Threads, MallocReturn(t)
  PROVE  TracerInv'
<1>1. /\ TracerTypeOK /\ MaxAddr \in Nat
      /\ ~ended /\ UNCHANGED <<program, want, request, ended>>
      /\ inside' = [inside EXCEPT ![t] = FALSE]
  BY TracerBounds DEF TracerInv, MallocReturn
<1>2. \E a \in 0 .. MaxAddr :
        /\ RecordMallocResult(a)
        /\ blocks' = blocks \/ (a \in Addrs /\ blocks' = With(blocks, a, want[t]))
  <2>1. \A a \in Addrs : a \in 0 .. MaxAddr
    BY <1>1 DEF Addrs
  <2>2. CASE \E a \in Room(want[t], {}) : blocks' = With(blocks, a, want[t]) /\ RecordMallocResult(a)
    BY <2>1, <2>2 DEF Room
  <2>3. CASE RecordMallocResult(0) /\ UNCHANGED blocks
    BY <1>1, <2>3
  <2> QED BY <2>2, <2>3 DEF MallocReturn
<1>3. PICK a \in 0 .. MaxAddr :
        /\ RecordMallocResult(a)
        /\ blocks' = blocks \/ (a \in Addrs /\ blocks' = With(blocks, a, want[t]))
  BY <1>2
<1>4. /\ WrittenInv' /\ AccessesAreInside'
      /\ DOMAIN records' \subseteq 0 .. MaxAddr /\ trace' \in Seq(Recs)
      /\ \A b \in DOMAIN records' : records'[b] - b \in Sizes
  BY <1>1, <1>3, MallocWritten
<1>5. DOMAIN blocks' \subseteq Addrs /\ \A b \in DOMAIN blocks' : blocks'[b] \in Sizes
  BY <1>1, <1>3 DEF TracerTypeOK, With
<1>6. TracerTypeOK'
  BY <1>1, <1>4, <1>5 DEF TracerTypeOK
<1> QED BY <1>4, <1>6 DEF TracerInv

LEMMA FreeFits ==
  ASSUME TracerInv, NEW t \in Threads, NEW a, Free(t, a)
  PROVE  TracerInv'
<1>1. /\ TracerTypeOK /\ ~ended /\ UNCHANGED <<program, inside, want, request, ended>>
      /\ RecordFree(a) /\ blocks' = Without(blocks, a)
  BY DEF TracerInv, Free, Runs
<1>2. /\ WrittenInv' /\ AccessesAreInside'
      /\ DOMAIN records' \subseteq 0 .. MaxAddr /\ trace' \in Seq(Recs)
      /\ \A b \in DOMAIN records' : records'[b] - b \in Sizes
  BY <1>1, FreeWritten
<1>3. DOMAIN blocks' \subseteq Addrs /\ \A b \in DOMAIN blocks' : blocks'[b] \in Sizes
  BY <1>1 DEF TracerTypeOK, Without
<1>4. TracerTypeOK'
  BY <1>1, <1>2, <1>3 DEF TracerTypeOK
<1> QED BY <1>2, <1>4 DEF TracerInv

LEMMA AccessFits ==
  ASSUME TracerInv, NEW t \in Threads, NEW a \in Addrs, NEW type \in {"R", "W"},
         Access(t, a, type)
  PROVE  TracerInv'
<1>1. /\ TracerTypeOK /\ ~ended /\ Traced(a) /\ trace' = Append(trace, Rec(type, a, 0))
      /\ UNCHANGED <<program, inside, want, blocks, request, records, ended>> /\ a \in Nat
  BY DEF TracerInv, Access, Runs, Addrs
<1>2. WrittenInv' /\ AccessesAreInside' /\ trace' \in Seq(Recs)
  BY <1>1, OtherWritten
<1>3. TracerTypeOK'
  BY <1>1, <1>2 DEF TracerTypeOK
<1> QED BY <1>2, <1>3 DEF TracerInv

\* The steps the tool does not see change the allocator's blocks only.
LEMMA UnseenFits ==
  ASSUME TracerInv, NEW t \in Threads, Calloc(t) \/ Realloc(t)
  PROVE  TracerInv'
<1>1. /\ TracerTypeOK /\ UNCHANGED <<program, inside, want, request, records, trace, ended>>
  BY DEF TracerInv, Calloc, Realloc
<1>2. \E n \in Sizes, a \in Addrs : \E old :
        blocks' = With(blocks, a, n) \/ blocks' = With(Without(blocks, old), a, n)
  <2>1. CASE Calloc(t)
    <3>1. PICK n \in Sizes : \E a \in Room(n, {}) : blocks' = With(blocks, a, n)
      BY <2>1 DEF Calloc
    <3>2. PICK a \in Room(n, {}) : blocks' = With(blocks, a, n)
      BY <3>1
    <3>3. a \in Addrs
      BY <3>2 DEF Room
    <3> QED BY <3>1, <3>2, <3>3
  <2>2. CASE Realloc(t)
    <3>1. PICK old \in DOMAIN blocks, n \in Sizes :
            \E a \in Room(n, Bytes(old, blocks[old])) : blocks' = With(Without(blocks, old), a, n)
      BY <2>2 DEF Realloc
    <3>2. PICK a \in Room(n, Bytes(old, blocks[old])) : blocks' = With(Without(blocks, old), a, n)
      BY <3>1
    <3>3. a \in Addrs
      BY <3>2 DEF Room
    <3> QED BY <3>1, <3>2, <3>3
  <2> QED BY <2>1, <2>2
<1>3. PICK n \in Sizes, a \in Addrs : \E old :
        blocks' = With(blocks, a, n) \/ blocks' = With(Without(blocks, old), a, n)
  BY <1>2
<1>4. DOMAIN blocks' \subseteq Addrs /\ \A b \in DOMAIN blocks' : blocks'[b] \in Sizes
  BY <1>1, <1>3 DEF TracerTypeOK, With, Without
<1>5. TracerTypeOK'
  BY <1>1, <1>4 DEF TracerTypeOK
<1>6. WrittenInv' /\ AccessesAreInside'
  BY <1>1, NothingWritten
<1> QED BY <1>5, <1>6 DEF TracerInv

LEMMA FiniFits ==
  ASSUME TracerInv, Fini
  PROVE  TracerInv'
<1>1. /\ TracerTypeOK /\ trace \in Seq(Recs)
      /\ ~ended /\ ended' = TRUE
      /\ UNCHANGED <<program, inside, want, blocks, request, records>>
      /\ trace' = Append(trace, Rec("E", 0, 0)) \/ UNCHANGED trace
  BY DEF TracerInv, TracerTypeOK, Fini
<1>2. WrittenInv' /\ AccessesAreInside' /\ trace' \in Seq(Recs)
  <2>1. CASE trace' = Append(trace, Rec("E", 0, 0))
    BY <1>1, <2>1, OtherWritten
  <2>2. CASE UNCHANGED trace
    BY <1>1, <2>2, NothingWritten
  <2> QED BY <1>1, <2>1, <2>2
<1>3. TracerTypeOK'
  BY <1>1, <1>2 DEF TracerTypeOK
<1> QED BY <1>2, <1>3 DEF TracerInv

LEMMA TracerNextFits ==
  ASSUME TracerInv, TracerNext
  PROVE  TracerInv'
<1>1. ASSUME NEW t \in Threads, ThreadStep(t) PROVE TracerInv'
  BY <1>1, AskFits, ReturnFits, FreeFits, AccessFits, UnseenFits DEF ThreadStep
<1> QED BY <1>1, FiniFits DEF TracerNext

\* Nothing is written any more when the constructor is called.
LEMMA EndFits ==
  ASSUME TracerInv, UNCHANGED <<program, inside, want, blocks, request, records, trace>>,
         ended' = ended \/ ended' = TRUE
  PROVE  TracerInv'
<1>1. TracerTypeOK'
  BY DEF TracerInv, TracerTypeOK
<1>2. WrittenInv' /\ AccessesAreInside'
  BY NothingWritten
<1> QED BY <1>1, <1>2 DEF TracerInv

LEMMA TracerInitFits ==
  ASSUME TracerInit
  PROVE  TracerInv
<1>1. MaxAddr \in Nat /\ MaxSize \in Nat
  BY TracerBounds
<1>2. trace = <<>> /\ trace \in Seq(Recs) /\ DOMAIN trace = {} /\ Len(trace) = 0
      /\ DOMAIN records = {} /\ DOMAIN blocks = {}
  BY DEF TracerInit
<1>3. TracerTypeOK
  <2>1. 0 \in Sizes /\ want = [t \in Threads |-> 0] /\ inside = [t \in Threads |-> FALSE]
        /\ program \in Programs /\ request = 0 /\ ended = FALSE
    BY <1>1 DEF TracerInit, Sizes
  <2>2. want \in [Threads -> Sizes] /\ inside \in [Threads -> BOOLEAN]
    BY <2>1
  <2> QED BY <1>2, <2>1, <2>2 DEF TracerTypeOK
<1>4. WrittenInv /\ AccessesAreInside
  BY <1>2, NoneLive DEF WrittenInv, AccessesAreInside, Sane, OfType
<1> QED BY <1>3, <1>4 DEF TracerInv

-----------------------------------------------------------------------------
(* The whole way                                                           *)

\* The constructor gives up on ill-formed files only, and then for good.
LEMMA AbortStays ==
  ASSUME TraceInv, AbortInv, Construct
  PROVE  AbortInv'
<1>1. CASE IndexAborts \/ RemapAborts
  <2>1. events # <<>> /\ OfType(file, "E") # {}
    <3>1. events # <<>>
      <4>1. events = <<>> => DOMAIN events = {}
        OBVIOUS
      <4> QED BY <1>1, <4>1 DEF IndexAborts, RemapAborts
    <3> QED BY <3>1 DEF TraceInv, ParseInv
  <2>2. ~WellFormed(UpToEnd(file)) /\ file' = file
    BY <1>1, AbortIsIllFormed
  <2> QED BY <2>1, <2>2 DEF AbortInv
<1>2. CASE ~(IndexAborts \/ RemapAborts)
  <2>1. phase' # "aborted"
    BY <1>2 DEF Construct, ParseFile, ParseFails, ParseCrashes, ParseDiverges, IndexEvent,
       CountRegions, SweepBound, SweepDone, LayoutRegion, RemapEvents
  <2> QED BY <2>1 DEF AbortInv
<1> QED BY <1>1, <1>2

LEMMA PipeInitFits ==
  ASSUME PipeInit
  PROVE  PipeInv
<1>1. AbortInv
  BY DEF PipeInit, TraceInit, AbortInv
<1> QED BY <1>1, TracerInitFits, TraceInitHolds DEF PipeInit, PipeInv

LEMMA PipeNextFits ==
  ASSUME PipeInv, [PipeNext]_pipeVars
  PROVE  PipeInv'
<1> USE DEF PipeInv
<1>1. CASE TracerNext /\ UNCHANGED traceVars
  <2>1. AbortInv'
    BY <1>1 DEF traceVars, AbortInv
  <2> QED BY <1>1, <2>1, TracerNextFits, NothingPreserves
<1>2. CASE Update
  <2>1. TracerInv'
    BY <1>2, EndFits DEF Update, tracerVars
  <2>2. TraceInv'
    BY <1>2, LoadPreserves DEF Update, TracerInv, WrittenInv
  <2>3. AbortInv'
    BY <1>2 DEF Update, Load, AbortInv
  <2> QED BY <2>1, <2>2, <2>3
<1>3. CASE Debug
  <2>1. TracerInv'
    BY <1>3, EndFits DEF Debug
  <2>2. PICK f \in Files : Load(f)
    BY <1>3 DEF Debug
  <2>3. TraceInv'
    BY <2>2, LoadPreserves, FilesAssumption
  <2>4. AbortInv'
    BY <2>2 DEF Load, AbortInv
  <2> QED BY <2>1, <2>3, <2>4
<1>4. CASE Constructs
  <2>1. TracerInv'
    BY <1>4, EndFits DEF tracerVars, Constructs
  <2> QED BY <1>4, <2>1, ConstructPreserves, AbortStays DEF Constructs
<1>5. CASE UNCHANGED pipeVars
  <2>1. TracerInv'
    BY <1>5, EndFits DEF pipeVars, tracerVars
  <2>2. TraceInv' /\ AbortInv'
    BY <1>5, NothingPreserves DEF pipeVars, traceVars, AbortInv
  <2> QED BY <2>1, <2>2
<1> QED BY <1>1, <1>2, <1>3, <1>4, <1>5 DEF PipeNext

\* The tool writes what it records, the constructor of Trace keeps count in
\* each of its loops (pervert.cpp, pervert_app_trace.cpp): the invariant that
\* all the other theorems here rest on.
THEOREM PipeInvariant == PipeSpec => []PipeInv
<1>1. PipeInit => PipeInv
  BY PipeInitFits
<1>2. PipeInv /\ [PipeNext]_pipeVars => PipeInv'
  BY PipeNextFits
<1> QED BY <1>1, <1>2, PTL DEF PipeSpec

\* The merged regions are the connected pieces of the memory ever allocated,
\* however the blocks lie: the sweep of remapAddresses neither joins two nor
\* splits one.
THEOREM PiecesAreFound == PipeSpec => []RegionsArePieces
<1>1. PipeInv => RegionsArePieces
  BY PiecesFollow DEF PipeInv
<1> QED BY <1>1, PipeInvariant, PTL

\* remapAddress keeps the order of addresses, which of them share a cache
\* line, and where in it they are.
THEOREM LinesAreKept == PipeSpec => []LinesKept
<1>1. PipeInv => LinesKept
  BY DEF PipeInv, TraceInv, PlacedInv
<1> QED BY <1>1, PipeInvariant, PTL

\* ... and leaves no line out.
THEOREM LinesAreUsed == PipeSpec => []NoLineWasted
<1>1. PipeInv => NoLineWasted
  BY DEF PipeInv, TraceInv, PlacedInv
<1> QED BY <1>1, PipeInvariant, PTL

\* maxAddress_ is what trace.h:67 says, the largest end of all regions.
THEOREM MaxAddressIsFound == PipeSpec => []MaxAddressIsEnd
<1>1. PipeInv => MaxAddressIsEnd
  BY MaxAddressFollows DEF PipeInv
<1> QED BY <1>1, PipeInvariant, PTL

\* f_mem_status answers from remapped addresses what is true of the original
\* ones.
THEOREM StatusIsTrue == PipeSpec => []MemStatusIsTrue
<1>1. PipeInv => MemStatusIsTrue
  BY MemStatusFollows DEF PipeInv
<1> QED BY <1>1, PipeInvariant, PTL

\* An assertion of the constructor fails on ill-formed files only.
THEOREM AbortsAreDeserved == PipeSpec => []AbortsOnlyIllFormed
<1>1. PipeInv => AbortsOnlyIllFormed
  BY DEF PipeInv, AbortInv, AbortsOnlyIllFormed
<1> QED BY <1>1, PipeInvariant, PTL

\* Every access the tool writes to the file is to a region that is allocated
\* there and then, whatever the threads of the program do.
THEOREM AccessesAreTraced == PipeSpec => []AccessesAreInside
<1>1. PipeInv => AccessesAreInside
  BY DEF PipeInv, TracerInv
<1> QED BY <1>1, PipeInvariant, PTL

LEMMA FinalFollows ==
  ASSUME TracerInv, TraceInv
  PROVE  FinalRegionsAgree
<1> SUFFICES ASSUME phase \in {"sweep", "layout"}, events # <<>>, file = trace
             PROVE  {file[i].arg1 : i \in validRegions[Len(events)]} = DOMAIN records
  BY DEF FinalRegionsAgree
<1> DEFINE n == Len(Read)
<1>1. /\ Read = UpToEnd(trace) /\ OfType(trace, "E") # {} /\ Sane(trace) /\ trace \in Seq(Recs)
      /\ ParseInv /\ Len(events) = n /\ DOMAIN Read = 1 .. n /\ n \in Nat
      /\ Len(trace) \in Nat /\ DOMAIN trace = 1 .. Len(trace)
  BY ReadIsSane, LenProperties DEF TraceInv, ParseInv, Read, Sane
<1>2. n < Len(trace) /\ trace[n + 1].type = "E"
  BY <1>1, UpToEndIsSane
<1>3. n # 0
  <2>1. events \in Seq(Recs)
    BY DEF TraceInv, TraceTypeOK
  <2> QED BY <1>1, <2>1, EmptySeq
<1> HIDE DEF n
<1>4. n + 1 = Len(trace)
  <2>1. n + 1 \in DOMAIN trace
    BY <1>1, <1>2
  <2>2. n + 1 \in OfType(trace, "E")
    BY <1>2, <2>1 DEF OfType
  <2> QED BY <2>2 DEF TracerInv, WrittenInv
<1>5. validRegions[n] = LiveAfter(Read, n)
  <2>1. n \in DOMAIN validRegions
    BY <1>1, <1>3, LenProperties DEF TraceInv, TraceTypeOK, IndexInv, n
  <2> QED BY <2>1 DEF TraceInv, IndexInv
<1>6. LiveAfter(trace, n) = LiveAfter(Read, n)
  BY <1>1, <1>3, LiveInFile
<1>7. LiveAfter(trace, n + 1) = LiveAfter(trace, n)
  <2>1. LiveAfter(trace, n + 1) =
          IF trace[n + 1].type = "M" THEN LiveAfter(trace, n) \union {n + 1}
          ELSE {i \in LiveAfter(trace, n) :
                  trace[n + 1].type = "F" => trace[i].arg1 # trace[n + 1].arg1}
    <3>1. n + 1 <= Len(trace)
      BY <1>1, <1>4
    <3> QED BY <1>1, <3>1, LiveAfterNext
  <2> QED BY <1>2, <2>1
<1>8. validRegions[Len(events)] = LiveAfter(trace, Len(trace))
  BY <1>1, <1>4, <1>5, <1>6, <1>7
<1> QED BY <1>8 DEF TracerInv, WrittenInv

\* The blocks that the tool has recorded as active at the end of the program
\* are those the back end lists as valid after the last event.
THEOREM FinalRegionsDoAgree == PipeSpec => []FinalRegionsAgree
<1>1. PipeInv => FinalRegionsAgree
  BY FinalFollows DEF PipeInv
<1> QED BY <1>1, PipeInvariant, PTL

-----------------------------------------------------------------------------
(* A program whose blocks are seen                                         *)

LEMMA WellGoesOn ==
  ASSUME NEW e \in Recs, trace \in Seq(Recs), trace' = Append(trace, e), WellWritten(trace),
         e.type = "M" => /\ \A k \in LiveAfter(trace, Len(trace)) : trace[k].arg1 # e.arg1
                         /\ e.arg1 <= e.arg2,
         e.type \notin {"M", "E"} => \E k \in LiveAfter(trace, Len(trace)) :
                                       trace[k].arg1 <= e.arg1 /\ e.arg1 <= trace[k].arg2
  PROVE  WellWritten(trace')
<1>1. /\ Len(trace) \in Nat /\ DOMAIN trace = 1 .. Len(trace)
      /\ trace' \in Seq(Recs) /\ Len(trace') = Len(trace) + 1 /\ trace'[Len(trace')] = e
      /\ \A i \in DOMAIN trace : i \in DOMAIN trace' /\ trace'[i] = trace[i]
      /\ DOMAIN trace' = 1 .. Len(trace')
  BY LenProperties, LiveAppended
<1>2. \A k \in OfType(trace, "M") : k \in OfType(trace', "M") /\ trace'[k] = trace[k] /\ k <= Len(trace)
  BY <1>1 DEF OfType
<1>3. ASSUME NEW i \in DOMAIN trace', trace'[i].type # "E"
      PROVE  /\ trace'[i].type = "M" =>
                  \A k \in LiveAfter(trace', i - 1) : trace'[k].arg1 # trace'[i].arg1
             /\ \E k \in OfType(trace', "M") :
                  /\ k <= i /\ trace'[k].arg1 <= trace'[i].arg1
                  /\ trace'[i].arg1 <= trace'[k].arg2
  <2>1. i - 1 \in 0 .. Len(trace) /\ i \in Nat /\ i - 1 \in Nat
    BY <1>1
  <2>2. LiveAfter(trace', i - 1) = LiveAfter(trace, i - 1)
    <3>1. \A n \in 0 .. Len(trace) : LiveAfter(Append(trace, e), n) = LiveAfter(trace, n)
      BY LiveAppended
    <3> QED BY <2>1, <3>1
  <2>3. \A k \in LiveAfter(trace, i - 1) : trace'[k] = trace[k]
    BY <1>1, <2>1, LiveAre
  <2>4. CASE i \in DOMAIN trace
    <3>1. trace'[i] = trace[i]
      BY <1>1, <2>4
    <3>2. trace[i].type = "M" => \A k \in LiveAfter(trace, i - 1) : trace[k].arg1 # trace[i].arg1
      BY <1>3, <2>4, <3>1 DEF WellWritten
    <3>3. \E k \in OfType(trace, "M") :
            k <= i /\ trace[k].arg1 <= trace[i].arg1 /\ trace[i].arg1 <= trace[k].arg2
      BY <1>3, <2>4, <3>1 DEF WellWritten
    <3> QED BY <1>2, <2>2, <2>3, <3>1, <3>2, <3>3
  <2>5. CASE i \notin DOMAIN trace
    <3>1. i = Len(trace') /\ trace'[i] = e /\ i - 1 = Len(trace)
      BY <1>1, <2>5
    <3>2. e.type = "M" => \A k \in LiveAfter(trace', i - 1) : trace'[k].arg1 # e.arg1
      BY <2>2, <2>3, <3>1
    <3>3. CASE e.type = "M"
      <4>1. i \in OfType(trace', "M")
        BY <3>1, <3>3 DEF OfType
      <4>2. e.arg1 <= e.arg1 /\ i <= i
        BY <2>1 DEF Recs
      <4>3. /\ i <= i /\ trace'[i].arg1 <= trace'[i].arg1
            /\ trace'[i].arg1 <= trace'[i].arg2
        BY <3>1, <3>3, <4>2
      <4> QED BY <3>1, <3>2, <4>1, <4>3
    <3>4. CASE e.type # "M"
      <4>1. PICK k \in LiveAfter(trace, Len(trace)) :
              trace[k].arg1 <= e.arg1 /\ e.arg1 <= trace[k].arg2
        BY <1>3, <3>1, <3>4
      <4>2. k \in OfType(trace, "M")
        BY <4>1 DEF LiveAfter
      <4>3. k \in OfType(trace', "M") /\ trace'[k] = trace[k] /\ k <= i
        BY <1>1, <1>2, <3>1, <4>2 DEF OfType
      <4> QED BY <3>1, <3>4, <4>1, <4>3
    <3> QED BY <3>3, <3>4
  <2> QED BY <2>4, <2>5
<1> QED BY <1>3 DEF WellWritten

\* The allocator gives a block where there is none.
LEMMA RoomIsFree ==
  ASSUME TracerTypeOK, NEW n \in Sizes, NEW a \in Room(n, {})
  PROVE  a \notin DOMAIN blocks /\ a \in Addrs /\ a \in 0 .. MaxAddr
<1>1. a \in Addrs /\ MaxAddr \in Nat /\ MaxSize \in Nat /\ a \in Nat /\ a \in 0 .. MaxAddr
  BY TracerBounds DEF Room, Addrs
<1>2. a \in Bytes(a, n)
  BY <1>1 DEF Bytes, Sizes
<1>3. a \in DOMAIN blocks => a \in Bytes(a, blocks[a])
  BY <1>1 DEF TracerTypeOK, Bytes, Sizes
<1>4. a \in DOMAIN blocks => a \in Taken
  BY <1>3 DEF Taken
<1> QED BY <1>1, <1>2, <1>4 DEF Room

LEMMA AskIsSeen ==
  ASSUME TracerInv, SeenInv, OneInside', NEW t \in Threads, NEW n \in Sizes, MallocEnter(t, n)
  PROVE  SeenInv'
<1>1. /\ TracerTypeOK
      /\ inside' = [inside EXCEPT ![t] = TRUE] /\ want' = [want EXCEPT ![t] = n] /\ request' = n
      /\ UNCHANGED <<program, blocks, records, trace>>
  BY DEF TracerInv, MallocEnter
<1>2. ASSUME NEW s \in Threads, inside'[s] PROVE want'[s] = request'
  <2>1. inside'[t]
    BY <1>1 DEF TracerTypeOK
  <2>2. s = t
    BY <1>2, <2>1 DEF OneInside
  <2> QED BY <1>1, <2>2 DEF TracerTypeOK
<1>3. RecordsAreActive' /\ (Seen => WellWritten(trace))'
  BY <1>1 DEF SeenInv, RecordsAreActive, Seen, WellWritten
<1> QED BY <1>2, <1>3 DEF SeenInv

LEMMA ReturnIsSeen ==
  ASSUME TracerInv, SeenInv, NEW t \in Threads, MallocReturn(t)
  PROVE  SeenInv'
<1>1. /\ TracerTypeOK /\ trace \in Seq(Recs) /\ inside[t] /\ want[t] = request
      /\ request \in Sizes /\ request \in Nat
      /\ inside' = [inside EXCEPT ![t] = FALSE] /\ UNCHANGED <<program, want, request>>
  BY TracerBounds DEF TracerInv, TracerTypeOK, SeenInv, MallocReturn, Sizes
<1>2. \A s \in Threads : inside'[s] => want'[s] = request'
  BY <1>1 DEF SeenInv, TracerTypeOK
<1>3. ASSUME Seen' PROVE RecordsAreActive' /\ WellWritten(trace')
  <2>1. Seen /\ "null" \notin program
    BY <1>1, <1>3 DEF Seen
  <2>2. PICK a \in Room(request, {}) : blocks' = With(blocks, a, request) /\ RecordMallocResult(a)
    BY <1>1, <2>1 DEF MallocReturn
  <2>3. a \notin DOMAIN blocks /\ a \in Nat /\ a + request \in Nat /\ a <= a + request
    BY <1>1, <2>2, RoomIsFree DEF Addrs
  <2>4. RecordsAreActive'
    <3>1. \A b \in DOMAIN records : b \in DOMAIN blocks /\ records[b] = b + blocks[b]
      BY <2>1 DEF SeenInv, RecordsAreActive
    <3>2. /\ DOMAIN blocks' = DOMAIN blocks \union {a} /\ blocks'[a] = request
          /\ \A b \in DOMAIN blocks : b # a => blocks'[b] = blocks[b]
          /\ DOMAIN records' = DOMAIN records \union {a} /\ records'[a] = a + request
          /\ \A b \in DOMAIN records : b # a => records'[b] = records[b]
      BY <2>2 DEF With, RecordMallocResult
    <3> QED BY <2>3, <3>1, <3>2 DEF RecordsAreActive
  <2> DEFINE e == Rec("M", a, a + request)
  <2>5. /\ e \in Recs /\ e.type = "M" /\ e.arg1 = a /\ e.arg2 = a + request
        /\ trace' = Append(trace, e)
    BY <2>2, <2>3 DEF Rec, Recs, RecordMallocResult
  <2> HIDE DEF e
  <2>6. \A k \in LiveAfter(trace, Len(trace)) : trace[k].arg1 # e.arg1
    BY <2>1, <2>3, <2>5 DEF TracerInv, WrittenInv, SeenInv, RecordsAreActive
  <2>7. WellWritten(trace')
    BY <1>1, <2>1, <2>3, <2>5, <2>6, WellGoesOn DEF SeenInv
  <2> QED BY <2>4, <2>7
<1>4. RecordsAreActive'
  BY <1>3 DEF RecordsAreActive
<1> QED BY <1>2, <1>3, <1>4 DEF SeenInv

LEMMA FreeIsSeen ==
  ASSUME TracerInv, SeenInv, NEW t \in Threads, NEW a, Free(t, a)
  PROVE  SeenInv'
<1>1. /\ TracerTypeOK /\ Sane(trace) /\ trace \in Seq(Recs)
      /\ UNCHANGED <<program, inside, want, request>>
      /\ RecordFree(a) /\ blocks' = Without(blocks, a)
  BY DEF TracerInv, TracerTypeOK, WrittenInv, Free
<1>2. \A s \in Threads : inside'[s] => want'[s] = request'
  BY <1>1 DEF SeenInv
<1>3. ASSUME Seen' PROVE RecordsAreActive' /\ WellWritten(trace')
  <2>1. Seen /\ WellWritten(trace)
        /\ \A b \in DOMAIN records : b \in DOMAIN blocks /\ records[b] = b + blocks[b]
    BY <1>1, <1>3 DEF Seen, SeenInv, RecordsAreActive
  <2>2. /\ \A b \in DOMAIN blocks : b # a => b \in DOMAIN blocks' /\ blocks'[b] = blocks[b]
        /\ \A b \in DOMAIN records' : b \in DOMAIN records /\ b # a /\ records'[b] = records[b]
    BY <1>1 DEF Without, RecordFree
  <2>3. RecordsAreActive'
    BY <2>1, <2>2 DEF RecordsAreActive
  <2>4. CASE a \notin DOMAIN records
    BY <1>1, <2>1, <2>3, <2>4 DEF RecordFree
  <2>5. CASE a \in DOMAIN records
    <3> DEFINE e == Rec("F", a, 0)
    <3>1. /\ e \in Recs /\ e.type = "F" /\ e.arg1 = a /\ trace' = Append(trace, e) /\ a \in Nat
      BY <1>1, <2>5 DEF Rec, Recs, RecordFree, TracerTypeOK
    <3> HIDE DEF e
    <3>2. PICK k \in LiveAfter(trace, Len(trace)) : trace[k].arg1 = a
      BY <2>5 DEF TracerInv, WrittenInv
    <3>3. trace[k].arg1 <= trace[k].arg2
      BY <1>1, <3>2 DEF Sane, LiveAfter
    <3>4. trace[k].arg1 <= a /\ a <= trace[k].arg2
      BY <3>1, <3>2, <3>3
    <3>5. WellWritten(trace')
      BY <1>1, <2>1, <3>1, <3>2, <3>4, WellGoesOn
    <3> QED BY <2>3, <3>5
  <2> QED BY <2>4, <2>5
<1>4. RecordsAreActive'
  BY <1>3 DEF RecordsAreActive
<1> QED BY <1>2, <1>3, <1>4 DEF SeenInv

LEMMA AccessIsSeen ==
  ASSUME TracerInv, SeenInv, NEW t \in Threads, NEW a \in Addrs, NEW type \in {"R", "W"},
         Access(t, a, type)
  PROVE  SeenInv'
<1> DEFINE e == Rec(type, a, 0)
<1>1. /\ trace \in Seq(Recs) /\ Traced(a) /\ trace' = Append(trace, e) /\ a \in Nat
      /\ UNCHANGED <<program, inside, want, blocks, request, records>>
  BY DEF TracerInv, TracerTypeOK, Access, Addrs
<1>2. e \in Recs /\ e.type = type /\ e.arg1 = a
  BY <1>1 DEF Rec, Recs
<1> HIDE DEF e
<1>3. PICK b \in DOMAIN records : b <= a /\ a < records[b]
  BY <1>1 DEF Traced
<1>4. PICK k \in LiveAfter(trace, Len(trace)) : trace[k].arg1 = b /\ trace[k].arg2 = records[b]
  BY <1>3 DEF TracerInv, WrittenInv
<1>5. trace[k].arg1 <= e.arg1 /\ e.arg1 <= trace[k].arg2
  <2>1. trace[k] \in Recs
    BY <1>1, <1>4 DEF LiveAfter, OfType
  <2> QED BY <1>1, <1>2, <1>3, <1>4, <2>1 DEF Recs
<1>6. Seen => WellWritten(trace')
  BY <1>1, <1>2, <1>4, <1>5, WellGoesOn DEF SeenInv
<1>7. (\A s \in Threads : inside[s] => want[s] = request)' /\ RecordsAreActive'
  BY <1>1 DEF SeenInv, RecordsAreActive, Seen
<1> QED BY <1>1, <1>6, <1>7 DEF SeenInv, Seen

LEMMA UnseenIsUnseen ==
  ASSUME TracerInv, SeenInv, NEW t \in Threads, Calloc(t) \/ Realloc(t)
  PROVE  SeenInv'
<1>1. TracerTypeOK /\ UNCHANGED <<program, inside, want, request, records, trace>>
  BY DEF TracerInv, Calloc, Realloc
<1>2. ASSUME Seen' PROVE RecordsAreActive'
  <2>1. Seen /\ \A b \in DOMAIN records : b \in DOMAIN blocks /\ records[b] = b + blocks[b]
    BY <1>1, <1>2 DEF Seen, SeenInv, RecordsAreActive
  <2>2. Calloc(t)
    BY <2>1 DEF Realloc, Seen
  <2>3. PICK n \in Sizes : \E a \in Room(n, {}) : blocks' = With(blocks, a, n)
    BY <2>2 DEF Calloc
  <2>4. PICK a \in Room(n, {}) : blocks' = With(blocks, a, n)
    BY <2>3
  <2>5. a \notin DOMAIN blocks
    BY <1>1, <2>3, <2>4, RoomIsFree
  <2>6. \A b \in DOMAIN blocks : b \in DOMAIN blocks' /\ blocks'[b] = blocks[b]
    BY <2>4, <2>5 DEF With
  <2> QED BY <1>1, <2>1, <2>6 DEF RecordsAreActive
<1>3. RecordsAreActive'
  BY <1>2 DEF RecordsAreActive
<1>4. (\A s \in Threads : inside[s] => want[s] = request)' /\ (Seen => WellWritten(trace))'
  BY <1>1 DEF SeenInv, Seen, WellWritten
<1> QED BY <1>3, <1>4 DEF SeenInv

LEMMA FiniIsSeen ==
  ASSUME TracerInv, SeenInv, Fini
  PROVE  SeenInv'
<1>1. /\ trace \in Seq(Recs)
      /\ UNCHANGED <<program, inside, want, blocks, request, records>>
      /\ trace' = Append(trace, Rec("E", 0, 0)) \/ UNCHANGED trace
  BY DEF TracerInv, TracerTypeOK, Fini
<1>2. Seen => WellWritten(trace')
  <2>1. CASE trace' = Append(trace, Rec("E", 0, 0))
    <3>1. Rec("E", 0, 0) \in Recs /\ Rec("E", 0, 0).type = "E"
      BY DEF Rec, Recs
    <3> QED BY <1>1, <2>1, <3>1, WellGoesOn DEF SeenInv
  <2>2. CASE trace' = trace
    BY <2>2 DEF SeenInv
  <2> QED BY <1>1, <2>1, <2>2
<1>3. (\A s \in Threads : inside[s] => want[s] = request)' /\ RecordsAreActive'
  BY <1>1 DEF SeenInv, RecordsAreActive, Seen
<1> QED BY <1>1, <1>2, <1>3 DEF SeenInv, Seen

LEMMA SeenGoesOn ==
  ASSUME PipeInv, SeenInv, OneInside', [PipeNext]_pipeVars
  PROVE  SeenInv'
<1>1. CASE TracerNext
  <2>1. TracerInv
    BY DEF PipeInv
  <2>2. ASSUME NEW t \in Threads, ThreadStep(t) PROVE SeenInv'
    BY <2>1, <2>2, AskIsSeen, ReturnIsSeen, FreeIsSeen, AccessIsSeen, UnseenIsUnseen
       DEF ThreadStep
  <2> QED BY <1>1, <2>1, <2>2, FiniIsSeen DEF TracerNext
<1>2. CASE UNCHANGED <<program, inside, want, blocks, request, records, trace>>
  BY <1>2 DEF SeenInv, RecordsAreActive, Seen, WellWritten
<1> QED BY <1>1, <1>2 DEF PipeNext, pipeVars, tracerVars, Update, Debug, Constructs

LEMMA SeenAtFirst ==
  ASSUME PipeInit
  PROVE  SeenInv
<1>1. DOMAIN records = {} /\ DOMAIN trace = {} /\ \A t \in Threads : ~inside[t]
  BY DEF PipeInit, TracerInit
<1> QED BY <1>1 DEF SeenInv, RecordsAreActive, WellWritten

\* What is read of a file without an ill-formed record is well-formed.
LEMMA WellIsRead ==
  ASSUME NEW f, Sane(f), OfType(f, "E") # {}, WellWritten(f)
  PROVE  WellFormed(UpToEnd(f))
<1> DEFINE r == UpToEnd(f)
<1>1. /\ f \in Seq(Recs) /\ Len(f) \in Nat /\ r \in Seq(Recs) /\ Len(r) < Len(f)
      /\ DOMAIN r = 1 .. Len(r) /\ Len(r) \in Nat
      /\ \A i \in 1 .. Len(r) : i \in DOMAIN f /\ r[i] = f[i] /\ f[i].type # "E"
  BY UpToEndIsSane, LenProperties DEF Sane
<1> HIDE DEF r
<1>2. ASSUME NEW i \in DOMAIN r
      PROVE  /\ r[i].type = "M" => \A k \in LiveAfter(r, i - 1) : r[k].arg1 # r[i].arg1
             /\ \E k \in OfType(r, "M") : r[k].arg1 <= r[i].arg1 /\ r[i].arg1 <= r[k].arg2
  <2> DEFINE n == i - 1
  <2>1. /\ n \in Nat /\ n <= Len(f) /\ n <= Len(r) /\ i \in Nat /\ i <= Len(r)
        /\ \A k \in 1 .. n : k \in 1 .. Len(r)
    BY <1>1
  <2> HIDE DEF n
  <2>2. LiveAfter(r, n) = LiveAfter(f, n)
    <3>1. \A k \in 1 .. n : r[k] = f[k]
      BY <1>1, <2>1
    <3> QED BY <1>1, <2>1, <3>1, LiveOfPrefix
  <2>3. \A k \in LiveAfter(f, n) : r[k] = f[k]
    BY <1>1, <2>1, LiveAre
  <2>4. r[i] = f[i] /\ i \in DOMAIN f /\ f[i].type # "E"
    BY <1>1
  <2>5. f[i].type = "M" => \A k \in LiveAfter(f, n) : f[k].arg1 # f[i].arg1
    BY <2>4 DEF WellWritten, n
  <2>6. PICK k \in OfType(f, "M") : k <= i /\ f[k].arg1 <= f[i].arg1 /\ f[i].arg1 <= f[k].arg2
    BY <2>4 DEF WellWritten
  <2>7. k \in 1 .. Len(r)
    <3>1. k \in 1 .. Len(f)
      BY <1>1, <2>6 DEF OfType
    <3> QED BY <1>1, <2>1, <2>6, <3>1
  <2>8. k \in OfType(r, "M") /\ r[k] = f[k]
    BY <1>1, <2>6, <2>7 DEF OfType
  <2> QED BY <2>2, <2>3, <2>4, <2>5, <2>6, <2>8 DEF n
<1> QED BY <1>2 DEF WellFormed, r

LEMMA NeverAbortsFollows ==
  ASSUME PipeInv, SeenInv
  PROVE  SeenNeverAborts
<1> SUFFICES ASSUME Seen, file = trace, phase = "aborted" PROVE FALSE
  BY DEF SeenNeverAborts, NeverAborts
<1>1. Sane(file) /\ OfType(file, "E") # {} /\ ~WellFormed(UpToEnd(file))
  BY DEF PipeInv, AbortInv, TraceInv, ParseInv
<1> QED BY <1>1, WellIsRead DEF SeenInv

\* As long as no two threads are in malloc at once, the tool's records are the
\* active heap locations of a program whose blocks it sees (pervert.cpp:286).
\* With two it is not so: the request of one is taken for the other's.
THEOREM RecordsStayActive == PipeSpec /\ []OneInside => []RecordsAreActive
<1>1. PipeInit => SeenInv
  BY SeenAtFirst
<1>2. PipeInv /\ SeenInv /\ OneInside' /\ [PipeNext]_pipeVars => SeenInv'
  BY SeenGoesOn
<1>3. SeenInv => RecordsAreActive
  BY DEF SeenInv
<1> QED BY <1>1, <1>2, <1>3, PipeInvariant, PTL DEF PipeSpec

\* ... and the constructor never aborts on the trace of such a program.
THEOREM SeenIsAnalysed == PipeSpec /\ []OneInside => []SeenNeverAborts
<1>1. PipeInit => SeenInv
  BY SeenAtFirst
<1>2. PipeInv /\ SeenInv /\ OneInside' /\ [PipeNext]_pipeVars => SeenInv'
  BY SeenGoesOn
<1>3. PipeInv /\ SeenInv => SeenNeverAborts
  BY NeverAbortsFollows
<1> QED BY <1>1, <1>2, <1>3, PipeInvariant, PTL DEF PipeSpec

\* A program of one thread is of that kind.
THEOREM OneThreadSuffices ==
  ASSUME \A s, t \in Threads : s = t
  PROVE  PipeSpec => [](RecordsAreActive /\ SeenNeverAborts)
<1>1. OneInside
  BY DEF OneInside
<1>2. []OneInside
  BY <1>1, PTL
<1> QED BY <1>2, RecordsStayActive, SeenIsAnalysed, PTL
=============================================================================
