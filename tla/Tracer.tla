------------------------------- MODULE Tracer -------------------------------
(***************************************************************************)
(* The Pin tool of PerVERT: what it writes to the trace file while the     *)
(* threads of a program run.                                               *)
(*                                                                         *)
(* The tool is called when malloc is entered, when it returns, when free   *)
(* is entered, and before every access to memory; it is not called for     *)
(* calloc and realloc.  The program and its allocator are external: they   *)
(* do what Program allows, and the allocator only promises that the blocks *)
(* in use never overlap.                                                   *)
(*                                                                         *)
(* Every callback is one step.  With several threads they are not atomic   *)
(* in the code; what goes wrong here goes wrong even if they were.         *)
(***************************************************************************)
EXTENDS TraceFormat

CONSTANTS
  Threads,    \* threads of the program
  Programs,   \* what programs do beside malloc, free and accesses, see Extras
  MaxAddr,    \* bound: memory is 1 .. MaxAddr, 0 is NULL
  MaxSize,    \* bound: the largest request
  MaxEvents   \* bound: records written

\* "outside": records are made before main is entered or after it has returned,
\* or main is not in the table of lines: their contexts may be all unknown.
Extras == {"calloc", "realloc", "null", "killed", "outside"}

ASSUME ProgramAssumption == Programs \subseteq SUBSET Extras
ASSUME TracerBounds == {MaxAddr, MaxSize, MaxEvents} \subseteq Nat

VARIABLES
  program,   \* of the Programs, the one that runs
  inside,    \* of each thread: between entry of malloc and its return
  want,      \* ... and the size it asked for
  blocks,    \* the allocator's: size of each block in use, by its address
  request,   \* The last size request passed to malloc
  records,   \* All currently active heap locations: end, by begin
  trace,     \* the file written so far
  ended      \* the program is over

tracerVars == <<program, inside, want, blocks, request, records, trace, ended>>

Addrs == 1 .. MaxAddr
Sizes == 0 .. MaxSize

\* Also malloc(0) gets a block of its own.
Bytes(a, n) == a .. a + (IF n = 0 THEN 0 ELSE n - 1)
Taken == UNION {Bytes(a, blocks[a]) : a \in DOMAIN blocks}

\* Where the allocator may put a block, but for the one it gives up for it.
Room(n, old) ==
  {a \in Addrs : /\ Bytes(a, n) \subseteq Addrs
                 /\ Bytes(a, n) \cap (Taken \ old) = {}}

TracerTypeOK ==
  /\ program \in Programs
  /\ inside \in [Threads -> BOOLEAN]
  /\ want \in [Threads -> Sizes]
  /\ DOMAIN blocks \subseteq Addrs /\ \A a \in DOMAIN blocks : blocks[a] \in Sizes
  /\ request \in Sizes
  /\ DOMAIN records \subseteq 0 .. MaxAddr
  /\ \A a \in DOMAIN records : records[a] - a \in Sizes
  /\ trace \in Seq(Recs)
  /\ ended \in BOOLEAN

TracerInit ==
  /\ program \in Programs
  /\ inside = [t \in Threads |-> FALSE]
  /\ want = [t \in Threads |-> 0]
  /\ blocks = <<>>
  /\ request = 0
  /\ records = <<>>
  /\ trace = <<>>
  /\ ended = FALSE

Runs(t) == ~ended /\ ~inside[t] /\ Len(trace) < MaxEvents

-----------------------------------------------------------------------------
\* RecordMalloc
MallocEnter(t, n) ==
  /\ Runs(t)
  /\ inside' = [inside EXCEPT ![t] = TRUE]
  /\ want' = [want EXCEPT ![t] = n]
  /\ request' = n
  /\ UNCHANGED <<program, blocks, records, trace, ended>>

\* Mutant: the recorded region is one byte too long.
RecordMallocLong(a) ==
  /\ records' = With(records, a, a + request + 1)
  /\ trace' = Append(trace, Rec("M", a, a + request + 1))

\* RecordMallocResult: the end is computed from the last request of anybody.
RecordMallocResult(a) ==
  /\ records' = With(records, a, a + request)
  /\ trace' = Append(trace, Rec("M", a, a + request))

MallocReturn(t) ==
  /\ inside[t] /\ ~ended
  /\ \/ \E a \in Room(want[t], {}) :
          /\ blocks' = With(blocks, a, want[t])
          /\ RecordMallocResult(a)
     \/ /\ "null" \in program
        /\ RecordMallocResult(0)
        /\ UNCHANGED blocks
  /\ inside' = [inside EXCEPT ![t] = FALSE]
  /\ UNCHANGED <<program, want, request, ended>>

\* Mutants: the record of a freed block is kept, or the file is not told.
RecordFreeKeeps(a) ==
  /\ UNCHANGED records
  /\ trace' = IF a \in DOMAIN records THEN Append(trace, Rec("F", a, 0)) ELSE trace
RecordFreeSilent(a) == records' = Without(records, a) /\ UNCHANGED trace

\* RecordFree
RecordFree(a) ==
  IF a \in DOMAIN records
    THEN records' = Without(records, a) /\ trace' = Append(trace, Rec("F", a, 0))
    ELSE UNCHANGED <<records, trace>>

\* free(NULL) is allowed.
Free(t, a) ==
  /\ Runs(t)
  /\ a \in DOMAIN blocks \union {0}
  /\ blocks' = Without(blocks, a)
  /\ RecordFree(a)
  /\ UNCHANGED <<program, inside, want, request, ended>>

\* Mutant: the end of a region counts as inside.
TracedToEnd(a) == \E b \in DOMAIN records : b <= a /\ a <= records[b]

Traced(a) == \E b \in DOMAIN records : b <= a /\ a < records[b]

\* RecordMemRead, RecordMemWrite
Access(t, a, type) ==
  /\ Runs(t)
  /\ Traced(a)
  /\ trace' = Append(trace, Rec(type, a, 0))
  /\ UNCHANGED <<program, inside, want, blocks, request, records, ended>>

-----------------------------------------------------------------------------
(* What the tool does not see                                              *)

Calloc(t) ==
  /\ "calloc" \in program
  /\ Runs(t)
  /\ \E n \in Sizes : \E a \in Room(n, {}) : blocks' = With(blocks, a, n)
  /\ UNCHANGED <<program, inside, want, request, records, trace, ended>>

Realloc(t) ==
  /\ "realloc" \in program
  /\ Runs(t)
  /\ \E old \in DOMAIN blocks, n \in Sizes :
       \E a \in Room(n, Bytes(old, blocks[old])) :
         blocks' = With(Without(blocks, old), a, n)
  /\ UNCHANGED <<program, inside, want, request, records, trace, ended>>

\* Fini; a program that is killed writes no "E".
Fini ==
  /\ ~ended
  /\ ended' = TRUE
  /\ \/ (\E t \in Threads : ~inside[t]) /\ trace' = Append(trace, Rec("E", 0, 0))
     \/ "killed" \in program /\ UNCHANGED trace
  /\ UNCHANGED <<program, inside, want, blocks, request, records>>

ThreadStep(t) ==
  \/ \E n \in Sizes : MallocEnter(t, n)
  \/ MallocReturn(t)
  \/ \E a \in Addrs \union {0} : Free(t, a)
  \/ \E a \in Addrs, type \in {"R", "W"} : Access(t, a, type)
  \/ Calloc(t)
  \/ Realloc(t)

TracerNext == (\E t \in Threads : ThreadStep(t)) \/ Fini

-----------------------------------------------------------------------------
(* What the back end relies on                                             *)

\* A program whose every block the tool gets to see.
Seen == program \cap {"realloc", "null"} = {}

\* pervert.cpp:286: records is "All currently active heap locations".  Every
\* region in it is a block of the allocator, from its begin to its end.
RecordsAreActive ==
  Seen => \A a \in DOMAIN records : a \in DOMAIN blocks /\ records[a] = a + blocks[a]

\* Every access in the file is to a region that is allocated there and then:
\* so remapAddress finds it.
AccessesAreInside ==
  \A j \in DOMAIN trace :
    trace[j].type \in {"R", "W"} =>
      \E i \in LiveAfter(trace, j) :
        trace[i].arg1 <= trace[j].arg1 /\ trace[j].arg1 < trace[i].arg2
=============================================================================
