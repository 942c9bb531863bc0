---------------------------- MODULE TraceSystem ----------------------------
(***************************************************************************)
(* From the traced program to the analysed trace: the driver script runs   *)
(* the tracer and, when it is gone, has the back end construct a Trace     *)
(* from the file it left.  The other script, pervert_debug, traces nothing *)
(* and has the back end read a file that is there.                         *)
(***************************************************************************)
EXTENDS Tracer, TraceQueries

CONSTANT Files   \* the trace files that are there: sequences of records

ASSUME FilesAssumption == \A f \in Files : Sane(f)

pipeVars == <<tracerVars, traceVars>>

PipeInit == TracerInit /\ TraceInit

\* The update request: the script sends it whatever way the tracer ended.
Update == ended /\ Load(trace) /\ UNCHANGED tracerVars

\* pervert_debug, when no program is being traced.
Debug ==
  /\ ~ended /\ trace = <<>> /\ blocks = <<>> /\ \A t \in Threads : ~inside[t]
  /\ \E f \in Files : Load(f)
  /\ ended' = TRUE
  /\ UNCHANGED <<program, inside, want, blocks, request, records, trace>>

\* Of a trace written just now the constructor dies in parseContext only if
\* records were made outside main: inside it, contexts are defined (see
\* DefinedInMain of Contexts).  Of a file that is there, nothing is known.
Constructs ==
  /\ Construct
  /\ phase' = "crashed" => "outside" \in program \/ file # trace
  /\ UNCHANGED tracerVars

PipeNext ==
  \/ TracerNext /\ UNCHANGED traceVars
  \/ Update
  \/ Debug
  \/ Constructs

PipeSpec == PipeInit /\ [][PipeNext]_pipeVars

\* The driver script runs to its end and so does the constructor; the program
\* need not end.
FairPipeSpec ==
  PipeSpec /\ WF_pipeVars(Update) /\ WF_pipeVars(Constructs)

-----------------------------------------------------------------------------
\* What the tool found active at the end of the program is what the back end
\* shows as valid after the last event.
FinalRegionsAgree ==
  phase \in {"sweep", "layout"} /\ events # <<>> /\ file = trace =>
    {file[i].arg1 : i \in validRegions[Len(events)]} = DOMAIN records

\* A program whose blocks are seen, that is traced within main only and that
\* ends properly, gets its trace analysed up to the last record, unless a file
\* cannot be opened: the constructor neither aborts nor loops for ever.  This
\* is not so of a truncated trace (ParseDiverges), nor with records made outside
\* main (ParseCrashes).
EndedIsAnalysed ==
  /\ phase = "parse" /\ file = trace /\ OfType(file, "E") # {}
  /\ Seen /\ "outside" \notin program
  ~> phase = "done" /\ (events = <<>> \/ Len(validRegions) = Len(UpToEnd(file)))
=============================================================================
