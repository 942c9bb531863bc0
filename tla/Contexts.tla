------------------------------ MODULE Contexts ------------------------------
(***************************************************************************)
(* The context of an event: the Pin tool writes its call stack behind      *)
(* every record, and the back end maps each address of it to a location of *)
(* the source, by the table of lines it has read from the .pervert file.   *)
(* Neither changes a state of CallStack: contexts are functions of it.     *)
(***************************************************************************)
EXTENDS CallStack

CONSTANT Lines   \* the address of each row of the table, in its order

ASSUME LinesAssumption == Len(Lines) >= 2

Unknown == 0

\* RecordMemRead and its like: the access, and the calls innermost first.
DumpStack(ip) == <<ip>> \o Reverse([i \in DOMAIN _activations |-> _activations[i].ip])

\* The first row an address is in; the last row only ends the one before it.
Location(address) ==
  LET rows == {i \in 1 .. Len(Lines) - 1 : Lines[i] <= address /\ address < Lines[i + 1]}
  IN IF rows = {} THEN Unknown ELSE Min(rows)

\* An address that ends the line is not mapped: it is read at eof.
Locations(line) == [i \in 1 .. Len(line) - 1 |-> Location(line[i])]

\* Nothing but UNKNOWN: the loop that pops them reads the empty vector.
Undefined(ctx) == ctx # <<>> /\ Range(ctx) = {Unknown}

\* Mutant: UNKNOWN is removed from the other end.
ParseFromFront(line) ==
  LET ctx == Locations(line) IN
  SubSeq(ctx, Min({i \in 1 .. Len(ctx) + 1 : i > Len(ctx) \/ ctx[i] # Unknown}), Len(ctx))

\* parseContext, where it is defined.
ParseContext(line) ==
  LET ctx == Locations(line) IN
  SubSeq(ctx, 1, Max({i \in 0 .. Len(ctx) : i = 0 \/ ctx[i] # Unknown}))

-----------------------------------------------------------------------------
\* The addresses that lead to the access at ip, but for the outermost call.
Chain(ip) == <<ip>> \o Reverse([k \in 1 .. Len(real) - 1 |-> real[k + 1].ip])

\* Where a context has a location the table knows.  A stub's is not looked at,
\* nor is main's first: neither need stand where main's callees do.
Known(c) == {i \in DOMAIN c : c[i] \notin {Unknown, Location(StubIp), Location(MainIp)}}

\* Both have the same known locations, in the same order.
SameKnown(c, d) ==
  \E at \in [Known(d) -> Known(c)] :
    /\ Range(at) = Known(c)
    /\ \A i \in Known(d) : c[at[i]] = d[i]
    /\ \A i, j \in Known(d) : i < j => at[i] < at[j]

\* While no active function has been landed in by a longjmp, a context is the
\* real chain of calls, as far as the table knows it, and ends in the source.
ContextIsTrue ==
  (\A f \in Range(real) : ~f.landed) =>
    \A ip \in Ips :
      LET line == DumpStack(ip)
          ctx == ParseContext(line) IN
      /\ SameKnown(ctx, [i \in DOMAIN Chain(ip) |-> Location(Chain(ip)[i])])
      /\ ~Undefined(Locations(line)) => (ctx = <<>> \/ Last(ctx) # Unknown)

\* While main is active and its own code is in the table, every context is
\* defined, also after a longjmp: the loop of trace.cpp:262, which asks for no
\* end of the vector, finds a known location before it.
DefinedInMain ==
  phase = "main" =>
    \A ip \in Ips :
      LET inMain == IF Top.main THEN ip ELSE real[3].ip IN
      Location(inMain) # Unknown => ~Undefined(Locations(DumpStack(ip)))
=============================================================================
