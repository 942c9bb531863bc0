---------------------------- MODULE TraceFormat ----------------------------
(***************************************************************************)
(* The trace file, which the Pin tool writes and the back end reads: one   *)
(* record per line.  "M" begin end, "F" begin, "R" address, "W" address,   *)
(* and at the end "E".  The context of a record (the call stack) is left   *)
(* out; what becomes of it is in Contexts.  All that matters here is that  *)
(* the back end may die of a context, see ParseCrashes of TraceIndex.      *)
(***************************************************************************)
EXTENDS Integers, Sequences

\* A record; only M uses arg2.
Rec(type, a, b) == [type |-> type, arg1 |-> a, arg2 |-> b]
Recs == [type : {"M", "F", "R", "W", "E"}, arg1 : Nat, arg2 : Nat]

OfType(f, type) == {i \in DOMAIN f : f[i].type = type}

\* A file of records whose blocks end no sooner than they begin.
Sane(f) == f \in Seq(Recs) /\ \A i \in OfType(f, "M") : f[i].arg1 <= f[i].arg2

\* The region of record i is freed by a record between i and j.
FreedBetween(f, i, j) ==
  \E k \in i + 1 .. j - 1 : f[k].type = "F" /\ f[k].arg1 = f[i].arg1

\* The regions that are allocated after record n.
LiveAfter(f, n) == {i \in OfType(f, "M") : i <= n /\ ~FreedBetween(f, i, n + 1)}

\* The map with b at a; and with nothing at a.
With(f, a, b) == [x \in DOMAIN f \union {a} |-> IF x = a THEN b ELSE f[x]]
Without(f, a) == [x \in DOMAIN f \ {a} |-> f[x]]
=============================================================================
