---------------------------- MODULE MCTraceSystem ---------------------------
(***************************************************************************)
(* Instances of TraceSystem for TLC.  The files have up to three blocks,   *)
(* its last byte accessed, and freed before the next: so they may lie      *)
(* apart, touch, nest, overlap and coincide, on one line or on many.       *)
(* Files without their end, files of simultaneous blocks, and ill-formed   *)
(* ones, too.                                                              *)
(***************************************************************************)
EXTENDS TraceInvariants

CONSTANT Bound   \* bound: the highest address

Intervals == {p \in (1 .. Bound) \X (1 .. Bound) : p[1] <= p[2]}
Born(p) == <<Rec("M", p[1], p[2])>>
Used(p) == IF p[1] < p[2] THEN <<Rec("W", p[2] - 1, 0)>> ELSE <<>>
Freed(p) == <<Rec("F", p[1], 0)>>
Life(p) == Born(p) \o Used(p) \o Freed(p)
End == <<Rec("E", 0, 0)>>

Triples == {t \in Intervals \X Intervals \X Intervals :
              t[1][1] <= t[2][1] /\ t[2][1] <= t[3][1]}

\* Two that are allocated at once, the second above the first.
Pairs == {t \in Intervals \X Intervals : t[1][2] <= t[2][1] /\ t[1][1] < t[2][1]}

WholeFiles ==
  {Life(t[1]) \o Life(t[2]) \o Life(t[3]) \o End : t \in Triples}
    \union {Born(t[1]) \o Born(t[2]) \o Freed(t[1]) \o Used(t[2]) \o End : t \in Pairs}
    \union {End}
Truncated == {Born(p) \o Used(p) : p \in Intervals}
IllFormed == {Born(p) \o Born(p) \o End : p \in Intervals}
               \union {Born(p) \o <<Rec("R", p[2] + 1, 0)>> \o End : p \in Intervals}
AllFiles == WholeFiles \union Truncated \union IllFormed

\* Programs whose blocks the tool sees, within main or not; and two that have
\* them from elsewhere.
AllPrograms == {{"calloc", "killed"}, {"outside"}, {"realloc"}, {"null"}}
=============================================================================
