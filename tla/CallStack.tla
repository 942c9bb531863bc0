----------------------------- MODULE CallStack -----------------------------
(***************************************************************************)
(* The call stack of PerVERT's Pin tool: what it keeps in _activations,    *)
(* from the calls, PLT stubs and returns it is told of, beside the real    *)
(* stack of the program, of which it only ever sees the stack pointer.     *)
(* longjmp it does not see at all.                                         *)
(*                                                                         *)
(* The program is external; it has one thread.  Its stack grows down, in   *)
(* words, from 0.  The outermost call is the one of _start to              *)
(* __libc_start_main, which calls main once and never returns.             *)
(***************************************************************************)
EXTENDS Integers, Sequences, FiniteSetsExt, SequencesExt

CONSTANTS
  Ips,        \* addresses of code that calls, or accesses memory
  StubIp,     \* the address of a PLT stub
  MainIp,     \* the address of main
  MaxDepth,   \* bound: calls of the program that are active at once
  MaxArgs,    \* bound: words pushed before a call
  MaxLocals,  \* bound: words a function puts below its return address
  MaxStubs    \* bound: stubs a call goes through; lazy binding takes three

ASSUME CallStackBounds ==
  /\ Ips # {}
  /\ MaxDepth \in Nat \ {0} /\ {MaxArgs, MaxLocals, MaxStubs} \subseteq Nat

VARIABLES
  real,           \* the active calls, outermost first
  phase,          \* "before" main, in "main", "after" it
  _activations

callVars == <<real, phase, _activations>>

\* A call from ip, with the stack pointer at sp.  The stack pointer of the
\* function it called rests at rest; it runs once it is through the stubs, hops
\* of them; landed in it has a longjmp.
Frame(ip, sp) ==
  [ip |-> ip, sp |-> sp, rest |-> sp - 1, hops |-> 0, runs |-> FALSE,
   main |-> FALSE, landed |-> FALSE]

\* The ip of an activation, and the stack pointer at the call site.
Activation(ip, sp) == [ip |-> ip, sp |-> sp]

\* Mutant: TIPP changed this from > to >=, "not sure it's right".
AdjustOnlyAbove(acts, sp) ==
  SubSeq(acts, 1, Min({n \in 0 .. Len(acts) :
                         \A i \in n + 1 .. Len(acts) : sp > acts[i].sp}))
\* What is left once the activations the stack pointer has passed are popped.
AdjustStack(acts, sp) ==
  SubSeq(acts, 1, Min({n \in 0 .. Len(acts) :
                         \A i \in n + 1 .. Len(acts) : sp >= acts[i].sp}))

\* Mutant: the activation takes the place of the caller's.
CallReplaces(acts, ip, sp) ==
  Append(SubSeq(AdjustStack(acts, sp), 1, Len(AdjustStack(acts, sp)) - 1), Activation(ip, sp))

ProcessCall(acts, ip, sp) == Append(AdjustStack(acts, sp), Activation(ip, sp))

\* A return that finds the stack empty is tolerated.
ProcessReturn(acts, sp) ==
  LET left == AdjustStack(acts, sp) IN IF left = <<>> THEN left ELSE Front(left)

-----------------------------------------------------------------------------
Top == Last(real)
SetTop(f) == real' = [real EXCEPT ![Len(real)] = f]

\* Where _start calls from.
StartIp == CHOOSE ip \in Ips : TRUE

\* The first call that is seen.
CallInit ==
  /\ real = <<[Frame(StartIp, 0) EXCEPT !.runs = TRUE]>>
  /\ phase = "before"
  /\ _activations = ProcessCall(<<>>, StartIp, 0)

\* A_ProcessDirectCall, A_ProcessIndirectCall
Call(ip, args) ==
  /\ Top.runs /\ Len(real) < MaxDepth
  /\ LET sp == Top.rest - args IN
       /\ real' = Append(real, Frame(ip, sp))
       /\ _activations' = ProcessCall(_activations, ip, sp)
  /\ UNCHANGED phase

\* A_ProcessStub: the return address is on the stack, and a word of every
\* earlier hop.
Stub ==
  LET sp == Top.sp - 1 - Top.hops IN
  /\ ~Top.runs /\ ~Top.main /\ Top.hops < MaxStubs
  /\ SetTop([Top EXCEPT !.hops = @ + 1])
  /\ _activations' = ProcessCall(_activations, StubIp, sp)
  /\ UNCHANGED phase

\* A_EnterMainImage: _start's first call has called main.
ProcessMainEntry ==
  /\ phase = "before" /\ Len(real) = 2
  /\ ~Top.runs /\ Top.hops = 0
  /\ SetTop([Top EXCEPT !.main = TRUE])
  /\ _activations' = ProcessCall(_activations, MainIp, Top.sp - 1)
  /\ phase' = "main"

\* The function has its locals on the stack: the tool is not told.
Enter(locals) ==
  /\ ~Top.runs
  /\ SetTop([Top EXCEPT !.runs = TRUE, !.rest = @ - locals])
  /\ UNCHANGED <<phase, _activations>>

\* A_ProcessReturn: the stack pointer is at the return address.
Return ==
  /\ Top.runs /\ Len(real) > 1
  /\ real' = Front(real)
  /\ _activations' = ProcessReturn(_activations, Top.sp - 1)
  /\ phase' = IF Top.main THEN "after" ELSE phase

\* The functions above the k-th are gone: the tool is not told.
Longjmp(k) ==
  /\ Top.runs
  /\ real' = [SubSeq(real, 1, k) EXCEPT ![k].landed = TRUE]
  /\ \A f \in Range(SubSeq(real, k + 1, Len(real))) : ~f.main
  /\ UNCHANGED <<phase, _activations>>

CallNext ==
  \/ \E ip \in Ips, args \in 0 .. MaxArgs : Call(ip, args)
  \/ Stub
  \/ ProcessMainEntry
  \/ \E locals \in 0 .. MaxLocals : Enter(locals)
  \/ Return
  \/ \E k \in 2 .. Len(real) - 1 : Longjmp(k)

CallSpec == CallInit /\ [][CallNext]_callVars

-----------------------------------------------------------------------------
Frames ==
  [ip : Ips, sp : Int, rest : Int, hops : Nat, runs : BOOLEAN,
   main : BOOLEAN, landed : BOOLEAN]
Activations == [ip : Ips \union {StubIp, MainIp}, sp : Int]

\* Everything has its type, and both stacks go down.
CallTypeOK ==
  /\ phase \in {"before", "main", "after"}
  /\ real \in Seq(Frames) /\ Len(real) \in 1 .. MaxDepth
  /\ _activations \in Seq(Activations)
  /\ \A i \in DOMAIN real : real[i].rest < real[i].sp
  /\ \A i, j \in DOMAIN real : i < j => real[j].sp <= real[i].rest
  /\ \A i, j \in DOMAIN _activations : i < j => _activations[j].sp < _activations[i].sp

\* The activations of a call: the stubs' and main's lie where it returns to.
IsCall(a, f) == a = Activation(f.ip, f.sp)
IsEntry(a, f) ==
  \/ f.main /\ a = Activation(MainIp, f.sp - 1)
  \/ a.ip = StubIp /\ a.sp \in f.sp - f.hops .. f.sp - 1

\* No call is lost: CallStack.cpp:50 rolls the stack back, whatever longjmps
\* the program made, but never past a call that is still active.
NoCallLost ==
  \A f \in Range(real) : \E a \in Range(_activations) : IsCall(a, f)

\* What the tool is not told of can show in one place only: an activation of
\* no active call lies within a function a longjmp has landed in, under the
\* calls made there since; so it is gone when that function returns.
StaleOnlyWhereLanded ==
  \A a \in Range(_activations) :
    \/ \E f \in Range(real) : IsCall(a, f) \/ IsEntry(a, f)
    \/ \E k \in DOMAIN real :
         /\ real[k].landed /\ a.sp < real[k].sp
         /\ k < Len(real) => a.sp > real[k + 1].sp

\* What DefinedInMain of Contexts needs beside these: main is the function the
\* outermost call has called, and no other.
MainIsSecond ==
  /\ \A i \in DOMAIN real : real[i].main => i = 2
  /\ phase = "main" => Len(real) > 1 /\ real[2].main

\* Together these are inductive.
CallInv == CallTypeOK /\ NoCallLost /\ StaleOnlyWhereLanded /\ MainIsSecond
=============================================================================
