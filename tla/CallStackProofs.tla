-------------------------- MODULE CallStackProofs --------------------------
(***************************************************************************)
(* Proofs about CallStack and Contexts, for programs of any depth of calls *)
(* with any numbers of arguments, locals and stubs, and any table of       *)
(* lines.                                                                  *)
(*                                                                         *)
(* CallInv is inductive.  As its parts speak of the set of activations     *)
(* only, the lemmas on ProcessCall and ProcessReturn say which of them are *)
(* left; only the contexts, which list the stack, need its order.          *)
(***************************************************************************)
EXTENDS Contexts, BasicLemmas, SequenceTheorems

Decreasing(acts) == \A i, j \in DOMAIN acts : i < j => acts[j].sp < acts[i].sp

LEMMA SpOfActivation ==
  ASSUME NEW acts \in Seq(Activations)
  PROVE  /\ Len(acts) \in Nat /\ DOMAIN acts = 1 .. Len(acts)
         /\ \A i \in 1 .. Len(acts) : acts[i] \in Activations /\ acts[i].sp \in Int
<1>1. \A a \in Activations : a.sp \in Int
  BY DEF Activations
<1>2. \A i \in 1 .. Len(acts) : acts[i] \in Activations
  BY ElementOfSeq
<1> QED BY <1>1, <1>2, LenProperties

\* AdjustStack leaves the activations above the stack pointer, which are the
\* first ones.
LEMMA AdjustKeeps ==
  ASSUME NEW acts \in Seq(Activations), Decreasing(acts), NEW sp \in Int,
         NEW left, left = AdjustStack(acts, sp)
  PROVE  /\ left \in Seq(Activations) /\ Len(left) <= Len(acts)
         /\ \A i \in 1 .. Len(left) : left[i] = acts[i] /\ acts[i].sp > sp
         /\ \A i \in Len(left) + 1 .. Len(acts) : acts[i].sp <= sp
<1> DEFINE Lengths == {n \in 0 .. Len(acts) : \A i \in n + 1 .. Len(acts) : sp >= acts[i].sp}
           n == Min(Lengths)
<1>1. Len(acts) \in Nat /\ DOMAIN acts = 1 .. Len(acts)
  BY SpOfActivation
<1>2. \A i \in 1 .. Len(acts) : acts[i] \in Activations /\ acts[i].sp \in Int
  BY SpOfActivation
<1>3. n \in Lengths /\ \A m \in Lengths : n <= m
  <2>1. Len(acts) \in Lengths
    BY <1>1
  <2>2. Lengths \subseteq Nat
    BY <1>1
  <2> QED BY <2>1, <2>2, LeastOfNats
<1>4. left = SubSeq(acts, 1, n)
  BY DEF AdjustStack
<1> HIDE DEF n
<1>5. n \in 0 .. Len(acts) /\ \A i \in n + 1 .. Len(acts) : sp >= acts[i].sp
  BY <1>3
<1>6. n > 0 => acts[n].sp > sp
  <2> SUFFICES ASSUME n > 0, ~(acts[n].sp > sp) PROVE FALSE
    OBVIOUS
  <2>1. n - 1 \in Lengths
    BY <1>1, <1>2, <1>5
  <2> HIDE DEF Lengths
  <2>2. n <= n - 1
    BY <1>3, <2>1
  <2> QED BY <1>1, <1>5, <2>2
<1>7. \A i \in 1 .. n : acts[i].sp > sp
  BY <1>1, <1>2, <1>5, <1>6 DEF Decreasing
<1>8. /\ left \in Seq(Activations) /\ Len(left) = n
      /\ \A i \in 1 .. n : left[i] = acts[i]
  <2>1. \A i \in 1 .. n : acts[i] \in Activations
    BY <1>1, <1>2, <1>5
  <2>2. n \in Int
    BY <1>1, <1>5
  <2> QED BY <1>1, <1>4, <1>5, <2>1, <2>2, SubSeqProperties
<1> QED BY <1>1, <1>2, <1>5, <1>7, <1>8

\* A call leaves the activations above it, and adds its own.
LEMMA CallLeaves ==
  ASSUME NEW acts \in Seq(Activations), Decreasing(acts),
         NEW ip \in Ips \union {StubIp, MainIp}, NEW sp \in Int,
         NEW after, after = ProcessCall(acts, ip, sp)
  PROVE  /\ after \in Seq(Activations) /\ Decreasing(after)
         /\ \A a : a \in Range(after) <=>
                     a = Activation(ip, sp) \/ (a \in Range(acts) /\ a.sp > sp)
<1> DEFINE left == AdjustStack(acts, sp)
           new == Activation(ip, sp)
<1>1. /\ left \in Seq(Activations) /\ Len(left) <= Len(acts)
      /\ \A i \in 1 .. Len(left) : left[i] = acts[i] /\ acts[i].sp > sp
      /\ \A i \in Len(left) + 1 .. Len(acts) : acts[i].sp <= sp
  BY AdjustKeeps
<1> HIDE DEF left
<1>2. new \in Activations /\ new.sp = sp
  BY DEF Activation, Activations
<1>3. after = Append(left, new)
  BY DEF left, ProcessCall
<1> HIDE DEF new
<1>4. /\ after \in Seq(Activations) /\ Len(after) = Len(left) + 1
      /\ \A i \in 1 .. Len(left) : after[i] = left[i]
      /\ after[Len(left) + 1] = new
  BY <1>1, <1>2, <1>3
<1>5. /\ DOMAIN acts = 1 .. Len(acts) /\ DOMAIN after = 1 .. Len(left) + 1
      /\ Len(left) \in Nat /\ Len(acts) \in Nat
      /\ \A i \in 1 .. Len(acts) : acts[i].sp \in Int
  BY <1>1, <1>4, SpOfActivation
<1>6. Decreasing(after)
  BY <1>1, <1>2, <1>4, <1>5 DEF Decreasing
<1>7. ASSUME NEW a \in Range(after) PROVE a = new \/ (a \in Range(acts) /\ a.sp > sp)
  BY <1>1, <1>4, <1>5 DEF Range
<1>8. ASSUME NEW a \in Range(acts), a.sp > sp PROVE a \in Range(after)
  <2>1. PICK i \in 1 .. Len(acts) : a = acts[i]
    BY <1>5 DEF Range
  <2>2. i \in 1 .. Len(left)
    BY <1>1, <1>5, <1>8, <2>1
  <2> QED BY <1>1, <1>4, <1>5, <2>1, <2>2 DEF Range
<1>9. new \in Range(after)
  BY <1>4, <1>5 DEF Range
<1> QED BY <1>4, <1>6, <1>7, <1>8, <1>9 DEF new

\* A return to just below an activation pops it, and leaves those above.
LEMMA ReturnLeaves ==
  ASSUME NEW acts \in Seq(Activations), Decreasing(acts), NEW sp \in Int,
         NEW popped \in Range(acts), popped.sp = sp + 1,
         NEW after, after = ProcessReturn(acts, sp)
  PROVE  /\ after \in Seq(Activations) /\ Decreasing(after)
         /\ \A a : a \in Range(after) <=> a \in Range(acts) /\ a.sp > sp + 1
<1> DEFINE left == AdjustStack(acts, sp)
<1>1. /\ left \in Seq(Activations) /\ Len(left) <= Len(acts)
      /\ \A i \in 1 .. Len(left) : left[i] = acts[i] /\ acts[i].sp > sp
      /\ \A i \in Len(left) + 1 .. Len(acts) : acts[i].sp <= sp
  BY AdjustKeeps
<1>2. after = IF left = <<>> THEN left ELSE SubSeq(left, 1, Len(left) - 1)
  BY DEF ProcessReturn, Front
<1> HIDE DEF left
<1>3. /\ DOMAIN acts = 1 .. Len(acts) /\ DOMAIN left = 1 .. Len(left)
      /\ Len(left) \in Nat /\ Len(acts) \in Nat
      /\ \A i \in 1 .. Len(acts) : acts[i].sp \in Int
  BY <1>1, SpOfActivation
<1>4. PICK p \in 1 .. Len(acts) : acts[p] = popped
  BY <1>3 DEF Range
<1>5. p = Len(left) /\ Len(left) > 0
  <2>1. p <= Len(left)
    BY <1>1, <1>3, <1>4
  <2>2. ~(p < Len(left))
    <3> SUFFICES ASSUME p < Len(left) PROVE FALSE
      OBVIOUS
    <3>1. acts[Len(left)].sp < sp + 1 /\ acts[Len(left)].sp > sp
      BY <1>1, <1>3, <1>4 DEF Decreasing
    <3> QED BY <1>1, <1>3, <3>1
  <2>3. p \in Nat /\ p > 0 /\ Len(left) \in Nat
    BY <1>3
  <2> QED BY <2>1, <2>2, <2>3
<1>6. /\ after \in Seq(Activations) /\ Len(after) = p - 1
      /\ \A i \in 1 .. p - 1 : after[i] = acts[i]
  <2>1. left # <<>>
    BY <1>5
  <2>2. \A i \in 1 .. p - 1 : left[i] \in Activations /\ left[i] = acts[i]
    BY <1>1, <1>3, <1>5
  <2>3. after = SubSeq(left, 1, p - 1) /\ p - 1 \in Int
    BY <1>2, <1>3, <1>5, <2>1
  <2> QED BY <1>3, <1>5, <2>2, <2>3, SubSeqProperties
<1>7. DOMAIN after = 1 .. p - 1
  BY <1>6
<1>8. Decreasing(after)
  BY <1>3, <1>4, <1>6, <1>7 DEF Decreasing
<1>9. ASSUME NEW a \in Range(after) PROVE a \in Range(acts) /\ a.sp > sp + 1
  <2>1. PICK i \in 1 .. p - 1 : a = after[i]
    BY <1>7 DEF Range
  <2>2. a = acts[i] /\ i \in 1 .. Len(acts) /\ i < p
    BY <1>3, <1>6, <2>1
  <2> QED BY <1>3, <1>4, <2>2 DEF Range, Decreasing
<1>10. ASSUME NEW a \in Range(acts), a.sp > sp + 1 PROVE a \in Range(after)
  <2>1. PICK i \in 1 .. Len(acts) : a = acts[i]
    BY <1>3 DEF Range
  <2>2. i < p
    BY <1>3, <1>4, <1>10, <2>1, SMTT(20) DEF Decreasing
  <2> QED BY <1>6, <1>7, <2>1, <2>2, SMTT(20) DEF Range
<1> QED BY <1>6, <1>8, <1>9, <1>10

-----------------------------------------------------------------------------
\* The active calls have their types, and go down.
LEMMA TypeOfReal ==
  ASSUME CallTypeOK
  PROVE  /\ Len(real) \in Nat \ {0} /\ DOMAIN real = 1 .. Len(real)
         /\ Top = real[Len(real)] /\ Top \in Frames
         /\ \A i \in 1 .. Len(real) :
              /\ real[i] \in Frames /\ real[i].ip \in Ips
              /\ real[i].sp \in Int /\ real[i].rest \in Int /\ real[i].hops \in Nat
              /\ real[i].rest < real[i].sp
         /\ \A i, j \in 1 .. Len(real) : i < j => real[j].sp <= real[i].rest
<1>1. real \in Seq(Frames) /\ Len(real) \in Nat \ {0}
  BY DEF CallTypeOK
<1>2. DOMAIN real = 1 .. Len(real) /\ \A i \in 1 .. Len(real) : real[i] \in Frames
  BY <1>1, LenProperties, ElementOfSeq
<1>3. \A f \in Frames : f.ip \in Ips /\ f.sp \in Int /\ f.rest \in Int /\ f.hops \in Nat
  BY DEF Frames
<1>4. Top = real[Len(real)] /\ Len(real) \in 1 .. Len(real)
  BY <1>1 DEF Top, Last
<1> QED BY <1>1, <1>2, <1>3, <1>4 DEF CallTypeOK

\* A call from code that runs.
LEMMA CallPreserves ==
  ASSUME CallInv, NEW ip \in Ips, NEW args \in 0 .. MaxArgs, Call(ip, args)
  PROVE  CallInv'
<1> DEFINE n == Len(real)
           sp == Top.rest - args
           new == Frame(ip, sp)
<1> USE DEF CallInv
<1>1. /\ n \in Nat \ {0} /\ DOMAIN real = 1 .. n /\ Top = real[n] /\ Top \in Frames
      /\ \A i \in 1 .. n : /\ real[i] \in Frames /\ real[i].sp \in Int /\ real[i].rest \in Int
                           /\ real[i].rest < real[i].sp
      /\ \A i, j \in 1 .. n : i < j => real[j].sp <= real[i].rest
  BY TypeOfReal
<1>2. args \in Nat /\ sp \in Int /\ sp <= real[n].rest /\ n < MaxDepth
  BY <1>1, CallStackBounds DEF Call
<1>3. /\ new \in Frames /\ new.ip = ip /\ new.sp = sp /\ new.rest = sp - 1
      /\ ~new.main
  BY <1>2 DEF Frame, Frames
<1>4. /\ real' = Append(real, new) /\ phase' = phase
      /\ _activations' = ProcessCall(_activations, ip, sp)
  BY DEF Call
<1> HIDE DEF sp, new, n
<1>5. /\ real' \in Seq(Frames) /\ Len(real') = n + 1 /\ DOMAIN real' = 1 .. n + 1
      /\ \A i \in 1 .. n : real'[i] = real[i]
      /\ real'[n + 1] = new
  BY <1>3, <1>4 DEF CallTypeOK, n
<1>6. \A i \in 1 .. n : sp <= real[i].rest /\ sp < real[i].sp
  BY <1>1, <1>2
<1>7. /\ _activations' \in Seq(Activations) /\ Decreasing(_activations')
      /\ \A a : a \in Range(_activations') <=>
                  a = Activation(ip, sp) \/ (a \in Range(_activations) /\ a.sp > sp)
  BY <1>2, <1>4, CallLeaves DEF CallTypeOK, Decreasing
<1>8. CallTypeOK'
  <2>1. \A i \in DOMAIN real' : real'[i].rest < real'[i].sp
    BY <1>1, <1>2, <1>3, <1>5
  <2>2. \A i, j \in DOMAIN real' : i < j => real'[j].sp <= real'[i].rest
    BY <1>1, <1>3, <1>5, <1>6
  <2>3. n + 1 \in 1 .. MaxDepth
    BY <1>1, <1>2, CallStackBounds
  <2> QED BY <1>4, <1>5, <1>7, <2>1, <2>2, <2>3 DEF CallTypeOK, Decreasing
<1>9. NoCallLost'
  <2> SUFFICES ASSUME NEW i \in 1 .. n + 1
               PROVE  \E a \in Range(_activations') : IsCall(a, real'[i])
    BY <1>5 DEF NoCallLost, Range
  <2>1. CASE i = n + 1
    BY <1>3, <1>5, <1>7, <2>1 DEF IsCall
  <2>2. CASE i \in 1 .. n
    <3>1. PICK a \in Range(_activations) : IsCall(a, real[i])
      BY <1>1, <2>2 DEF NoCallLost, Range
    <3>2. a.sp = real[i].sp
      BY <3>1 DEF IsCall, Activation
    <3> QED BY <1>1, <1>2, <1>5, <1>6, <1>7, <2>2, <3>1, <3>2
  <2> QED BY <1>1, <2>1, <2>2
<1>10. StaleOnlyWhereLanded'
  <2> SUFFICES ASSUME NEW a \in Range(_activations')
               PROVE  \/ \E f \in Range(real') : IsCall(a, f) \/ IsEntry(a, f)
                      \/ \E k \in 1 .. n + 1 :
                           /\ real'[k].landed /\ a.sp < real'[k].sp
                           /\ k < n + 1 => a.sp > real'[k + 1].sp
    BY <1>5 DEF StaleOnlyWhereLanded
  <2>1. CASE a = Activation(ip, sp)
    BY <1>1, <1>3, <1>5, <2>1, SMTT(20) DEF IsCall, Range
  <2>2. CASE a \in Range(_activations) /\ a.sp > sp
    <3>1. CASE \E f \in Range(real) : IsCall(a, f) \/ IsEntry(a, f)
      <4>1. Range(real) \subseteq Range(real')
        BY <1>1, <1>5 DEF Range
      <4> QED BY <3>1, <4>1
    <3>2. CASE \E k \in DOMAIN real :
                 /\ real[k].landed /\ a.sp < real[k].sp
                 /\ k < Len(real) => a.sp > real[k + 1].sp
      <4>1. PICK k \in 1 .. n : /\ real[k].landed /\ a.sp < real[k].sp
                                /\ k < n => a.sp > real[k + 1].sp
        BY <1>1, <3>2 DEF n
      <4>2. k + 1 \in 1 .. n + 1 /\ (k < n \/ k = n)
        BY <1>1
      <4>3. a.sp > real'[k + 1].sp
        <5>1. CASE k < n
          BY <1>1, <1>5, <4>1, <5>1
        <5>2. CASE k = n
          BY <1>3, <1>5, <2>2, <5>2
        <5> QED BY <4>2, <5>1, <5>2
      <4> QED BY <1>1, <1>5, <4>1, <4>3
    <3> QED BY <2>2, <3>1, <3>2 DEF StaleOnlyWhereLanded
  <2> QED BY <1>7, <2>1, <2>2
<1>11. MainIsSecond'
  BY <1>1, <1>3, <1>4, <1>5 DEF MainIsSecond, n
<1> QED BY <1>8, <1>9, <1>10, <1>11

\* What goes on between a call and the code of the called function: the frame
\* of the call changes, and an activation may be added for it.
LEMMA EntryPreserves ==
  ASSUME CallInv, NEW f \in Frames, SetTop(f),
         f.ip = Top.ip, f.sp = Top.sp, f.landed = Top.landed,
         f.hops >= Top.hops, f.rest <= Top.rest, Top.main => f.main,
         _activations' \in Seq(Activations), Decreasing(_activations'),
         \A a \in Range(_activations') : a \in Range(_activations) \/ IsEntry(a, f),
         \A a \in Range(_activations) : a.sp >= f.sp => a \in Range(_activations'),
         phase' \in {"before", "main", "after"}
  PROVE  CallTypeOK' /\ NoCallLost' /\ StaleOnlyWhereLanded'
<1> DEFINE n == Len(real)
<1> USE DEF CallInv
<1>1. /\ n \in Nat \ {0} /\ DOMAIN real = 1 .. n /\ Top = real[n] /\ Top \in Frames
      /\ \A i \in 1 .. n : /\ real[i] \in Frames /\ real[i].sp \in Int /\ real[i].rest \in Int
                           /\ real[i].rest < real[i].sp /\ real[i].hops \in Nat
      /\ \A i, j \in 1 .. n : i < j => real[j].sp <= real[i].rest
  BY TypeOfReal
<1>2. /\ f.sp = real[n].sp /\ f.ip = real[n].ip /\ f.landed = real[n].landed
      /\ f.rest \in Int /\ f.rest <= real[n].rest
      /\ f.hops \in Nat /\ f.hops >= real[n].hops /\ (real[n].main => f.main)
  BY <1>1 DEF Frames
<1> HIDE DEF n
<1>3. /\ real' \in Seq(Frames) /\ Len(real') = n /\ DOMAIN real' = 1 .. n
      /\ \A i \in 1 .. n : real'[i] = IF i = n THEN f ELSE real[i]
  <2>1. real' = [real EXCEPT ![n] = f] /\ n \in 1 .. Len(real)
    BY <1>1 DEF SetTop, n
  <2> QED BY <1>1, <2>1, ExceptSeq DEF CallTypeOK, n
<1>4. CallTypeOK'
  <2>1. \A i \in DOMAIN real' : real'[i].rest < real'[i].sp
    BY <1>1, <1>2, <1>3
  <2>2. \A i, j \in DOMAIN real' : i < j => real'[j].sp <= real'[i].rest
    BY <1>1, <1>2, <1>3
  <2> QED BY <1>3, <2>1, <2>2 DEF CallTypeOK, Decreasing, n
<1>5. NoCallLost'
  <2> SUFFICES ASSUME NEW i \in 1 .. n
               PROVE  \E a \in Range(_activations') : IsCall(a, real'[i])
    BY <1>3 DEF NoCallLost, Range
  <2>1. PICK a \in Range(_activations) : IsCall(a, real[i])
    BY <1>1 DEF NoCallLost, Range
  <2>2. IsCall(a, real'[i])
    BY <1>2, <1>3, <2>1 DEF IsCall
  <2>3. a.sp = real[i].sp /\ real[i].sp >= f.sp
    <3>1. a.sp = real[i].sp
      BY <2>1 DEF IsCall, Activation
    <3>2. i = n \/ i < n
      BY <1>1
    <3> QED BY <1>1, <1>2, <3>1, <3>2
  <2> QED BY <2>1, <2>2, <2>3
<1>6. StaleOnlyWhereLanded'
  <2> SUFFICES ASSUME NEW a \in Range(_activations')
               PROVE  \/ \E i \in 1 .. n : IsCall(a, real'[i]) \/ IsEntry(a, real'[i])
                      \/ \E k \in 1 .. n :
                           /\ real'[k].landed /\ a.sp < real'[k].sp
                           /\ k < n => a.sp > real'[k + 1].sp
    BY <1>3 DEF StaleOnlyWhereLanded, Range
  <2>1. CASE IsEntry(a, f)
    BY <1>1, <1>3, <2>1
  <2>2. CASE a \in Range(_activations)
    <3>1. CASE \E i \in 1 .. n : IsCall(a, real[i]) \/ IsEntry(a, real[i])
      <4>1. PICK i \in 1 .. n : IsCall(a, real[i]) \/ IsEntry(a, real[i])
        BY <3>1
      <4>2. CASE i # n
        BY <1>3, <4>1, <4>2
      <4>3. CASE i = n
        <5>1. IsCall(a, real[n]) => IsCall(a, f)
          BY <1>2 DEF IsCall
        <5>2. IsEntry(a, real[n]) => IsEntry(a, f)
          BY <1>1, <1>2 DEF IsEntry
        <5> QED BY <1>3, <4>1, <4>3, <5>1, <5>2
      <4> QED BY <4>2, <4>3
    <3>2. CASE \E k \in 1 .. n :
                 /\ real[k].landed /\ a.sp < real[k].sp
                 /\ k < n => a.sp > real[k + 1].sp
      BY <1>1, <1>2, <1>3, <3>2
    <3>3. \/ \E i \in 1 .. n : IsCall(a, real[i]) \/ IsEntry(a, real[i])
          \/ \E k \in 1 .. n : /\ real[k].landed /\ a.sp < real[k].sp
                               /\ k < n => a.sp > real[k + 1].sp
      <4>1. Range(real) = {real[i] : i \in 1 .. n} /\ DOMAIN real = 1 .. n
        BY <1>1 DEF Range
      <4> QED BY <2>2, <4>1 DEF StaleOnlyWhereLanded, n
    <3> QED BY <3>1, <3>2, <3>3
  <2> QED BY <2>1, <2>2
<1> QED BY <1>4, <1>5, <1>6

\* A call goes through a stub of the PLT.
LEMMA StubPreserves ==
  ASSUME CallInv, Stub
  PROVE  CallInv'
<1> DEFINE f == [Top EXCEPT !.hops = @ + 1]
           sp == Top.sp - 1 - Top.hops
<1> USE DEF CallInv
<1>1. /\ Top \in Frames /\ Top.sp \in Int /\ Top.hops \in Nat /\ Top.rest \in Int
      /\ Len(real) \in Nat \ {0} /\ DOMAIN real = 1 .. Len(real) /\ Top = real[Len(real)]
  BY TypeOfReal DEF Frames
<1>2. /\ f \in Frames /\ f.ip = Top.ip /\ f.sp = Top.sp /\ f.landed = Top.landed
      /\ f.hops = Top.hops + 1 /\ f.rest = Top.rest /\ f.main = Top.main
  BY <1>1 DEF Frames
<1>3. sp \in Int /\ sp < f.sp /\ sp \in f.sp - f.hops .. f.sp - 1
  BY <1>1, <1>2
<1>4. /\ SetTop(f) /\ phase' = phase
      /\ _activations' = ProcessCall(_activations, StubIp, sp)
  BY DEF Stub
<1> HIDE DEF f, sp
<1>5. /\ _activations' \in Seq(Activations) /\ Decreasing(_activations')
      /\ \A a : a \in Range(_activations') <=>
                  a = Activation(StubIp, sp) \/ (a \in Range(_activations) /\ a.sp > sp)
  BY <1>3, <1>4, CallLeaves DEF CallTypeOK, Decreasing
<1>6. IsEntry(Activation(StubIp, sp), f)
  BY <1>3 DEF IsEntry, Activation
<1>7. \A a \in Range(_activations) : a.sp \in Int
  BY SpOfActivation DEF CallTypeOK, Range
<1>8. CallTypeOK' /\ NoCallLost' /\ StaleOnlyWhereLanded'
  <2>1. \A a \in Range(_activations) : a.sp >= f.sp => a \in Range(_activations')
    BY <1>1, <1>2, <1>3, <1>5, <1>7
  <2>2. \A a \in Range(_activations') : a \in Range(_activations) \/ IsEntry(a, f)
    BY <1>5, <1>6
  <2>3. f.hops >= Top.hops /\ f.rest <= Top.rest /\ phase' \in {"before", "main", "after"}
    BY <1>1, <1>2, <1>4 DEF CallTypeOK
  <2> QED BY <1>2, <1>4, <1>5, <2>1, <2>2, <2>3, EntryPreserves
<1>9. MainIsSecond'
  BY <1>1, <1>2, <1>4 DEF MainIsSecond, SetTop, CallTypeOK
<1> QED BY <1>8, <1>9

\* main is entered.
LEMMA ProcessMainEntryPreserves ==
  ASSUME CallInv, ProcessMainEntry
  PROVE  CallInv'
<1> DEFINE f == [Top EXCEPT !.main = TRUE]
           sp == Top.sp - 1
<1> USE DEF CallInv
<1>1. /\ Top \in Frames /\ Top.sp \in Int /\ Top.hops \in Nat /\ Top.rest \in Int
      /\ Len(real) \in Nat \ {0} /\ DOMAIN real = 1 .. Len(real) /\ Top = real[Len(real)]
  BY TypeOfReal DEF Frames
<1>2. /\ f \in Frames /\ f.ip = Top.ip /\ f.sp = Top.sp /\ f.landed = Top.landed
      /\ f.hops = Top.hops /\ f.rest = Top.rest /\ f.main
  BY <1>1 DEF Frames
<1>3. sp \in Int /\ sp < f.sp /\ sp = f.sp - 1
  BY <1>1, <1>2
<1>4. /\ SetTop(f) /\ phase' = "main" /\ Len(real) = 2
      /\ _activations' = ProcessCall(_activations, MainIp, sp)
  BY DEF ProcessMainEntry
<1> HIDE DEF f, sp
<1>5. /\ _activations' \in Seq(Activations) /\ Decreasing(_activations')
      /\ \A a : a \in Range(_activations') <=>
                  a = Activation(MainIp, sp) \/ (a \in Range(_activations) /\ a.sp > sp)
  <2>1. MainIp \in Ips \union {StubIp, MainIp}
    OBVIOUS
  <2>2. _activations \in Seq(Activations) /\ Decreasing(_activations)
    BY DEF CallTypeOK, Decreasing
  <2>3. _activations' = ProcessCall(_activations, MainIp, sp) /\ sp \in Int
    BY <1>3, <1>4
  <2> QED BY <2>1, <2>2, <2>3, CallLeaves
<1>6. IsEntry(Activation(MainIp, sp), f)
  BY <1>2, <1>3 DEF IsEntry
<1>7. \A a \in Range(_activations) : a.sp \in Int
  BY SpOfActivation DEF CallTypeOK, Range
<1>8. CallTypeOK' /\ NoCallLost' /\ StaleOnlyWhereLanded'
  <2>1. \A a \in Range(_activations) : a.sp >= f.sp => a \in Range(_activations')
    BY <1>1, <1>2, <1>3, <1>5, <1>7
  <2>2. \A a \in Range(_activations') : a \in Range(_activations) \/ IsEntry(a, f)
    BY <1>5, <1>6
  <2>3. f.hops >= Top.hops /\ f.rest <= Top.rest /\ phase' \in {"before", "main", "after"}
    BY <1>1, <1>2, <1>4
  <2> QED BY <1>2, <1>4, <1>5, <2>1, <2>2, <2>3, EntryPreserves
<1>9. MainIsSecond'
  <2>1. /\ DOMAIN real' = 1 .. 2 /\ Len(real') = 2
        /\ real'[1] = real[1] /\ real'[2] = f
    BY <1>1, <1>2, <1>4, ExceptSeq DEF SetTop, CallTypeOK
  <2> QED BY <1>1, <1>2, <1>4, <2>1 DEF MainIsSecond
<1> QED BY <1>8, <1>9

\* A function is entered.
LEMMA EnterPreserves ==
  ASSUME CallInv, NEW locals \in 0 .. MaxLocals, Enter(locals)
  PROVE  CallInv'
<1> DEFINE f == [Top EXCEPT !.runs = TRUE, !.rest = @ - locals]
<1> USE DEF CallInv
<1>1. /\ Top \in Frames /\ Top.sp \in Int /\ Top.hops \in Nat /\ Top.rest \in Int
      /\ Len(real) \in Nat \ {0} /\ DOMAIN real = 1 .. Len(real) /\ Top = real[Len(real)]
      /\ locals \in Nat
  BY TypeOfReal, CallStackBounds DEF Frames
<1>2. /\ f \in Frames /\ f.ip = Top.ip /\ f.sp = Top.sp /\ f.landed = Top.landed
      /\ f.hops = Top.hops /\ f.rest = Top.rest - locals /\ f.main = Top.main
  <2>1. Top.rest - locals \in Int
    BY <1>1
  <2> QED BY <1>1, <2>1 DEF Frames
<1>3. SetTop(f) /\ phase' = phase /\ _activations' = _activations
  BY DEF Enter
<1> HIDE DEF f
<1>4. CallTypeOK' /\ NoCallLost' /\ StaleOnlyWhereLanded'
  <2>1. _activations' \in Seq(Activations) /\ Decreasing(_activations')
    BY <1>3 DEF CallTypeOK, Decreasing
  <2>2. f.hops >= Top.hops /\ f.rest <= Top.rest /\ phase' \in {"before", "main", "after"}
    BY <1>1, <1>2, <1>3 DEF CallTypeOK
  <2> QED BY <1>2, <1>3, <2>1, <2>2, EntryPreserves
<1>5. MainIsSecond'
  BY <1>1, <1>2, <1>3, SMTT(20) DEF MainIsSecond, SetTop, CallTypeOK
<1> QED BY <1>4, <1>5

\* A function returns.
LEMMA ReturnPreserves ==
  ASSUME CallInv, Return
  PROVE  CallInv'
<1> DEFINE n == Len(real)
           sp == Top.sp - 1
<1> USE DEF CallInv
<1>1. /\ n \in Nat \ {0} /\ DOMAIN real = 1 .. n /\ Top = real[n] /\ Top \in Frames
      /\ \A i \in 1 .. n : /\ real[i] \in Frames /\ real[i].sp \in Int /\ real[i].rest \in Int
                           /\ real[i].rest < real[i].sp /\ real[i].hops \in Nat
      /\ \A i, j \in 1 .. n : i < j => real[j].sp <= real[i].rest
  BY TypeOfReal
<1>2. /\ n > 1 /\ sp \in Int /\ Top.sp = sp + 1
      /\ _activations' = ProcessReturn(_activations, sp)
      /\ phase' = IF Top.main THEN "after" ELSE phase
      /\ real' = SubSeq(real, 1, n - 1)
  BY <1>1 DEF Return, Front
<1> HIDE DEF n, sp
<1>3. /\ real' \in Seq(Frames) /\ Len(real') = n - 1 /\ DOMAIN real' = 1 .. n - 1
      /\ \A i \in 1 .. n - 1 : real'[i] = real[i]
  <2>1. \A i \in 1 .. n - 1 : real[i] \in Frames
    BY <1>1
  <2>2. 1 \in Int /\ n - 1 \in Int /\ 1 <= n - 1 /\ (n - 1) - 1 + 1 = n - 1
    BY <1>1, <1>2
  <2> QED BY <1>2, <2>1, <2>2, SubSeqProperties
<1>4. Range(real) = {real[i] : i \in 1 .. n} /\ Range(real') = {real[i] : i \in 1 .. n - 1}
  BY <1>1, <1>3 DEF Range
<1>5. PICK popped \in Range(_activations) : popped.sp = sp + 1
  <2>1. Top \in Range(real)
    BY <1>1, <1>4
  <2>2. PICK a \in Range(_activations) : IsCall(a, Top)
    BY <2>1 DEF NoCallLost
  <2>3. a.sp = Top.sp
    BY <2>2 DEF IsCall, Activation
  <2> QED BY <1>2, <2>3
<1>6. /\ _activations' \in Seq(Activations) /\ Decreasing(_activations')
      /\ \A a : a \in Range(_activations') <=> a \in Range(_activations) /\ a.sp > sp + 1
  <2>1. _activations \in Seq(Activations) /\ Decreasing(_activations)
    BY DEF CallTypeOK, Decreasing
  <2> QED BY <1>2, <1>5, <2>1, ReturnLeaves
<1>7. CallTypeOK'
  <2>1. phase' \in {"before", "main", "after"} /\ n - 1 \in 1 .. MaxDepth
    BY <1>1, <1>2, CallStackBounds DEF CallTypeOK, n
  <2>2. \A i \in DOMAIN real' : real'[i].rest < real'[i].sp
    BY <1>1, <1>3
  <2>3. \A i, j \in DOMAIN real' : i < j => real'[j].sp <= real'[i].rest
    BY <1>1, <1>3
  <2> QED BY <1>3, <1>6, <2>1, <2>2, <2>3 DEF CallTypeOK, Decreasing
<1>8. NoCallLost'
  <2> SUFFICES ASSUME NEW i \in 1 .. n - 1
               PROVE  \E a \in Range(_activations') : IsCall(a, real[i])
    BY <1>4 DEF NoCallLost
  <2>1. i \in 1 .. n /\ n \in 1 .. n /\ i < n
    BY <1>1
  <2>2. PICK a \in Range(_activations) : IsCall(a, real[i])
    BY <1>4, <2>1 DEF NoCallLost
  <2>3. a.sp = real[i].sp
    BY <2>2 DEF IsCall, Activation
  <2>4. real[i].sp > real[n].sp
    BY <1>1, <2>1
  <2> QED BY <1>1, <1>2, <1>6, <2>2, <2>3, <2>4
<1>9. StaleOnlyWhereLanded'
  <2> SUFFICES ASSUME NEW a \in Range(_activations), a.sp > sp + 1
               PROVE  \/ \E i \in 1 .. n - 1 : IsCall(a, real[i]) \/ IsEntry(a, real[i])
                      \/ \E k \in 1 .. n - 1 :
                           /\ real[k].landed /\ a.sp < real[k].sp
                           /\ k < n - 1 => a.sp > real[k + 1].sp
    <3>1. ASSUME NEW k \in 1 .. n - 1, NEW a PROVE
            (k < Len(real') => a.sp > real'[k + 1].sp) <=> (k < n - 1 => a.sp > real[k + 1].sp)
      <4>1. k < n - 1 => k + 1 \in 1 .. n - 1
        BY <1>1
      <4> QED BY <1>1, <1>3, <4>1
    <3> QED BY <1>3, <1>4, <1>6, <3>1 DEF StaleOnlyWhereLanded
  <2>1. a.sp \in Int
    BY SpOfActivation DEF CallTypeOK, Range
  <2>2. ~IsCall(a, real[n]) /\ ~IsEntry(a, real[n])
    <3>1. ~(a.sp <= real[n].sp)
      BY <1>1, <1>2, <2>1
    <3>2. IsCall(a, real[n]) => a.sp = real[n].sp
      BY DEF IsCall, Activation
    <3>3. IsEntry(a, real[n]) => a.sp <= real[n].sp
      BY <1>1, <2>1 DEF IsEntry, Activation
    <3> QED BY <1>1, <2>1, <3>1, <3>2, <3>3
  <2>3. CASE \E f \in Range(real) : IsCall(a, f) \/ IsEntry(a, f)
    <3>1. PICK i \in 1 .. n : IsCall(a, real[i]) \/ IsEntry(a, real[i])
      BY <1>4, <2>3
    <3>2. i \in 1 .. n - 1
      BY <1>1, <2>2, <3>1
    <3> QED BY <3>1, <3>2
  <2>4. CASE \E k \in DOMAIN real : /\ real[k].landed /\ a.sp < real[k].sp
                                    /\ k < Len(real) => a.sp > real[k + 1].sp
    <3>1. PICK k \in 1 .. n : /\ real[k].landed /\ a.sp < real[k].sp
                              /\ k < n => a.sp > real[k + 1].sp
      BY <1>1, <2>4 DEF n
    <3>2. k # n
      BY <1>1, <1>2, <2>1, <3>1
    <3>3. k \in 1 .. n - 1 /\ k < n
      BY <1>1, <3>2
    <3> QED BY <3>1, <3>3
  <2> QED BY <2>3, <2>4 DEF StaleOnlyWhereLanded
<1>10. MainIsSecond'
  <2>1. ASSUME phase' = "main" PROVE n > 2
    <3>1. phase = "main" /\ ~real[n].main
      BY <1>1, <1>2, <2>1
    <3>2. n # 2
      BY <3>1 DEF MainIsSecond
    <3> QED BY <1>1, <1>2, <3>2
  <2>2. \A i \in DOMAIN real' : real'[i].main => i = 2
    BY <1>1, <1>3 DEF MainIsSecond
  <2>3. ASSUME phase' = "main" PROVE Len(real') > 1 /\ real'[2].main
    <3>1. phase = "main" /\ 2 \in 1 .. n - 1
      BY <1>1, <1>2, <2>1, <2>3
    <3> QED BY <1>1, <1>3, <3>1 DEF MainIsSecond
  <2> QED BY <2>2, <2>3 DEF MainIsSecond
<1> QED BY <1>7, <1>8, <1>9, <1>10

\* A longjmp lands in a function: the activations of what it leaves are under
\* that function.
LEMMA LongjmpPreserves ==
  ASSUME CallInv, NEW k \in 2 .. Len(real) - 1, Longjmp(k)
  PROVE  CallInv'
<1> DEFINE n == Len(real)
           f == [real[k] EXCEPT !.landed = TRUE]
           kept == SubSeq(real, 1, k)
<1> USE DEF CallInv
<1>1. /\ n \in Nat \ {0} /\ DOMAIN real = 1 .. n /\ Top = real[n] /\ Top \in Frames
      /\ \A i \in 1 .. n : /\ real[i] \in Frames /\ real[i].sp \in Int /\ real[i].rest \in Int
                           /\ real[i].rest < real[i].sp /\ real[i].hops \in Nat
      /\ \A i, j \in 1 .. n : i < j => real[j].sp <= real[i].rest
  BY TypeOfReal
<1>2. /\ k \in 2 .. n - 1 /\ k \in 1 .. n
      /\ phase' = phase /\ _activations' = _activations
      /\ \A g \in Range(SubSeq(real, k + 1, n)) : ~g.main
      /\ real' = [kept EXCEPT ![k] = [kept[k] EXCEPT !.landed = TRUE]]
  BY <1>1 DEF Longjmp
<1> HIDE DEF n
<1>3. /\ kept \in Seq(Frames) /\ Len(kept) = k
      /\ \A i \in 1 .. k : kept[i] = real[i]
  <2>1. \A i \in 1 .. k : real[i] \in Frames
    BY <1>1, <1>2
  <2>2. 1 \in Int /\ k \in Int /\ 1 <= k /\ k - 1 + 1 = k
    BY <1>2
  <2> QED BY <2>1, <2>2, SubSeqProperties
<1>4. /\ f \in Frames /\ f.ip = real[k].ip /\ f.sp = real[k].sp /\ f.rest = real[k].rest
      /\ f.hops = real[k].hops /\ f.main = real[k].main /\ f.landed
  <2>1. real[k] \in Frames
    BY <1>1, <1>2
  <2> QED BY <2>1 DEF Frames
<1>5. k \in 1 .. k /\ kept[k] = real[k]
  BY <1>2, <1>3
<1> HIDE DEF kept, f
<1>6. /\ real' \in Seq(Frames) /\ Len(real') = k /\ DOMAIN real' = 1 .. k
      /\ \A i \in 1 .. k : real'[i] = IF i = k THEN f ELSE real[i]
  <2>1. real' = [kept EXCEPT ![k] = f]
    BY <1>2, <1>5 DEF f
  <2>2. k \in 1 .. Len(kept)
    BY <1>3, <1>5
  <2>3. /\ real' \in Seq(Frames) /\ Len(real') = k
        /\ \A i \in 1 .. k : real'[i] = IF i = k THEN f ELSE kept[i]
    BY <1>3, <1>4, <2>1, <2>2, ExceptSeq
  <2> QED BY <1>3, <2>3, LenProperties
<1>7. \A i \in 1 .. k :
        /\ i \in 1 .. n
        /\ real'[i].ip = real[i].ip /\ real'[i].sp = real[i].sp
        /\ real'[i].rest = real[i].rest /\ real'[i].hops = real[i].hops
        /\ real'[i].main = real[i].main /\ (real[i].landed => real'[i].landed)
  <2> SUFFICES ASSUME NEW i \in 1 .. k
               PROVE  /\ i \in 1 .. n
                      /\ real'[i].ip = real[i].ip /\ real'[i].sp = real[i].sp
                      /\ real'[i].rest = real[i].rest /\ real'[i].hops = real[i].hops
                      /\ real'[i].main = real[i].main /\ (real[i].landed => real'[i].landed)
    OBVIOUS
  <2>1. n \in Int /\ k \in Int /\ k <= n - 1 /\ i \in Int /\ 1 <= i /\ i <= k
    BY <1>1, <1>2
  <2>2. i \in 1 .. n
    BY <2>1
  <2>3. CASE i = k
    <3>1. real'[i] = f
      BY <1>6, <2>3
    <3> QED BY <1>4, <2>2, <2>3, <3>1
  <2>4. CASE i # k
    <3>1. real'[i] = real[i]
      BY <1>6, <2>4
    <3> QED BY <2>2, <3>1
  <2> QED BY <2>3, <2>4
<1>8. Range(real) = {real[i] : i \in 1 .. n} /\ Range(real') = {real'[i] : i \in 1 .. k}
  BY <1>1, <1>6 DEF Range
<1>9. CallTypeOK'
  <2>1. k \in 1 .. MaxDepth
    BY <1>1, <1>2, CallStackBounds DEF CallTypeOK, n
  <2>2. \A i \in DOMAIN real' : real'[i].rest < real'[i].sp
    BY <1>1, <1>6, <1>7
  <2>3. \A i, j \in DOMAIN real' : i < j => real'[j].sp <= real'[i].rest
    BY <1>1, <1>6, <1>7
  <2> QED BY <1>2, <1>6, <2>1, <2>2, <2>3 DEF CallTypeOK
<1>10. NoCallLost'
  <2> SUFFICES ASSUME NEW i \in 1 .. k
               PROVE  \E a \in Range(_activations) : IsCall(a, real'[i])
    BY <1>2, <1>8, ZenonT(30) DEF NoCallLost
  <2>1. PICK a \in Range(_activations) : IsCall(a, real[i])
    BY <1>7, <1>8 DEF NoCallLost
  <2> QED BY <1>7, <2>1 DEF IsCall
<1>11. StaleOnlyWhereLanded'
  <2> SUFFICES ASSUME NEW a \in Range(_activations)
               PROVE  \/ \E i \in 1 .. k : IsCall(a, real'[i]) \/ IsEntry(a, real'[i])
                      \/ \E j \in 1 .. k :
                           /\ real'[j].landed /\ a.sp < real'[j].sp
                           /\ j < k => a.sp > real'[j + 1].sp
    BY <1>2, <1>6, <1>8, ZenonT(30) DEF StaleOnlyWhereLanded
  <2>1. a.sp \in Int
    BY SpOfActivation DEF CallTypeOK, Range
  <2>2. CASE a.sp < real[k].sp
    BY <1>4, <1>5, <1>6, <2>2
  <2>3. CASE ~(a.sp < real[k].sp)
    <3>1. CASE \E g \in Range(real) : IsCall(a, g) \/ IsEntry(a, g)
      <4>1. PICK i \in 1 .. n : IsCall(a, real[i]) \/ IsEntry(a, real[i])
        BY <1>8, <3>1
      <4>2. IsCall(a, real[i]) => a.sp = real[i].sp
        BY DEF IsCall, Activation
      <4>3. IsEntry(a, real[i]) => a.sp <= real[i].sp
        BY <1>1, <2>1 DEF IsEntry, Activation
      <4>4. ~(i > k)
        <5> SUFFICES ASSUME i > k PROVE FALSE
          OBVIOUS
        <5>1. real[i].sp <= real[k].rest
          BY <1>1, <1>2
        <5>2. /\ real[i].sp \in Int /\ real[k].rest \in Int /\ real[k].sp \in Int
              /\ real[k].rest < real[k].sp
          BY <1>1, <1>2
        <5>3. a.sp <= real[i].sp
          BY <2>1, <4>1, <4>2, <4>3, <5>2
        <5> QED BY <2>1, <2>3, <5>1, <5>2, <5>3
      <4>5. i \in 1 .. k
        BY <1>2, <4>4
      <4>6. IsCall(a, real'[i]) \/ IsEntry(a, real'[i])
        BY <1>7, <4>1, <4>5 DEF IsCall, IsEntry
      <4> QED BY <4>5, <4>6
    <3>2. CASE \E j \in DOMAIN real : /\ real[j].landed /\ a.sp < real[j].sp
                                      /\ j < Len(real) => a.sp > real[j + 1].sp
      <4>1. PICK j \in 1 .. n : /\ real[j].landed /\ a.sp < real[j].sp
                                /\ j < n => a.sp > real[j + 1].sp
        BY <1>1, <3>2 DEF n
      <4>2. ~(j >= k)
        <5> SUFFICES ASSUME j >= k PROVE FALSE
          OBVIOUS
        <5>1. real[j].sp \in Int /\ real[k].sp \in Int /\ real[k].rest \in Int
              /\ real[k].rest < real[k].sp
          BY <1>1, <1>2
        <5>2. j # k
          BY <4>1, <2>3
        <5>3. j \in Int /\ k \in Int
          BY <1>2
        <5>4. real[j].sp <= real[k].rest
          BY <1>1, <1>2, <5>2, <5>3, SMTT(20)
        <5> QED BY <2>1, <2>3, <4>1, <5>1, <5>4
      <4>3. n \in Int /\ k \in Int /\ k <= n - 1 /\ j \in Int /\ 1 <= j /\ j < k
        BY <1>1, <1>2, <4>2
      <4>4. j \in 1 .. k /\ j + 1 \in 1 .. k /\ j < n
        BY <4>3
      <4>5. /\ real'[j].landed /\ real'[j].sp = real[j].sp
            /\ real'[j + 1].sp = real[j + 1].sp
        BY <1>7, <4>1, <4>4
      <4> QED BY <4>1, <4>4, <4>5
    <3> QED BY <3>1, <3>2 DEF StaleOnlyWhereLanded
  <2> QED BY <2>2, <2>3
<1>12. MainIsSecond'
  BY <1>2, <1>6, <1>7, <1>1 DEF MainIsSecond, n
<1> QED BY <1>9, <1>10, <1>11, <1>12

LEMMA CallInitPreserves == CallInit => CallInv
<1> SUFFICES ASSUME CallInit PROVE CallInv
  OBVIOUS
<1> DEFINE f == [Frame(StartIp, 0) EXCEPT !.runs = TRUE]
<1>1. StartIp \in Ips
  BY CallStackBounds DEF StartIp
<1>2. /\ f \in Frames /\ f.ip = StartIp /\ f.sp = 0 /\ f.rest = -1 /\ ~f.main
  <2>1. ASSUME NEW ip \in Ips
        PROVE  /\ Frame(ip, 0) \in Frames /\ Frame(ip, 0).ip = ip /\ Frame(ip, 0).sp = 0
               /\ Frame(ip, 0).rest = -1 /\ ~Frame(ip, 0).main
    BY DEF Frame, Frames
  <2>2. ASSUME NEW g \in Frames
        PROVE  LET h == [g EXCEPT !.runs = TRUE] IN
               h \in Frames /\ h.ip = g.ip /\ h.sp = g.sp /\ h.rest = g.rest /\ h.main = g.main
    BY DEF Frames
  <2> QED BY <1>1, <2>1, <2>2
<1> HIDE DEF f
<1>3. real = <<f>> /\ phase = "before" /\ _activations = ProcessCall(<<>>, StartIp, 0)
  BY DEF CallInit, f
<1>4. /\ _activations \in Seq(Activations) /\ Decreasing(_activations)
      /\ \A a : a \in Range(_activations) <=>
                  a = Activation(StartIp, 0) \/ (a \in Range(<<>>) /\ a.sp > 0)
  <2>1. <<>> \in Seq(Activations) /\ Decreasing(<<>>)
    BY DEF Decreasing
  <2>2. StartIp \in Ips \union {StubIp, MainIp} /\ 0 \in Int
    BY <1>1
  <2>3. _activations = ProcessCall(<<>>, StartIp, 0)
    BY <1>3
  <2> QED BY <2>1, <2>2, <2>3, CallLeaves
<1>5. Range(_activations) = {Activation(StartIp, 0)}
  <2>1. Range(<<>>) = {}
    BY DEF Range
  <2> QED BY <1>4, <2>1
<1>6. DOMAIN real = {1} /\ Len(real) = 1 /\ real[1] = f /\ Range(real) = {f} /\ real \in Seq(Frames)
  BY <1>2, <1>3 DEF Range
<1>7. CallTypeOK
  BY <1>2, <1>3, <1>4, <1>6, CallStackBounds DEF CallTypeOK, Decreasing
<1>8. NoCallLost /\ StaleOnlyWhereLanded
  BY <1>2, <1>5, <1>6 DEF NoCallLost, StaleOnlyWhereLanded, IsCall
<1>9. MainIsSecond
  BY <1>2, <1>3, <1>6 DEF MainIsSecond
<1> QED BY <1>7, <1>8, <1>9 DEF CallInv

-----------------------------------------------------------------------------
\* CallInv is inductive, whatever calls, stubs, returns and longjmps there are.
THEOREM CallInvariant == CallSpec => []CallInv
<1>1. ASSUME CallInv, [CallNext]_callVars PROVE CallInv'
  <2>1. CASE CallNext
    BY <1>1, <2>1, CallPreserves, StubPreserves, ProcessMainEntryPreserves, EnterPreserves,
       ReturnPreserves, LongjmpPreserves DEF CallNext
  <2>2. CASE UNCHANGED callVars
    BY <1>1, <2>2 DEF callVars, CallInv, CallTypeOK, NoCallLost, StaleOnlyWhereLanded,
       MainIsSecond
  <2> QED BY <1>1, <2>1, <2>2
<1> QED BY <1>1, CallInitPreserves, PTL DEF CallSpec

\* CallStack.cpp:50: the tool rolls its stack back as far as the program's has
\* gone, and never further.
THEOREM CallsAreKept == CallSpec => []NoCallLost
<1>1. CallInv => NoCallLost
  BY DEF CallInv
<1> QED BY <1>1, CallInvariant, PTL

\* What longjmps leave behind stays within the function one has landed in.
THEOREM StaleIsConfined == CallSpec => []StaleOnlyWhereLanded
<1>1. CallInv => StaleOnlyWhereLanded
  BY DEF CallInv
<1> QED BY <1>1, CallInvariant, PTL

-----------------------------------------------------------------------------
Addresses == Ips \union {StubIp, MainIp}

\* What is behind one element in reverse order.
LEMMA ReversedBehind ==
  ASSUME NEW S, NEW x \in S, NEW m \in Nat, NEW s, \A i \in 1 .. m : s[i] \in S,
         NEW back, back = [i \in 1 .. m |-> s[(m - i) + 1]],
         NEW line, line = <<x>> \o back
  PROVE  /\ line \in Seq(S) /\ Len(line) = m + 1 /\ line[1] = x
         /\ \A p \in 1 .. m : line[m + 2 - p] = s[p]
<1>1. /\ back \in Seq(S) /\ Len(back) = m
      /\ \A i \in 1 .. m : back[i] = s[(m - i) + 1]
  <2>1. \A i \in 1 .. m : (m - i) + 1 \in 1 .. m /\ s[(m - i) + 1] \in S
    OBVIOUS
  <2> QED BY <2>1
<1>2. /\ line \in Seq(S) /\ Len(line) = m + 1 /\ line[1] = x
      /\ \A i \in 1 .. m : line[i + 1] = back[i]
  BY <1>1
<1>3. ASSUME NEW p \in 1 .. m PROVE line[m + 2 - p] = s[p]
  <2> DEFINE j == m + 1 - p
  <2>1. j \in 1 .. m /\ j + 1 = m + 2 - p /\ (m - j) + 1 = p
    OBVIOUS
  <2> HIDE DEF j
  <2>2. line[j + 1] = back[j] /\ back[j] = s[(m - j) + 1]
    BY ONLY <1>1, <1>2, <2>1
  <2> QED BY ONLY <2>1, <2>2
<1> QED BY <1>2, <1>3

\* A context begins with the access and lists the activations from the last.
LEMMA DumpedInReverse ==
  ASSUME CallTypeOK, NEW ip \in Ips
  PROVE  LET line == DumpStack(ip)
             m    == Len(_activations)
         IN /\ m \in Nat /\ line \in Seq(Addresses) /\ Len(line) = m + 1 /\ line[1] = ip
            /\ \A p \in 1 .. m : line[m + 2 - p] = _activations[p].ip
<1> DEFINE m == Len(_activations)
           ips == [i \in DOMAIN _activations |-> _activations[i].ip]
<1>1. /\ m \in Nat /\ DOMAIN _activations = 1 .. m
      /\ \A i \in 1 .. m : _activations[i].ip \in Addresses
  <2>1. \A a \in Activations : a.ip \in Addresses
    BY DEF Activations, Addresses
  <2> QED BY <2>1, SpOfActivation DEF CallTypeOK
<1>2. ip \in Addresses
  BY DEF Addresses
<1>3. Len(ips) = m /\ \A i \in 1 .. m : ips[i] = _activations[i].ip
  BY <1>1
<1>4. DumpStack(ip) = <<ip>> \o Reverse(ips)
  BY DEF DumpStack
<1> HIDE DEF m, ips
<1>5. Reverse(ips) = [i \in 1 .. m |-> ips[(m - i) + 1]]
  BY <1>3 DEF Reverse
<1>6. \A i \in 1 .. m : ips[i] \in Addresses
  BY <1>1, <1>3
<1>7. /\ DumpStack(ip) \in Seq(Addresses) /\ Len(DumpStack(ip)) = m + 1
      /\ DumpStack(ip)[1] = ip
      /\ \A p \in 1 .. m : DumpStack(ip)[m + 2 - p] = ips[p]
  BY <1>1, <1>2, <1>4, <1>5, <1>6, ReversedBehind
<1> QED BY <1>1, <1>3, <1>7 DEF m

\* One known address, and not the last of the line, defines the context.
LEMMA KnownDefines ==
  ASSUME NEW line, NEW i \in 1 .. Len(line) - 1, Location(line[i]) # Unknown
  PROVE  ~Undefined(Locations(line))
<1>1. Location(line[i]) \in Range(Locations(line))
  BY DEF Locations, Range
<1> QED BY <1>1 DEF Undefined

\* trace.cpp:262: no context of an event in main is all UNKNOWN, so the loop
\* that pops UNKNOWN from its end does not run out of the vector.
THEOREM DefinedWhileInMain == CallSpec => []DefinedInMain
<1>1. ASSUME CallInv PROVE DefinedInMain
  <2> SUFFICES ASSUME phase = "main", NEW ip \in Ips,
                      Location(IF Top.main THEN ip ELSE real[3].ip) # Unknown
               PROVE  ~Undefined(Locations(DumpStack(ip)))
    BY DEF DefinedInMain
  <2> USE DEF CallInv
  <2> DEFINE n == Len(real)
             m == Len(_activations)
             line == DumpStack(ip)
  <2>1. /\ n \in Nat \ {0} /\ DOMAIN real = 1 .. n /\ Top = real[n]
        /\ \A i \in 1 .. n : /\ real[i].sp \in Int /\ real[i].rest \in Int
                             /\ real[i].rest < real[i].sp
        /\ \A i, j \in 1 .. n : i < j => real[j].sp <= real[i].rest
    BY <1>1, TypeOfReal
  <2>2. /\ m \in Nat /\ Len(line) = m + 1 /\ line[1] = ip
        /\ \A p \in 1 .. m : line[m + 2 - p] = _activations[p].ip
    BY <1>1, DumpedInReverse
  <2>3. /\ DOMAIN _activations = 1 .. m /\ \A p \in 1 .. m : _activations[p].sp \in Int
        /\ \A p, q \in 1 .. m : p < q => _activations[q].sp < _activations[p].sp
    BY <1>1, SpOfActivation DEF CallTypeOK
  <2> HIDE DEF n, m, line
  <2>4. ASSUME NEW i \in 1 .. n
        PROVE  \E p \in 1 .. m : _activations[p].ip = real[i].ip /\ _activations[p].sp = real[i].sp
    <3>1. real[i] \in Range(real)
      BY <2>1 DEF Range
    <3>2. PICK a \in Range(_activations) : a = Activation(real[i].ip, real[i].sp)
      BY <1>1, <3>1 DEF NoCallLost, IsCall
    <3> QED BY <2>3, <3>2 DEF Range, Activation
  <2>5. 1 \in 1 .. n
    BY <2>1
  <2>6. PICK q \in 1 .. m : _activations[q].sp = real[1].sp
    BY <2>4, <2>5
  <2>7. CASE Top.main
    <3>1. 1 \in 1 .. Len(line) - 1
      BY <2>2, <2>6
    <3> QED BY <2>2, <2>7, <3>1, KnownDefines DEF line
  <2>8. CASE ~Top.main
    <3>1. n > 1 /\ real[2].main
      BY <1>1 DEF MainIsSecond, n
    <3>2. n # 2
      BY <2>1, <2>8, <3>1
    <3>3. 3 \in 1 .. n
      BY <2>1, <3>1, <3>2
    <3>4. PICK p \in 1 .. m : _activations[p].ip = real[3].ip /\ _activations[p].sp = real[3].sp
      BY <2>4, <3>3
    <3>5. real[3].sp < real[1].sp
      <4>1. /\ real[3].sp \in Int /\ real[1].rest \in Int /\ real[1].sp \in Int
            /\ real[1].rest < real[1].sp
        BY <2>1, <2>5, <3>3
      <4>2. real[3].sp <= real[1].rest
        BY <2>1, <2>5, <3>3
      <4> QED BY <4>1, <4>2
    <3>6. q < p
      <4>1. /\ _activations[p].sp < _activations[q].sp
            /\ _activations[p].sp \in Int /\ _activations[q].sp \in Int
        BY <2>3, <2>6, <3>4, <3>5
      <4>2. p \in Int /\ q \in Int
        BY <2>2
      <4> QED BY <2>3, <4>1, <4>2
    <3>7. m + 2 - p \in 1 .. Len(line) - 1
      BY <2>2, <3>6
    <3>8. Location(line[m + 2 - p]) # Unknown
      BY <2>2, <2>8, <3>4
    <3> QED BY <3>7, <3>8, KnownDefines DEF line
  <2> QED BY <2>7, <2>8
<1> QED BY <1>1, CallInvariant, PTL

-----------------------------------------------------------------------------
\* The real chain of calls begins with the access and goes out to the second.
LEMMA ChainInReverse ==
  ASSUME CallTypeOK, NEW ip \in Ips
  PROVE  LET n == Len(real) IN
         /\ n \in Nat \ {0} /\ DOMAIN Chain(ip) = 1 .. n /\ Chain(ip)[1] = ip
         /\ \A k \in 2 .. n : Chain(ip)[n + 2 - k] = real[k].ip
<1> DEFINE n == Len(real)
           ips == [k \in 1 .. Len(real) - 1 |-> real[k + 1].ip]
<1>1. n \in Nat \ {0} /\ \A k \in 1 .. n : real[k].ip \in Ips
  BY TypeOfReal
<1>2. Chain(ip) = <<ip>> \o Reverse(ips)
  BY DEF Chain
<1> HIDE DEF n
<1>3. Len(ips) = n - 1 /\ \A k \in 1 .. n - 1 : ips[k] = real[k + 1].ip
  BY <1>1 DEF n
<1> HIDE DEF ips
<1>4. /\ Reverse(ips) = [i \in 1 .. n - 1 |-> ips[((n - 1) - i) + 1]]
      /\ n - 1 \in Nat /\ \A k \in 1 .. n - 1 : ips[k] \in Ips
  BY <1>1, <1>3 DEF Reverse
<1>5. /\ Chain(ip) \in Seq(Ips) /\ Len(Chain(ip)) = n /\ Chain(ip)[1] = ip
      /\ \A k \in 1 .. n - 1 : Chain(ip)[n + 1 - k] = ips[k]
  <2> DEFINE l == n - 1
  <2>1. l \in Nat /\ Reverse(ips) = [i \in 1 .. l |-> ips[(l - i) + 1]]
        /\ \A k \in 1 .. l : ips[k] \in Ips
    BY <1>4
  <2>2. l + 1 = n /\ \A k \in 1 .. l : l + 2 - k = n + 1 - k
    BY <1>1
  <2> HIDE DEF l
  <2>3. /\ Chain(ip) \in Seq(Ips) /\ Len(Chain(ip)) = l + 1 /\ Chain(ip)[1] = ip
        /\ \A k \in 1 .. l : Chain(ip)[l + 2 - k] = ips[k]
    BY <1>2, <2>1, ReversedBehind
  <2> QED BY <2>2, <2>3 DEF l
<1>6. ASSUME NEW k \in 2 .. n PROVE Chain(ip)[n + 2 - k] = real[k].ip
  <2>1. k - 1 \in 1 .. n - 1 /\ n + 1 - (k - 1) = n + 2 - k /\ (k - 1) + 1 = k
    BY <1>1
  <2> QED BY <1>3, <1>5, <2>1
<1> QED BY <1>1, <1>5, <1>6, LenProperties DEF n

\* parseContext pops what is unknown, but from the end only.
LEMMA Trimmed ==
  ASSUME NEW S, NEW c \in Seq(S),
         NEW t, t = SubSeq(c, 1, Max({i \in 0 .. Len(c) : i = 0 \/ c[i] # Unknown}))
  PROVE  /\ Known(t) = Known(c) /\ \A i \in Known(c) : t[i] = c[i]
         /\ t = <<>> \/ Last(t) # Unknown
<1> DEFINE l == Len(c)
           Ends == {i \in 0 .. l : i = 0 \/ c[i] # Unknown}
           n == Max(Ends)
<1>1. l \in Nat /\ DOMAIN c = 1 .. l /\ \A i \in 1 .. l : c[i] \in S
  BY ElementOfSeq, LenProperties
<1>2. n \in Ends /\ \A i \in Ends : i <= n
  <2>1. 0 \in Ends /\ Ends \subseteq 0 .. l
    BY <1>1
  <2> HIDE DEF Ends
  <2> QED BY <1>1, <2>1, GreatestOfNats
<1>3. t = SubSeq(c, 1, n)
  OBVIOUS
<1> HIDE DEF n, l
<1>4. /\ n \in 0 .. l
      /\ n > 0 => c[n] # Unknown
      /\ \A i \in 1 .. l : c[i] # Unknown => i <= n
  BY <1>1, <1>2
<1>5. t \in Seq(S) /\ Len(t) = n /\ DOMAIN t = 1 .. n /\ \A i \in 1 .. n : t[i] = c[i]
  <2>1. \A i \in 1 .. n : c[i] \in S
    BY <1>1, <1>4
  <2>2. n \in Int
    BY <1>1, <1>4
  <2>3. /\ SubSeq(c, 1, n) \in Seq(S)
        /\ Len(SubSeq(c, 1, n)) = IF 1 <= n THEN n - 1 + 1 ELSE 0
        /\ \A i \in 1 .. n - 1 + 1 : SubSeq(c, 1, n)[i] = c[1 + i - 1]
    BY <2>1, <2>2, SubSeqProperties
  <2>4. t \in Seq(S) /\ Len(t) = n /\ \A i \in 1 .. n : t[i] = c[i]
    <3>1. (IF 1 <= n THEN n - 1 + 1 ELSE 0) = n /\ n - 1 + 1 = n
      BY <1>1, <1>4
    <3>2. \A i \in 1 .. n : SubSeq(c, 1, n)[i] = c[i]
      <4>1. \A i \in 1 .. n : 1 + i - 1 = i
        BY <2>2
      <4> QED BY <2>3, <3>1, <4>1
    <3> QED BY <1>3, <2>3, <3>1, <3>2
  <2> QED BY <2>4, LenProperties
<1>6. \A i : i \in Known(t) <=> i \in Known(c)
  BY <1>1, <1>4, <1>5 DEF Known
<1>7. \A i \in Known(c) : t[i] = c[i]
  BY <1>1, <1>4, <1>5 DEF Known
<1>8. t = <<>> \/ Last(t) # Unknown
  <2>1. CASE n = 0
    BY <1>3, <2>1, SubSeqEmpty
  <2>2. CASE n # 0
    <3>1. n > 0 /\ n \in 1 .. n
      BY <1>1, <1>4, <2>2
    <3>2. Last(t) = c[n]
      BY <1>5, <3>1 DEF Last
    <3> QED BY <1>4, <3>1, <3>2
  <2> QED BY <2>1, <2>2
<1> QED BY <1>6, <1>7, <1>8

\* Two contexts begin alike, and each element k of d, counted from its end,
\* stands at pos[k] of c, with nothing known between.
Matched(c, d, n, m, pos) ==
  /\ n \in Nat \ {0} /\ m \in Nat \ {0} /\ DOMAIN c = 1 .. m /\ DOMAIN d = 1 .. n
  /\ pos \in [1 .. n -> 1 .. m] /\ pos[1] = 1 /\ c[1] = d[1]
  /\ \A i, j \in 1 .. n : i < j => pos[i] < pos[j]
  /\ \A k \in 2 .. n : d[n + 2 - k] = c[m + 2 - pos[k]]
  /\ \A p \in 2 .. m : m + 2 - p \in Known(c) => \E k \in 1 .. n : pos[k] = p

\* Then they have the same known locations.
LEMMA MatchedBackwards ==
  ASSUME NEW n, NEW m, NEW c, NEW d, NEW pos, Matched(c, d, n, m, pos)
  PROVE  SameKnown(c, d)
<1>0. /\ n \in Nat \ {0} /\ m \in Nat \ {0} /\ DOMAIN c = 1 .. m /\ DOMAIN d = 1 .. n
      /\ pos \in [1 .. n -> 1 .. m] /\ pos[1] = 1 /\ c[1] = d[1]
      /\ \A i, j \in 1 .. n : i < j => pos[i] < pos[j]
      /\ \A k \in 2 .. n : d[n + 2 - k] = c[m + 2 - pos[k]]
      /\ \A p \in 2 .. m : m + 2 - p \in Known(c) => \E k \in 1 .. n : pos[k] = p
  BY DEF Matched
<1> USE <1>0
<1> DEFINE at == [i \in Known(d) |-> IF i = 1 THEN 1 ELSE m + 2 - pos[n + 2 - i]]
<1>1. /\ \A i : i \in Known(d) <=> i \in 1 .. n /\ d[i] \notin {Unknown, Location(StubIp), Location(MainIp)}
      /\ \A i : i \in Known(c) <=> i \in 1 .. m /\ c[i] \notin {Unknown, Location(StubIp), Location(MainIp)}
  BY DEF Known
<1>2. ASSUME NEW k \in 2 .. n PROVE k \in 1 .. n /\ pos[k] \in 2 .. m
  <2>1. 1 \in 1 .. n /\ k \in 1 .. n /\ 1 < k
    OBVIOUS
  <2>2. pos[1] < pos[k] /\ pos[k] \in 1 .. m
    BY <2>1
  <2> QED BY <2>1, <2>2
<1>3. ASSUME NEW i \in 2 .. n
      PROVE  /\ n + 2 - i \in 2 .. n /\ pos[n + 2 - i] \in 2 .. m
             /\ d[i] = c[m + 2 - pos[n + 2 - i]]
  <2>1. n + 2 - i \in 2 .. n /\ n + 2 - (n + 2 - i) = i
    OBVIOUS
  <2>2. d[n + 2 - (n + 2 - i)] = c[m + 2 - pos[n + 2 - i]]
    BY <2>1
  <2> QED BY <1>2, <2>1, <2>2
<1>4. ASSUME NEW i \in Known(d) PROVE at[i] \in Known(c) /\ c[at[i]] = d[i]
  <2>1. CASE i = 1
    BY <1>1, <2>1
  <2>2. CASE i # 1
    <3>1. i \in 2 .. n
      BY <1>1, <2>2
    <3>2. at[i] = m + 2 - pos[n + 2 - i]
      BY <2>2
    <3>3. m + 2 - pos[n + 2 - i] \in 1 .. m
      BY <1>3, <3>1
    <3>4. c[at[i]] = d[i]
      BY <1>3, <3>1, <3>2
    <3> QED BY <1>1, <3>2, <3>3, <3>4
  <2> QED BY <2>1, <2>2
<1>5. ASSUME NEW i \in Known(d), NEW j \in Known(d), i < j PROVE at[i] < at[j]
  <2>1. i \in 1 .. n /\ j \in 2 .. n
    BY <1>1, <1>5
  <2>2. at[j] = m + 2 - pos[n + 2 - j] /\ pos[n + 2 - j] \in 2 .. m
    BY <1>3, <2>1
  <2>3. CASE i = 1
    BY <2>2, <2>3
  <2>4. CASE i # 1
    <3>1. i \in 2 .. n
      BY <2>1, <2>4
    <3>2. at[i] = m + 2 - pos[n + 2 - i] /\ pos[n + 2 - i] \in 2 .. m
      BY <1>3, <2>4, <3>1
    <3>3. n + 2 - j < n + 2 - i /\ n + 2 - j \in 1 .. n /\ n + 2 - i \in 1 .. n
      BY <1>5, <2>1, <3>1
    <3>4. pos[n + 2 - j] < pos[n + 2 - i]
      BY <3>3
    <3> QED BY <2>2, <3>2, <3>4
  <2> QED BY <2>3, <2>4
<1>6. ASSUME NEW q \in Known(c) PROVE \E i \in Known(d) : at[i] = q
  <2>1. CASE q = 1
    <3>1. 1 \in Known(d)
      BY <1>1, <2>1
    <3> QED BY <2>1, <3>1
  <2>2. CASE q # 1
    <3>1. q \in 2 .. m
      BY <1>1, <2>2
    <3>2. m + 2 - q \in 2 .. m /\ m + 2 - (m + 2 - q) = q
      BY <3>1
    <3>3. PICK k \in 1 .. n : pos[k] = m + 2 - q
      BY <3>2
    <3>4. k \in 2 .. n
      BY <3>2, <3>3
    <3>5. n + 2 - k \in 2 .. n /\ n + 2 - (n + 2 - k) = k
      BY <3>4
    <3>6. d[n + 2 - k] = c[q]
      BY <3>2, <3>3, <3>4
    <3>7. n + 2 - k \in Known(d)
      BY <1>1, <3>5, <3>6
    <3>8. at[n + 2 - k] = q
      BY <3>2, <3>3, <3>5, <3>7
    <3> QED BY <3>7, <3>8
  <2> QED BY <2>1, <2>2
<1>7. at \in [Known(d) -> Known(c)] /\ Range(at) = Known(c)
  <2>1. DOMAIN at = Known(d)
    OBVIOUS
  <2> HIDE DEF at
  <2>2. at = [i \in Known(d) |-> at[i]]
    BY DEF at
  <2> QED BY <1>4, <1>6, <2>1, <2>2 DEF Range
<1> HIDE DEF at
<1> QED BY <1>4, <1>5, <1>7 DEF SameKnown

\* Where no longjmp has landed, every call has its activation, in order, and
\* what else the tool's stack holds are stubs and main.
LEMMA CallsArePlaced ==
  ASSUME CallInv, \A f \in Range(real) : ~f.landed,
         NEW n, n = Len(real), NEW m, m = Len(_activations)
  PROVE  /\ m # 0
         /\ \E pos \in [1 .. n -> 1 .. m] :
              /\ pos[1] = 1
              /\ \A i, j \in 1 .. n : i < j => pos[i] < pos[j]
              /\ \A k \in 1 .. n : _activations[pos[k]].ip = real[k].ip
              /\ \A p \in 1 .. m :
                   \/ \E k \in 1 .. n : pos[k] = p
                   \/ _activations[p].ip \in {StubIp, MainIp}
<1> DEFINE pos == [k \in 1 .. n |-> CHOOSE p \in 1 .. m : IsCall(_activations[p], real[k])]
<1> USE DEF CallInv
<1>1. /\ n \in Nat \ {0} /\ DOMAIN real = 1 .. n
      /\ \A i \in 1 .. n : real[i].sp \in Int /\ real[i].rest \in Int /\ real[i].rest < real[i].sp
                           /\ real[i].hops \in Nat
      /\ \A i, j \in 1 .. n : i < j => real[j].sp <= real[i].rest
  BY TypeOfReal
<1>2. /\ m \in Nat /\ DOMAIN _activations = 1 .. m /\ \A p \in 1 .. m : _activations[p].sp \in Int
      /\ \A p, q \in 1 .. m : p < q => _activations[q].sp < _activations[p].sp
  BY SpOfActivation DEF CallTypeOK
<1>3. ASSUME NEW k \in 1 .. n PROVE \E p \in 1 .. m : IsCall(_activations[p], real[k])
  <2>1. real[k] \in Range(real)
    BY <1>1 DEF Range
  <2>2. PICK a \in Range(_activations) : IsCall(a, real[k])
    BY <2>1 DEF NoCallLost
  <2> QED BY <1>2, <2>2 DEF Range
<1>4. \A k \in 1 .. n : pos[k] \in 1 .. m /\ IsCall(_activations[pos[k]], real[k])
  BY <1>3
<1>5. pos \in [1 .. n -> 1 .. m]
  BY <1>4
<1> HIDE DEF pos
<1>6. ASSUME NEW k \in 1 .. n
      PROVE  _activations[pos[k]].ip = real[k].ip /\ _activations[pos[k]].sp = real[k].sp
  <2>1. _activations[pos[k]] = [ip |-> real[k].ip, sp |-> real[k].sp]
    BY <1>4 DEF IsCall, Activation
  <2> QED BY <2>1
<1>7. \A p, q \in 1 .. m : _activations[p].sp = _activations[q].sp => p = q
  BY <1>2
<1>8. \A i, j \in 1 .. n : i < j => real[j].sp < real[i].sp
  BY <1>1
<1>9. ASSUME NEW i \in 1 .. n, NEW j \in 1 .. n, i < j PROVE pos[i] < pos[j]
  <2>1. /\ _activations[pos[j]].sp < _activations[pos[i]].sp
        /\ pos[i] \in 1 .. m /\ pos[j] \in 1 .. m
    BY <1>4, <1>6, <1>8, <1>9
  <2>2. ~(pos[j] < pos[i]) /\ pos[i] # pos[j]
    BY <1>2, <2>1
  <2> QED BY <1>2, <2>1, <2>2
<1>10. ASSUME NEW p \in 1 .. m
       PROVE  \E k \in 1 .. n : \/ _activations[p].sp = real[k].sp /\ pos[k] = p
                               \/ /\ _activations[p].ip \in {StubIp, MainIp}
                                  /\ _activations[p].sp < real[k].sp
  <2>1. _activations[p] \in Range(_activations)
    BY <1>2 DEF Range
  <2>2. \A k \in 1 .. n : real[k] \in Range(real)
    BY <1>1 DEF Range
  <2>3. PICK f \in Range(real) : IsCall(_activations[p], f) \/ IsEntry(_activations[p], f)
    BY <1>1, <2>1, <2>2 DEF StaleOnlyWhereLanded
  <2>4. PICK k \in 1 .. n : f = real[k]
    BY <1>1 DEF Range
  <2>5. CASE IsCall(_activations[p], f)
    <3>1. _activations[p].sp = real[k].sp
      BY <2>4, <2>5 DEF IsCall, Activation
    <3>2. pos[k] = p
      BY <1>4, <1>6, <1>7, <3>1
    <3> QED BY <3>1, <3>2
  <2>6. CASE IsEntry(_activations[p], f)
    <3>1. _activations[p].ip \in {StubIp, MainIp} /\ _activations[p].sp <= real[k].sp - 1
      BY <1>1, <1>2, <2>4, <2>6 DEF IsEntry, Activation
    <3> QED BY <1>1, <1>2, <3>1
  <2> QED BY <2>3, <2>5, <2>6
<1>11. m # 0 /\ pos[1] = 1
  <2>1. 1 \in 1 .. n /\ pos[1] \in 1 .. m
    BY <1>1, <1>4
  <2>2. 1 \in 1 .. m
    BY <1>2, <2>1
  <2>3. PICK k \in 1 .. n : _activations[1].sp <= real[k].sp
    BY <1>1, <1>2, <1>10, <2>2
  <2>4. real[k].sp <= real[1].sp
    BY <1>1, <1>8, <2>1
  <2>5. _activations[1].sp <= _activations[pos[1]].sp
    BY <1>1, <1>2, <1>6, <2>1, <2>2, <2>3, <2>4
  <2>6. ~(1 < pos[1])
    BY <1>2, <2>1, <2>2, <2>5
  <2> QED BY <1>2, <2>1, <2>2, <2>6
<1> QED BY <1>5, <1>6, <1>9, <1>10, <1>11

\* A context is the real chain of calls, as far as the table knows it: the
\* activations are written, mapped and trimmed without one lost, added or moved.
THEOREM ContextsAreTrue == CallSpec => []ContextIsTrue
<1>1. ASSUME CallInv PROVE ContextIsTrue
  <2> SUFFICES ASSUME \A f \in Range(real) : ~f.landed, NEW ip \in Ips
               PROVE  /\ SameKnown(ParseContext(DumpStack(ip)),
                                   [i \in DOMAIN Chain(ip) |-> Location(Chain(ip)[i])])
                      /\ \/ ParseContext(DumpStack(ip)) = <<>>
                         \/ Last(ParseContext(DumpStack(ip))) # Unknown
    BY DEF ContextIsTrue
  <2> DEFINE n == Len(real)
             m == Len(_activations)
             line == DumpStack(ip)
             c == Locations(line)
             t == ParseContext(line)
             d == [i \in DOMAIN Chain(ip) |-> Location(Chain(ip)[i])]
  <2>0. n = Len(real) /\ m = Len(_activations)
    OBVIOUS
  <2> HIDE DEF n, m
  <2>1. /\ m # 0
        /\ \E pos \in [1 .. n -> 1 .. m] :
             /\ pos[1] = 1
             /\ \A i, j \in 1 .. n : i < j => pos[i] < pos[j]
             /\ \A k \in 1 .. n : _activations[pos[k]].ip = real[k].ip
             /\ \A p \in 1 .. m :
                  \/ \E k \in 1 .. n : pos[k] = p
                  \/ _activations[p].ip \in {StubIp, MainIp}
    BY <1>1, <2>0, CallsArePlaced, SMTT(40)
  <2>2. /\ m \in Nat /\ Len(line) = m + 1 /\ line[1] = ip
        /\ \A p \in 1 .. m : line[m + 2 - p] = _activations[p].ip
    BY <1>1, <2>0, DumpedInReverse DEF CallInv
  <2>3. /\ n \in Nat \ {0} /\ DOMAIN Chain(ip) = 1 .. n /\ Chain(ip)[1] = ip
        /\ \A k \in 2 .. n : Chain(ip)[n + 2 - k] = real[k].ip
    BY <1>1, <2>0, ChainInReverse DEF CallInv
  <2>4. PICK pos \in [1 .. n -> 1 .. m] :
             /\ pos[1] = 1
             /\ \A i, j \in 1 .. n : i < j => pos[i] < pos[j]
             /\ \A k \in 1 .. n : _activations[pos[k]].ip = real[k].ip
             /\ \A p \in 1 .. m :
                  \/ \E k \in 1 .. n : pos[k] = p
                  \/ _activations[p].ip \in {StubIp, MainIp}
    BY <2>1
  <2>5. c = [i \in 1 .. Len(line) - 1 |-> Location(line[i])]
    BY DEF Locations
  <2>6. t = SubSeq(c, 1, Max({i \in 0 .. Len(c) : i = 0 \/ c[i] # Unknown}))
    BY DEF ParseContext
  <2> HIDE DEF line, c, t
  <2>7. DOMAIN c = 1 .. m /\ Len(c) = m /\ \A i \in 1 .. m : c[i] = Location(line[i])
    BY <2>2, <2>5
  <2>8. DOMAIN d = 1 .. n /\ \A i \in 1 .. n : d[i] = Location(Chain(ip)[i])
    BY <2>3
  <2> HIDE DEF d
  <2>9. SameKnown(c, d)
    <3>1. c[1] = d[1]
      BY <2>1, <2>2, <2>3, <2>7, <2>8
    <3>2. ASSUME NEW p \in 2 .. m
          PROVE  m + 2 - p \in 1 .. m /\ c[m + 2 - p] = Location(_activations[p].ip)
      BY <2>2, <2>7
    <3>3. ASSUME NEW k \in 2 .. n PROVE d[n + 2 - k] = c[m + 2 - pos[k]]
      <4>1. k \in 1 .. n /\ 1 \in 1 .. n /\ 1 < k /\ n + 2 - k \in 1 .. n
        BY <2>3
      <4>2. pos[1] < pos[k] /\ pos[k] \in 1 .. m
        BY <2>4, <4>1
      <4>3. pos[k] \in 2 .. m
        BY <2>2, <2>4, <4>2
      <4>4. d[n + 2 - k] = Location(real[k].ip)
        BY <2>3, <2>8, <4>1
      <4>5. c[m + 2 - pos[k]] = Location(_activations[pos[k]].ip)
        BY <3>2, <4>3
      <4> QED BY <2>4, <4>1, <4>4, <4>5
    <3>4. ASSUME NEW p \in 2 .. m, m + 2 - p \in Known(c)
          PROVE  \E k \in 1 .. n : pos[k] = p
      <4>1. Location(_activations[p].ip) \notin {Location(StubIp), Location(MainIp)}
        BY <3>2, <3>4 DEF Known
      <4>2. _activations[p].ip \notin {StubIp, MainIp} /\ p \in 1 .. m
        BY <2>2, <4>1
      <4> QED BY <2>4, <4>2
    <3>5. n \in Nat \ {0} /\ m \in Nat \ {0} /\ DOMAIN c = 1 .. m /\ DOMAIN d = 1 .. n
      BY <2>1, <2>2, <2>3, <2>7, <2>8
    <3>6. /\ pos \in [1 .. n -> 1 .. m] /\ pos[1] = 1
          /\ \A i, j \in 1 .. n : i < j => pos[i] < pos[j]
      BY <2>4
    <3>7. Matched(c, d, n, m, pos)
      BY ONLY <3>1, <3>3, <3>4, <3>5, <3>6 DEF Matched
    <3> QED BY ONLY <3>7, MatchedBackwards
  <2>10. /\ Known(t) = Known(c) /\ \A i \in Known(c) : t[i] = c[i]
         /\ t = <<>> \/ Last(t) # Unknown
    <3> DEFINE S == {c[i] : i \in 1 .. m}
    <3>1. c \in Seq(S)
      BY <2>2, <2>5, <2>7
    <3> HIDE DEF S
    <3> QED BY <2>6, <3>1, Trimmed
  <2>11. SameKnown(t, d)
    BY <2>9, <2>10 DEF SameKnown
  <2> QED BY <2>10, <2>11 DEF t, d, line
<1> QED BY <1>1, CallInvariant, PTL
=============================================================================
