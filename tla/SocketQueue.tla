---------------------------- MODULE SocketQueue ----------------------------
(***************************************************************************)
(* What the queue between mongoose's master and its workers promises: a    *)
(* bounded queue, first in, first out.                                     *)
(***************************************************************************)
EXTENDS Integers, Sequences

CONSTANTS Items, Size

VARIABLE q

Init == q = <<>>

Put(s) == Len(q) < Size /\ q' = Append(q, s)
Take   == q # <<>> /\ q' = Tail(q)

Next == Take \/ \E s \in Items : Put(s)

Spec == Init /\ [][Next]_q
=============================================================================
