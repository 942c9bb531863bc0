---------------------------- MODULE MCPollSystem ----------------------------
(***************************************************************************)
(* Instances of PollSystem for TLC: every page watches the same executable.*)
(***************************************************************************)
EXTENDS PollSystem, TLC

CONSTANT TheExec

WatchTheExec == [c \in Clients |-> TheExec]
WorkerSymmetry == Permutations(Workers)
=============================================================================
