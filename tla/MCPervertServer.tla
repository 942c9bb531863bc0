-------------------------- MODULE MCPervertServer --------------------------
(***************************************************************************)
(* Instances of PervertServer for TLC.  The workers are interchangeable:   *)
(* no action or invariant tells them apart, so safety runs use symmetry.   *)
(***************************************************************************)
EXTENDS ServerStore, TLC

WorkerSymmetry == Permutations(Workers)
=============================================================================
