----------------------------- MODULE MCFrontend -----------------------------
(***************************************************************************)
(* An instance of Frontend for TLC: a trace of three events is replaced by *)
(* one of a single event.                                                  *)
(***************************************************************************)
EXTENDS Frontend

TwoTraces == <<3, 1>>
=============================================================================
