----------------------------- MODULE MCContexts ----------------------------
(***************************************************************************)
(* An instance of Contexts for TLC.  The table has two compilation units,  *)
(* the first of them at the higher addresses, and a row that is empty.     *)
(***************************************************************************)
EXTENDS Contexts

UnitsOutOfOrder == <<5, 6, 1, 2, 2, 3>>
=============================================================================
