----------------------------- MODULE ServerStore -----------------------------
(***************************************************************************)
(* PervertServer implements TraceStore.  A manager is a cell; it is being  *)
(* rebuilt from the moment an update has its lock until the new trace is   *)
(* stored, and vouched for while a status request has it.  The bare        *)
(* pointer that is dangling meanwhile is the old generation of the cell.   *)
(***************************************************************************)
EXTENDS PervertServer

Rebuilding == {d \in Managers : \E w \in Workers :
                 pc[w] \in {"delete", "build"} /\ job[w].mgr = d}
Vouching == {d \in Managers : \E w \in Workers :
               pc[w] = "release" /\ job[w].mgr = d}

\* An update whose trace is stored, but not counted.
Unannounced == {"unlock", "okay", "log"}

Store == INSTANCE TraceStore
  WITH Cells <- Managers, Empty <- Null, up <- alive, cell <- trace,
       building <- Rebuilding, newest <- built, finished <- At(Unannounced),
       announced <- lastChangeID, vouched <- Vouching

\* PervertLayer with its lock does what a store of traces promises: one builder
\* per executable's manager, every generation new, every finished update
\* announced once, and GOOD (datamanager.cpp:42) never said during a rebuild.
ImplementsStore == Store!Spec
=============================================================================
