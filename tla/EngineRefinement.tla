-------------------------- MODULE EngineRefinement --------------------------
(***************************************************************************)
(* The engine, with its log, snapshot, crashes and failed calls, as an     *)
(* implementation of the durable map.                                      *)
(***************************************************************************)
EXTENDS Engine

\* The engine implements the durable map: between calls its contents are those
\* of the store, during a call and while it is down those it owes.
Contents == IF pc = "idle" THEN View(store) ELSE promised
Up == pc \notin {"down", "load", "replay", "refused"}

Map == INSTANCE DurableMap WITH db <- Contents, up <- Up, inflight <- op, sealed <- ~Exposed

\* Each step of the engine is one step of the durable map or none: no
\* mutation is half done, a crash keeps the contents while the files stand for
\* them, and only a snapshot or a restart makes them stand for them again.
Implements == Map!MapSpec
=============================================================================
