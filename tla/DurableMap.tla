----------------------------- MODULE DurableMap -----------------------------
(***************************************************************************)
(* What the durable engine promises: a map from external ids to vectors    *)
(* and metadata that outlives the process.  While the map is sealed, a     *)
(* crash keeps it, except that the mutation in progress may count as done. *)
(* Once it is not sealed (the engine wrote behind a torn record, logged an *)
(* operation it then rejected, or an I/O call failed at the wrong moment), *)
(* what the next start finds is anything, and a mutation may be lost       *)
(* until the map is sealed again.                                          *)
(***************************************************************************)
EXTENDS VectorStore

VARIABLES
    db,        \* the contents
    up,        \* calls are served
    inflight,  \* the mutation in progress
    sealed     \* the files stand for the contents

mapVars == <<db, up, inflight, sealed>>

MapInit == db = EmptyView /\ up = FALSE /\ inflight = NoOp /\ sealed = TRUE

Call ==
    /\ up /\ up'
    /\ inflight = NoOp
    /\ inflight' \in Ops
    /\ UNCHANGED <<db, sealed>>

\* A mutation takes effect at once and completely, or it fails and has none.
Done ==
    /\ up /\ up'
    /\ inflight # NoOp
    /\ inflight.vec \notin BadVecs
    /\ db' = ApplyView(db, inflight)
    /\ inflight' = NoOp
    /\ UNCHANGED sealed

Failed ==
    /\ up /\ up'
    /\ inflight # NoOp
    /\ inflight' = NoOp
    /\ sealed' \in {sealed, FALSE}
    /\ UNCHANGED db

\* The files fall behind the contents, or catch up with them.
Unseal == sealed /\ ~sealed' /\ UNCHANGED <<db, up, inflight>>
Seal == ~sealed /\ sealed' /\ up /\ inflight = NoOp /\ UNCHANGED <<db, up, inflight>>

Crash ==
    /\ up /\ ~up'
    /\ inflight' = NoOp
    /\ \/ db' = db
       \/ inflight # NoOp /\ inflight.vec \notin BadVecs /\ db' = ApplyView(db, inflight)
    /\ UNCHANGED sealed

\* A start that fails is a start that has not happened yet.
Start ==
    /\ ~up
    /\ up'
    /\ IF sealed THEN db' = db /\ sealed' ELSE db' \in Views /\ sealed' \in BOOLEAN
    /\ UNCHANGED inflight

MapNext == Call \/ Done \/ Failed \/ Unseal \/ Seal \/ Crash \/ Start

MapSpec == MapInit /\ [][MapNext]_mapVars
=============================================================================
