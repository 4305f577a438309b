----------------------------- MODULE EngineDisk -----------------------------
(***************************************************************************)
(* The engine of module Engine on a machine that can lose power.  Engine's *)
(* wal and blob are what the page cache holds; here walMay and blobMay are *)
(* the contents the two files may have after a power loss.  A write or a   *)
(* truncation adds a possibility, fsync leaves one.  FileLogStore::sync is *)
(* the only fsync of the program: FileBlobStore::put renames a file that   *)
(* nobody synced, and FileLogStore::truncate does not sync either.         *)
(***************************************************************************)
EXTENDS Engine, SequencesExt

CONSTANT MaxMay \* bound, by policy: contents the log may have on disk when a call starts

VARIABLES
    walMay,    \* contents wal.log may have after a power loss
    blobMay,   \* contents blobs/snapshot may have after a power loss
    window,    \* history: the views a power loss may bring back
    stale      \* history: since the last fsync the files were exposed, or a snapshot
               \* was published while the log was not synced

diskVars == <<vars, walMay, blobMay, window, stale>>

DiskInit ==
    /\ Init
    /\ walMay = {<<>>}
    /\ blobMay = {<<>>}
    /\ window = {EmptyView}
    /\ stale = FALSE

\* What Engine::recover makes of the files: the snapshot, then the log up to the
\* first torn fragment.
RestartView(b, w) ==
    LET cut == {i \in 1..Len(w) : ~w[i].whole}
        end == IF cut = {} THEN Len(w) ELSE Min(cut) - 1
        log == [i \in 1..end |-> w[i].bytes]
    IN  FoldLeft(LAMBDA view, bytes : ApplyView(view, decode_op(bytes)), EmptyView, b \o log)


\* The data of a renamed file may be on disk up to any record.
BlobPossibilities(b) == {SubSeq(b, 1, n) : n \in 0..Len(b)}

Synced == walMay' = {wal} /\ stale' = Exposed

\* A record becomes recoverable when its payload is complete.
Recoverable == IF op # NoOp /\ op' = op /\ pc = "payload" THEN {ApplyView(promised, op)} ELSE {}

\* SyncPolicy::Always: a mutation that returns is durable.
Acknowledged == policy = "Always" /\ pc = "apply" /\ pc' = "idle"

EngineStep ==
    /\ pc = "idle" => Cardinality(walMay) <= MaxMay[policy]
    /\ Next
    /\ IF pc = "fsync" /\ pc' = "apply" THEN Synced
       ELSE /\ walMay' = IF wal' = wal THEN walMay ELSE walMay \cup {wal'}
            /\ stale' = (stale \/ Exposed' \/ (pc' = "truncate" /\ walMay # {wal}))
    /\ window' = IF Acknowledged THEN {promised'} ELSE window \cup {promised'} \cup Recoverable
    /\ blobMay' = IF blob' = blob THEN blobMay ELSE blobMay \cup BlobPossibilities(blob')

\* Mutant: flush() does not reach fsync.
FlushNothing ==
    /\ pc = "idle"
    /\ fd
    /\ policy # "Off"
    /\ stale' = Exposed
    /\ window' = {promised}
    /\ UNCHANGED <<vars, walMay, blobMay>>

\* Engine::flush.
Flush ==
    /\ pc = "idle"
    /\ fd
    /\ policy # "Off"
    /\ Synced
    /\ window' = {promised}
    /\ UNCHANGED <<vars, blobMay>>

\* The kernel gets around to writing the snapshot.
Writeback ==
    /\ blobMay # {blob}
    /\ blobMay' = {blob}
    /\ UNCHANGED <<vars, walMay, window, stale>>

PowerLoss ==
    /\ Fault("power")
    /\ Gone
    /\ wal' \in walMay
    /\ blob' \in blobMay
    /\ promised' = IF Poisoned' THEN promised ELSE RestartView(blob', wal')
    /\ orphan' = FALSE
    /\ lossy' = FALSE
    /\ UNCHANGED policy
    /\ walMay' = {wal'}
    /\ blobMay' = {blob'}
    /\ window' = {promised'}
    /\ stale' = Exposed'

DiskNext == EngineStep \/ Flush \/ Writeback \/ PowerLoss

DiskSpec == DiskInit /\ [][DiskNext]_diskVars

-----------------------------------------------------------------------------


\* With the snapshot on disk, a power loss at any step brings back the contents
\* at some point since the last fsync of the log (SyncPolicy::Always: the
\* contents owed, the mutation in flight included or not), never a mixture, also
\* if the truncation of the log is not on disk.  This needs the log to be synced
\* when the snapshot is published.
PowerLossKeepsSynced ==
    ~stale /\ blobMay = {blob} =>
        \A w \in walMay : RestartView(blob, w) \in window

\* What engine.hpp says of snapshot(), under any policy: recovery loads the
\* snapshot and replays only what came after it.  So after a snapshot that is on
\* disk a power loss brings back the contents at one moment, not old mutations
\* over new contents.
RecoveryNeverMixes ==
    pc = "idle" /\ blobMay = {blob} => \A w \in walMay : RestartView(blob, w) \in window

\* What log_store.hpp says of SyncPolicy::Always: a mutation that returned is
\* durable, whatever snapshots were taken.
AlwaysIsDurable ==
    pc = "idle" =>
        \A w \in walMay, b \in blobMay : RestartView(b, w) = promised
=============================================================================
